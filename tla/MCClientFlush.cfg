SPECIFICATION Spec
CONSTANTS
  Capacity = 2
  IdModulus = 3
  IdSetCapacity = 1
  TxCapacity = 1
  NumRequests = 1
  InboundIds = {}
  CleanSessions = {TRUE, FALSE}
  SplitKinds = {}
  CallbacksMayFail = FALSE
INVARIANTS
  SuccessOnlyIfAcked
CHECK_DEADLOCK FALSE
