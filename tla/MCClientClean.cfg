SPECIFICATION Spec
CONSTANTS
  Capacity = 2
  IdModulus = 3
  IdSetCapacity = 1
  TxCapacity = 1
  NumRequests = 3
  InboundIds = {}
  CleanSessions = {TRUE}
  SplitKinds = {}
  CallbacksMayFail = FALSE
INVARIANTS
  SuccessOnlyIfAcked
PROPERTIES
  ImplementsLifecycle
CHECK_DEADLOCK FALSE
