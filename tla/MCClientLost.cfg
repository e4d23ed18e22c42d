SPECIFICATION Spec
CONSTANTS
  Capacity = 2
  IdModulus = 3
  IdSetCapacity = 1
  TxCapacity = 1
  NumRequests = 1
  InboundIds = {}
  CleanSessions = {FALSE}
  SplitKinds = {"SUBSCRIBE"}
  CallbacksMayFail = FALSE
INVARIANTS
  PendingIsTracked
CHECK_DEADLOCK FALSE
