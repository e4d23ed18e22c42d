SPECIFICATION Spec
CONSTANTS
  Capacity = 3
  IdModulus = 3
  IdSetCapacity = 1
  TxCapacity = 1
  NumRequests = 3
  InboundIds = {}
  CleanSessions = {FALSE}
  SplitKinds = {}
  CallbacksMayFail = FALSE
INVARIANTS
  PendingIsTracked NoDanglingRequest CalledOnce FinalizeResolvesAll
  KeptSessionNeverFails ResentInOrder NoRepublishAfterPubrec
CHECK_DEADLOCK FALSE
