SPECIFICATION Spec
CONSTANTS
  Capacity = 2
  IdModulus = 2
  IdSetCapacity = 1
  TxCapacity = 1
  NumRequests = 2
  InboundIds = {1}
  CleanSessions = {TRUE, FALSE}
  SplitKinds = {"CONNECT", "SUBSCRIBE"}
  CallbacksMayFail = TRUE
INVARIANTS
  TypeOK ConnectPhase MarkedExpectResponse EncoderMatchesCurrent
  NoStaleControl
PROPERTIES
  OnlyReconnectLosesRequest OnlyFinalizeCallsAgain
CHECK_DEADLOCK FALSE
