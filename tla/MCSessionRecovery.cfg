SPECIFICATION FairSpec
CONSTANTS
  Capacity = 7
  IdModulus = 3
  IdSetCapacity = 2
  TxCapacity = 1
  NumRequests = 1
  InboundIds = {1, 2}
  CleanSessions = {FALSE}
  SplitKinds = {"CONNECT", "SUBSCRIBE"}
  CallbacksMayFail = FALSE
  SessionKinds = {"PUBLISH_2", "SUBSCRIBE"}
  NumInbound = 2
  InboundQos = {2}
  MaxBreaks = 1
  MaxForgets = 1
  RetriesWhenFull = FALSE
INVARIANTS
  InAtMostOnce AckedIsDelivered EveryMessageIsAnswered
PROPERTIES
  RequestsSucceed MessagesComplete
CHECK_DEADLOCK FALSE
