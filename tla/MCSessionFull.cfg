SPECIFICATION FairSpec
CONSTANTS
  Capacity = 2
  IdModulus = 3
  IdSetCapacity = 1
  TxCapacity = 1
  NumRequests = 1
  InboundIds = {1}
  CleanSessions = {FALSE}
  SplitKinds = {}
  CallbacksMayFail = FALSE
  SessionKinds = {"PUBLISH_2"}
  NumInbound = 2
  InboundQos = {2}
  MaxBreaks = 2
  MaxForgets = 0
  RetriesWhenFull = FALSE
PROPERTIES
  MessagesComplete
CHECK_DEADLOCK FALSE
