SPECIFICATION SSpec
CONSTANTS
  Capacity = 2
  IdModulus = 3
  IdSetCapacity = 1
  TxCapacity = 1
  NumRequests = 3
  InboundIds = {}
  CleanSessions = {FALSE}
  SplitKinds = {}
  CallbacksMayFail = FALSE
  SessionKinds = {"PUBLISH_0", "PUBLISH_1", "PUBLISH_2"}
  NumInbound = 0
  InboundQos = {2}
  MaxBreaks = 2
  MaxForgets = 0
  RetriesWhenFull = TRUE
INVARIANTS
  SuccessIsPublished
CHECK_DEADLOCK FALSE
