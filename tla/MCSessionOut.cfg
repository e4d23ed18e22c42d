SPECIFICATION FairSpec
CONSTANTS
  Capacity = 3
  IdModulus = 3
  IdSetCapacity = 1
  TxCapacity = 1
  NumRequests = 3
  InboundIds = {}
  CleanSessions = {FALSE}
  SplitKinds = {"CONNECT"}
  CallbacksMayFail = FALSE
  SessionKinds = {"PUBLISH_0", "PUBLISH_1", "PUBLISH_2"}
  NumInbound = 0
  InboundQos = {2}
  MaxBreaks = 2
  MaxForgets = 1
  RetriesWhenFull = FALSE
INVARIANTS
  OutAtMostOnce SuccessIsPublished PublishedInOrder AnswersFindRequests
PROPERTIES
  RequestsSucceed
CHECK_DEADLOCK FALSE
