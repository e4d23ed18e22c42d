SPECIFICATION Spec
CONSTANTS
  Radix = 4
  Base = 2
  StreamKinds = {"PUBLISH_0", "PUBLISH_2", "PUBREL"}
  TopicLens = {2}
  PayloadLens = {0, 2}
  NumPackets = 2
  WireCapacity = 3
  MaxBreaks = 1
INVARIANTS
  ReceivedIsSent NoDecodeError DupIsHonest OwnedIsReturned
PROPERTIES
  AllReceived
CHECK_DEADLOCK FALSE
