SPECIFICATION Spec
CONSTANTS
  Second = 2
  Timeout = 1
  KeepAlive = 2
  PeerDelay = 1
  AppDelay = 1
  MaxTime = 6
  MaxCalls = 2
INVARIANTS
  SilenceIsNoticed
  BrokerHearsClient
PROPERTIES
  LivePeerKept
  TimeoutMeansSilence
CHECK_DEADLOCK FALSE
