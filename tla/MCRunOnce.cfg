SPECIFICATION Spec
CONSTANTS
  RdCapacity = 2
  WrCapacity = 3
  SocketRoom = 1
  MaxCalls = 1
  MaxMessages = 1
INVARIANTS
  NoDeafSelect
  NoMuteSelect
PROPERTIES
  NothingDroppedAtEof
  AllWritten
  AllDecoded
CHECK_DEADLOCK FALSE
