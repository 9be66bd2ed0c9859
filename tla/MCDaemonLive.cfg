SPECIFICATION LiveSpec
CONSTANTS
  None = None
  Peers = {"left"}
  Neighbors = {"left"}
  Conns = {"a"}
  RemoteOf <- MCRemoteOf
  EventCap = 1
  ChanCap = 1
  LowestCount = 0
  MaxSkipped = 1
INVARIANT HoldersAdvance
PROPERTY HandlersFinish
CHECK_DEADLOCK FALSE
