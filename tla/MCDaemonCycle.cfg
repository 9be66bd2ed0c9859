SPECIFICATION Spec
CONSTANTS
  None = None
  Peers = {"left", "right"}
  Neighbors = {"left"}
  Conns = {"a", "b"}
  RemoteOf <- MCRemoteOf
  EventCap = 1
  ChanCap = 1
  LowestCount = 0
  MaxSkipped = 1
INVARIANT IndependentReaders
CHECK_DEADLOCK FALSE
