SPECIFICATION Spec
CONSTANTS
  None = None
  Peers = {"left", "right"}
  Neighbors = {"left"}
  Conns = {"a"}
  RemoteOf <- MCRemoteOf
  EventCap = 1
  ChanCap = 1
  LowestCount = 0
  MaxSkipped = 1
PROPERTY PreemptNotifies
CHECK_DEADLOCK FALSE
