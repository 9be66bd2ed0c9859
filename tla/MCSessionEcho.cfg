SPECIFICATION Spec
CONSTANTS
  None = None
  Machines = {"A", "B"}
  Neighbors <- MCNeighbors
  Hooked = {"A", "B"}
  Conns = {"ba"}
  Dialer <- MCDialer
  Listener <- MCListener
  EventCap = 2
  WireCap = 2
  MaxInputs <- FourInputs
PROPERTY OnlyPhysicalPreempts
CHECK_DEADLOCK FALSE
