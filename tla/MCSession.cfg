SPECIFICATION Spec
CONSTANTS
  None = None
  Machines = {"A", "B"}
  Neighbors <- MCNeighbors
  Hooked = {"A", "B"}
  Conns = {"ba"}
  Dialer <- MCDialer
  Listener <- MCListener
  EventCap = 2
  WireCap = 2
  MaxInputs <- FourInputs
INVARIANTS TypeOK ActInOrder MutualControlIsTransient
PROPERTY RoutingSpec
CHECK_DEADLOCK FALSE
ACTION_CONSTRAINT FirstMoves
CONSTRAINT OneLeaving
