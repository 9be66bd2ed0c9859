SPECIFICATION Spec
CONSTANTS
  None = None
  Peers = {"left", "right"}
  Neighbors = {"left", "right"}
  Conns = {"a", "a2"}
  RemoteOf <- MCRemoteOf
  EventCap = 1
  ChanCap = 1
  LowestCount = 0
  MaxSkipped = 1
INVARIANTS TypeOK LockInv DeadlockShape EntriesAlive ChosenStillConnected MissingEntryExplained HidesAreUndone
ACTION_CONSTRAINT OneStream
VIEW NoContents
CHECK_DEADLOCK FALSE
