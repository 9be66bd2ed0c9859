SPECIFICATION Spec
CONSTANTS
  Senders = {"s", "t"}
  MaxLives = 2
  MaxSeq = 2
INVARIANTS TypeOK LastIsNewest
PROPERTIES StreamSpec FreshDropsExplained
