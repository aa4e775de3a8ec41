SPECIFICATION Spec
CONSTANTS
  Peers = {1, 2}
  Ranges <- OneRange
  Cuts <- OneCut
  MaxTime = 2
  MaxSent = 2
  Ids = {1}
  MaxOps = 2
  Clients = {c1, c2}
  Keys = {k1}
  MaxOperations = 3
  MaxClock = 1
CHECK_DEADLOCK FALSE
INVARIANTS
  DeliversInOrder
  OverlapsAreFlagged
PROPERTIES
  QueueDrains
  RestartsEnd
