SPECIFICATION FairSpec
CONSTANTS
  Clients = {c1, c2}
  MaxOperations = 3
  MaxAborts = 1
INVARIANTS
  OnlyTheNamedIsAborted
  ShownQueueIsReal
PROPERTIES
  ServesInOrder
  EveryOperationEnds
CHECK_DEADLOCK FALSE
