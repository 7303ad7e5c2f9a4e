SPECIFICATION ClusterSpec

CONSTANTS
  Requests = {1, 2, 3, 4}
  Shapes <- Shapes2
  Instances = {"p", "t"}
  Orca = {}
  NoInstance = NoInstance
  Placements <- Pairs
  LateEvents = FALSE
  ModelSize = 0
  MaxMemory = 5
  MaxBatchSize = 3
  MaxBatchTokens = 4
  MaxPreemptions = 1

INVARIANTS
  OldestIsBlocked

CHECK_DEADLOCK FALSE
