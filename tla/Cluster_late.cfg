SPECIFICATION ClusterSpec

CONSTANTS
  Requests = {1, 2, 3}
  Shapes <- Shapes2
  Instances = {"p", "t"}
  Orca = {}
  NoInstance = NoInstance
  Placements <- AnyPair
  LateEvents = TRUE
  ModelSize = 0
  MaxMemory = 100
  MaxBatchSize = 2
  MaxBatchTokens = 3
  MaxPreemptions = 1

INVARIANTS
  ProcessedWithinLimit
