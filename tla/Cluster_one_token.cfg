SPECIFICATION ClusterSpec

CONSTANTS
  Requests = {1, 2, 3}
  Shapes <- ShapesOne
  Instances = {"p", "t"}
  Orca = {}
  NoInstance = NoInstance
  Placements <- AnyPair
  LateEvents = FALSE
  ModelSize = 0
  MaxMemory = 100
  MaxBatchSize = 2
  MaxBatchTokens = 3
  MaxPreemptions = 1

INVARIANTS
  PauseFindsEvent
