SPECIFICATION FairClusterSpec

CONSTANTS
  Requests = {1, 2, 3}
  Shapes <- Shapes2
  Instances = {"p", "t"}
  Orca = {"t"}
  NoInstance = NoInstance
  Placements <- AnyPair
  LateEvents = FALSE
  ModelSize = 0
  MaxMemory = 11
  MaxBatchSize = 2
  MaxBatchTokens = 3
  MaxPreemptions = 1

INVARIANTS
  QueuesAgree
  BatchWithinLimits
  RunsAreExact
PROPERTIES
  OrcaIsFirstCome
  FollowsRequestPath
  EveryRequestServed
