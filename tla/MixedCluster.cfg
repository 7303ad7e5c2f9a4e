SPECIFICATION MixedSpec

CONSTANTS
  Requests = {1, 2, 3}
  Shapes <- Shapes2
  Instances = {p1, t1, t2}
  PromptTagged = {p1}
  TokenTagged = {t1, t2}
  Orca = {}
  NoInstance = NoInstance
  Placements <- AnyPair
  LateEvents = FALSE
  ModelSize = 1
  MaxMemory = 9
  MaxBatchSize = 2
  MaxBatchTokens = 3
  MaxPreemptions = 1
  PromptMaxPending = 2

INVARIANTS
  ReservedCoversUsed
  IdleIsShort
  MemoryFits
PROPERTIES
  ImplementsMixedPool
