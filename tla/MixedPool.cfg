SPECIFICATION Spec

CONSTANTS
  Requests = {r1, r2, r3}
  Shapes <- SmallShapes
  PromptTagged = {p1}
  TokenTagged = {t1, t2}
  NoInstance = NoInstance
  ModelSize = 1
  MaxMemory = 6
  PromptMaxPending = 2

INVARIANTS
  PoolsPartition
  TagsAgree
  AlwaysAnInstance
  LoadIsAccurate
  MemoryIsAccurate
PROPERTIES
  MixedForWork
