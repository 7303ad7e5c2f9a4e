SPECIFICATION MetricsSpec

CONSTANTS
  Shapes <- SmallShapes
  MaxTime = 4

INVARIANTS
  CacheFollowsRequest
  DecodeAfterPrefill
  TimesAddUp
  ResponseDecomposes
