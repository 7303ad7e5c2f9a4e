SPECIFICATION SimSpec

CONSTANTS
  Instances = {"i", "j"}
  NumArrivals = 2
  Durations <- TwoDurations
  MaxIterations = 2
  RetryDelay = 1
  EndTime = 5

INVARIANTS
  NothingOverdue
  OneCompletion
  CancelledArePending
  PauseAtBoundary
  PauseNeverExtends
PROPERTIES
  LoopTerminates
