SPECIFICATION Spec
CONSTANTS
  Plan <- TwoTargets
  Provider <- TwoKinds
  RepeatCount = 1
  Concurrency = 2
  Counts = {3}
  Durations <- OneSecond
  MaxSeconds = 1
  None = None
CHECK_DEADLOCK FALSE
INVARIANT
  FirstTokenIsNonEmpty
