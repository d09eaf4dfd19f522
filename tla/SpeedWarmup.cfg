SPECIFICATION Spec
CONSTANTS
  NTargets = 1
  NModels <- OnlyOne
  RepeatCount = 1
  WarmupRuns = 1
  Concurrency = 2
  Modes <- ParallelOnly
INVARIANTS
  WarmBeforeMeasured
