SPECIFICATION FairSpec
CONSTANTS
  NTargets = 1
  NModels <- OnlyOne
  RepeatCount = 2
  WarmupRuns = 0
  Concurrency = 2
  Modes <- ParallelOnly
PROPERTIES
  CancellationKeepsRows
