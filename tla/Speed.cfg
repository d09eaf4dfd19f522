SPECIFICATION FairSpec
CONSTANTS
  NTargets = 2
  NModels <- TwoAndOne
  RepeatCount = 1
  WarmupRuns = 1
  Concurrency = 2
  Modes <- BothModes
INVARIANTS
  TypeOK
  RowsAreThePlans
  QuietWhenSettled
PROPERTIES
  StopIsHonoured
  JobSettles
  LifecycleSpec
