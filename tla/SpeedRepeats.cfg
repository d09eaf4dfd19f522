SPECIFICATION Spec
CONSTANTS
  Plan <- OneTarget
  Provider <- OneKind
  RepeatCount = 2
  Concurrency = 2
  Counts = {0, 3}
  Durations <- OneSecond
  MaxSeconds = 2
  None = None
CHECK_DEADLOCK FALSE
INVARIANTS
  TypeOK
  RowsAreMeasured
  AggregatesAreCurrent
  EveryCallIsShown
