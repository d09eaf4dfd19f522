SPECIFICATION Spec
CONSTANTS
  MaxTests = 2
  MaxStarts = 1
  MaxJobs = 2
  MaxTrouble = 0
  MaxLoops = 1
INVARIANT StopCancelsWholeRun
CHECK_DEADLOCK FALSE
