SPECIFICATION Spec
CONSTANTS
  MaxTests = 2
  MaxStarts = 2
  MaxJobs = 2
  MaxTrouble = 1
  MaxLoops = 2
CHECK_DEADLOCK FALSE
INVARIANTS
  TypeOK
  OneRunAtATime
  StopWorks
PROPERTIES
  QueueIsOrderly
  RunsToTheEnd
