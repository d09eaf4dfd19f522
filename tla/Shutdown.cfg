SPECIFICATION FairSpec
CONSTANTS
  MaxRows = 3
CHECK_DEADLOCK FALSE
INVARIANTS
  TypeOK
  RowsReachDisk
PROPERTIES
  SignalEndsProcess
