SPECIFICATION Spec
CONSTANTS
  MaxRows = 2
CHECK_DEADLOCK FALSE
INVARIANTS
  ExitKeepsSignalledRows
