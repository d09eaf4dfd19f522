SPECIFICATION Spec
CONSTANTS
  Jobs = {j1}
  Readers = {r1}
  MaxRows = 2
  MaxCrashes = 1
  MaxErrors = 0
INVARIANTS
  CrashKeepsSavedRows
