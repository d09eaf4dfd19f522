SPECIFICATION Spec
CONSTANTS
  Jobs = {j1, j2}
  Readers = {r1}
  MaxRows = 1
  MaxCrashes = 1
  MaxErrors = 1
PROPERTIES
  ArchiveSpec
SYMMETRY JobSymmetry
