SPECIFICATION FairSpec
CONSTANTS
  Jobs = {j1}
  Readers = {r1,r2}
  MaxRows = 3
  MaxCrashes = 1
  MaxErrors = 1
INVARIANTS
  TypeOK
  RecordsAreTrue
  SavesLandInOrder
  NoGhostRuns
PROPERTIES
  NoResurrection
  ListsWhatIsThere
  NobodyStarves
  ArchiveSpec
