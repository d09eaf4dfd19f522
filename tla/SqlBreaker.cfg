SPECIFICATION FairSpec
CONSTANTS
  a = a
  b = b
  Models <- TwoModels
  Variants = 2
  Questions <- OneBroken
  SqlModes <- ToolCalling
INVARIANTS
  TypeOK
  RowsAreThePlans
PROPERTIES
  JobEnds
  LifecycleSpec
