SPECIFICATION FairSpec
CONSTANTS
  a = a
  b = b
  Models <- TwoModels
  Variants = 1
  Questions <- OneUnknown
  SqlModes <- BothModes
PROPERTIES
  JobSettles
