CONSTANTS
  Jobs = {j1, j2}
  Loaders = {l1}
  Specs <- EditedSpecs
  MaxLog = 2
SPECIFICATION Spec
INVARIANTS
  TypeOK
  IdMeansComplete
  LoadsArePrefixes
PROPERTIES
  HistoryKept
CHECK_DEADLOCK FALSE
