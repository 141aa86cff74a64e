CONSTANTS
  Documents <- Tidy
  Paths <- PathNames
  Methods <- MethodNames
  Stem <- MCStem
SPECIFICATION Spec
INVARIANTS
  TypeOK
  TargetsStayPut
  OthersUntouched
  PatchMeansFixes
CHECK_DEADLOCK FALSE
