CONSTANTS
  Documents <- Commented
  Paths <- PathNames
  Methods <- MethodNames
  Stem <- MCStem
SPECIFICATION Spec
INVARIANTS
  PatchMeansFixes
CHECK_DEADLOCK FALSE
