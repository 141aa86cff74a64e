CONSTANTS
  Callers = {c1, c2, c3}
  NumLabels = 2
  None = None
  Stray = Stray
SPECIFICATION FairSpec
INVARIANTS
  TypeOK
  OkMeansReady
  PredecessorsExist
  OnlyOwnFaults
PROPERTIES
  EveryCallEnds
  ImplementsInstall
CHECK_DEADLOCK FALSE
