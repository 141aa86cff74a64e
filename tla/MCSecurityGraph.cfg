CONSTANTS
  Work <- Writers
  Jobs <- WriterJobs
  Unsayable <- Garbled
  MaxHops = 2
SPECIFICATION Spec
INVARIANTS
  TypeOK
  OkIsWritten
  EdgesAreDeclared
  BareIsUnfinished
  QueriesAgree
CHECK_DEADLOCK FALSE
