CONSTANTS
  Params <- MCParams
  NumberOf <- MCNumberOf
  Upper <- MCUpper
  Statuses <- MCStatuses
  IdLimit = 2
  MinRun = 3
  KnownAgents = {"agent"}
  Absent = Absent
  Requests <- MCRequests
  Specs <- MCSpecs
  Unquotable = {"two lines"}
  MaxUnwritten = 2
  MaxEvents = 5
SPECIFICATION Spec
INVARIANTS
  TypeOK
  EnumerationIsFound
  RemedyCoversFindings
  AgentsAreRecognised
  EveryRequestIsAccountedFor
PROPERTIES
  FirstTimeIsReportedOnce
CHECK_DEADLOCK FALSE
