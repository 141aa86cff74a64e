CONSTANTS
  Params <- MCParams
  NumberOf <- MCNumberOf
  Upper <- MCUpper
  Statuses <- MCStatuses
  IdLimit = 2
  MinRun = 3
  Absent = Absent
  Requests <- MCRequests
  Inventory <- MCInventory
  AgentSets <- MCAgentSets
  ByHand <- MCByHand
  Unquotable = {"two lines"}
  Anything = Anything
  MaxEvents = 4
SPECIFICATION Spec
INVARIANTS
  FixesStopTheirRequests
CHECK_DEADLOCK FALSE
