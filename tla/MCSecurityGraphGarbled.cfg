CONSTANTS
  Work <- GarbledLoad
  Jobs <- GarbledJobs
  Unsayable <- Garbled
  MaxHops = 6
SPECIFICATION Spec
INVARIANTS
  EveryServerRecorded
CHECK_DEADLOCK FALSE
