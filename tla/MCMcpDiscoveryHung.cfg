CONSTANTS
  NumServers = 1
  Descendants = TRUE
  MaxNotes = 0
SPECIFICATION FairSpec
PROPERTIES
  DiscoveryEnds
CHECK_DEADLOCK FALSE
