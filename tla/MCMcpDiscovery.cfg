CONSTANTS
  NumServers = 2
  Descendants = TRUE
  MaxNotes = 2
SPECIFICATION FairSpec
INVARIANTS
  TypeOK
  ToolsWereAnswered
  ProbesDoNotOverlap
  AnswerIsHeard
PROPERTIES
  EndsUnlessHeld
CHECK_DEADLOCK FALSE
