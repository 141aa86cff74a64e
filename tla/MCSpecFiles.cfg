CONSTANTS
  Absent = Absent
  Category <- MCCategory
  MaxDepth = 4
  Files = {"one", "two"}
  Folders <- MCFolders
  SpecNames = {"one", "two"}
  SkipDirs = {"target"}
  Documents = {"bare", "named", "deprecated", "trees", "deep", "collection", "notes"}
  Content <- MCContent
  MaxEvents = 5
SPECIFICATION Spec
INVARIANTS
  TypeOK
  GreenMeansClean
  QuietDriftKeepsTheGate
  NestedFieldsAreFound
  AuthIsInherited
  FixesConverge
CHECK_DEADLOCK FALSE
