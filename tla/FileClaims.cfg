SPECIFICATION Spec
CONSTANTS
  Paths <- MCPaths
  Crcs = {"zero", "one", "two"}
  ZeroCrc = "zero"
  MaxEntries = 4
CHECK_DEADLOCK FALSE
INVARIANTS
  TypeOK
  ClaimsAreTree
  NoStrayDirectories
  LeftOutForAnother
  FirstEntryWins
  NormalizesByComponents
  CleansByComponents
