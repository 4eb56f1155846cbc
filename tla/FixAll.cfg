SPECIFICATION FairSpec
CONSTANTS
  Paths <- MCPaths
  Crcs <- MCCrcs
  ZeroCrc = "zero"
  PartialCrc = "partial"
  Packages = {"a", "b2"}
  NoPackage = "none"
  Claims <- MCClaims
  SaveName <- MCSaveName
  Rank <- MCRank
  InitialTrees <- UnsavedTrees
  MaxCommands = 1
  MaxReadFaults = 0
  MaxWriteFaults = 0
  MaxCrashes = 0
CHECK_DEADLOCK FALSE
INVARIANT
  FixRepairs
