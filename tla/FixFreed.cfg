SPECIFICATION FairSpec
CONSTANTS
  Paths <- MCPaths
  Crcs <- MCCrcs
  ZeroCrc = "zero"
  PartialCrc = "partial"
  Packages = {"a", "c", "e"}
  NoPackage = "none"
  Claims <- MCClaims
  SaveName <- MCSaveName
  Rank <- MCRank
  InitialTrees <- FixTrees
  MaxCommands = 1
  MaxReadFaults = 0
  MaxWriteFaults = 0
  MaxCrashes = 0
CHECK_DEADLOCK FALSE
INVARIANT
  UserFilesSaved
