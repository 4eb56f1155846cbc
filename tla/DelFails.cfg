SPECIFICATION FairSpec
CONSTANTS
  Paths <- MCPaths
  Crcs <- MCCrcs
  ZeroCrc = "zero"
  PartialCrc = "partial"
  Packages = {"a", "b", "c"}
  NoPackage = "none"
  Claims <- MCClaims
  SaveName <- MCSaveName
  Rank <- MCRank
  InitialTrees <- DelTrees
  MaxCommands = 2
  MaxReadFaults = 0
  MaxWriteFaults = 1
  MaxCrashes = 0
CHECK_DEADLOCK FALSE
INVARIANT
  RemovedLeavesNothing
