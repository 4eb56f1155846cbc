SPECIFICATION PairSpec
CONSTANTS
  Paths <- MCPaths
  Crcs <- MCCrcs
  ZeroCrc = "zero"
  PartialCrc = "partial"
  Packages = {"a", "b", "e"}
  NoPackage = "none"
  Claims <- MCClaims
  SaveName <- MCSaveName
  Rank <- MCRank
  InitialTrees <- PairTrees
  MaxCommands = 1
  MaxReadFaults = 0
  MaxWriteFaults = 0
  MaxCrashes = 1
  MaxNamed = 2
CHECK_DEADLOCK FALSE
INVARIANTS
  BystandersKept
  OrphansAreShared
PROPERTY
  Termination
