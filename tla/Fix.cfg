SPECIFICATION FairSpec
CONSTANTS
  Paths <- MCPaths
  Crcs <- MCCrcs
  ZeroCrc = "zero"
  PartialCrc = "partial"
  Packages = {"a", "c", "e"}
  NoPackage = "none"
  Claims <- MCClaims
  SaveName <- MCSaveName
  Rank <- MCRank
  InitialTrees <- FixTrees
  MaxCommands = 2
  MaxReadFaults = 1
  MaxWriteFaults = 1
  MaxCrashes = 1
CHECK_DEADLOCK FALSE
INVARIANTS
  TypeOK
  DelSparesOthers
  NoOrphans
  FixSparesOthers
  FixRepairsOne
  UserFilesKept
  ConflictRefusesAll
  FixIsIdempotent
