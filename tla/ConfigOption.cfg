SPECIFICATION Spec
CONSTANTS
  Lower <- MCLower
  Letters <- MCLetters
  HexLetters = {"a"}
  PortMax = 65535
  EncodeUri <- MCEncodeUri
  Inputs <- OneFile
CHECK_DEADLOCK FALSE
INVARIANT
  ConfigOptionWins
