SPECIFICATION Spec
CONSTANTS
  Lower <- MCLower
  Letters <- MCLetters
  HexLetters = {"a"}
  PortMax = 65535
  EncodeUri <- MCEncodeUri
  Inputs <- MCInputs
CHECK_DEADLOCK FALSE
INVARIANTS
  TypeOK
  WordsInOrder
  HighestSourceWins
  UrisDecode
