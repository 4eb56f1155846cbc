SPECIFICATION GetSpec
CONSTANTS
  Bytes <- MCBytes
  Responses <- MCResponses
  Hex <- MCHex
  Digit <- MCDigit
  TokenChars <- MCTokenChars
  Statuses <- MCStatuses
  SizeMax = 15
  UintMax = 15
  Capacity = 18
  BufSize = 3
CHECK_DEADLOCK FALSE
INVARIANTS
  TypeOK
  HeadTypeOK
  ChunkSizeExact
  FramingMeant
  BodyFollowsHead
  GoodNeverRefused
  WholeNeverRefused
  PlainBodyMeant
PROPERTY
  Promised
