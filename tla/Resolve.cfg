SPECIFICATION MCSpec
CONSTANTS
  Names = {"a", "b"}
  Versions = {1, 2}
  MaxRepositories = 2
  Base = 8
  TAG = 3
  SizeBytes = 2
  KeyOf <- MCKeyOf
  Supported = {"rsa", "ec"}
  Configured <- MCConfigured
CHECK_DEADLOCK FALSE
INVARIANTS
  TypeOK
  ResolvesNewest
  ResolvesAsked
  TrustedAsMeant
  RefusedForCause
  ListMeant
