SPECIFICATION Spec
CONSTANTS
  Names = {"a", "b"}
  Versions = {1, 2, 3}
  MaxRepositories = 2
CHECK_DEADLOCK FALSE
INVARIANT
  NotFoundIsTrue
