CONSTANTS
  Matches <- MCMatches
  Cap = {0, 1, 2, 3, 4}
SPECIFICATION Spec
CHECK_DEADLOCK FALSE
INVARIANTS
  SameAttempts
  SameVerdict
  Inv
