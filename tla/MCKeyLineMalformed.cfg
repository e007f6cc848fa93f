CONSTANTS
  Ending <- MCEnding
  MaxOptions = 5
SPECIFICATION Spec
CHECK_DEADLOCK FALSE
INVARIANT MalformedIsFailSafe
