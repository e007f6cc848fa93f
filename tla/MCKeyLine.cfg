CONSTANTS
  Ending <- MCEnding
  MaxOptions = 6
SPECIFICATION Spec
CHECK_DEADLOCK FALSE
INVARIANTS
  KeysFound
  OptionRead
