CONSTANTS
  Token <- MCToken
  Lists <- MCLists
  DefaultKeyFile <- MCFile
  DefaultAttempts = 6
  MaxUsize = 25
SPECIFICATION Spec
CHECK_DEADLOCK FALSE
INVARIANTS
  LastWins
  NothingDropped
  CapAsWritten
  SettledSoFar
