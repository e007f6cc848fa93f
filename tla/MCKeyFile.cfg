CONSTANTS
  root = root
  security = security
  home = home
  i1 = i1
  i2 = i2
  Place <- MCPlace
  Dir <- MCDir
  Above <- MCAbove
  Forbidden <- MCForbidden
  Inode <- MCInode
  Setup <- MCSetup
  Nothing = Nothing
  Symlink = Symlink
  Denied = Denied
  MaxChanges = 3
SPECIFICATION FairSpec
CHECK_DEADLOCK FALSE
INVARIANTS
  TypeOK
  ContentVouched
  StrictPins
  Inv
PROPERTY OpenEnds
