CONSTANTS
  MaxString = 9
  MaxMsg = 40
  FieldSize = 2
  Order = 65521
  PointSize = 3
  Key <- MCKey
  Challenge = 1
  Signed <- MCSigned
  Json <- MCJson
  Field <- MCField
SPECIFICATION Spec
CHECK_DEADLOCK FALSE
INVARIANTS
  OneEncoding
  GenuineAccepted
  Recognised
  ReadersAgree
