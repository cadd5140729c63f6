SPECIFICATION Spec
CONSTANTS
  Caller = {c1, c2}
  Installation = {i1, i2}
  Nobody = Nobody
  MaxPair = 4
CHECK_DEADLOCK FALSE
PROPERTY AuthErrorIsDeserved
