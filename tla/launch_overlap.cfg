SPECIFICATION Spec
CONSTANTS
  Request = {r1, r2, r3}
  Id = {k1, k2, k3}
  Deal = {d1}
  Cooldowns = {1}
  ReleaseAge = 6
  CheckTime = 4
  RequestTime = 5
  MaxTime = 5
SYMMETRY Symmetric
CHECK_DEADLOCK FALSE
INVARIANT AtMostOneOpen
