SPECIFICATION Spec
CONSTANTS
  Request = {r1, r2, r3}
  Id = {k1, k2, k3}
  Deal = {d1}
  Cooldowns = {2}
  ReleaseAge = 3
  CheckTime = 1
  RequestTime = 2
  MaxTime = 5
SYMMETRY Symmetric
CHECK_DEADLOCK FALSE
INVARIANT TypeOK
INVARIANT StartedOnce
INVARIANT JournalIsTrue
INVARIANT AtMostOneOpen
INVARIANT ReleasedIsNotInFlight
PROPERTY KeepsGate
