SPECIFICATION FairSpec
CONSTANTS
  Caller = {c1, c2}
  Installation = {i1, i2}
  Nobody = Nobody
  MaxPair = 4
CHECK_DEADLOCK FALSE
INVARIANT TypeOK
INVARIANT StoredPairUsable
PROPERTY OneRefreshPerExpiry
PROPERTY OnlyInstallationRevives
PROPERTY KeepsLock
PROPERTY CallsGetOn
PROPERTY EveryCallEnds
