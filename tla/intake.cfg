SPECIFICATION Spec
CONSTANTS
  Callback = {c1, c2}
  Button = {b1, b2}
  t1 = t1
  Token = {t1}
  TokenOf <- MCTokenOf
  MaxInstalls = 2
  Nobody = Nobody
  Capacity = 2
INVARIANTS TypeOK AcceptedIsDurable NothingLeaks NeverStuck
PROPERTIES FirstJobStays CredentialDecides KeepsLock RequestsGetOn EveryRequestEnds
CHECK_DEADLOCK FALSE
