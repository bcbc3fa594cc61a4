SPECIFICATION FairSpec
CONSTANTS
  Callers = {t1, t2, t3}
  RequestBound = 3
  NoticeBound = 1
  ClaimBound = 1
  Nobody = nobody
  NoRequest = none
INVARIANTS
  TypeOK
  CachedIsAbandoned
PROPERTIES
  KeepsPromise
  NobodyLocksForever
CHECK_DEADLOCK FALSE
