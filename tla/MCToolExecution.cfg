SPECIFICATION FairSpec
CONSTANTS
  c1 = c1
  c2 = c2
  a = a
  b = b
  d = d
  Calls = {c1, c2}
  Tools = {a, b, d}
  Requested <- MCRequested
  Fallbacks <- MCFallbacks
  Limited = {b, d}
  Limit = 1
  MaxRetries = 2
  MaxDepth = 2
  MaxConcurrent = 1
  FaultBound = 1
INVARIANTS
  DoneTwiceNeedsDoubt
  StartsWithinQuota
CHECK_DEADLOCK FALSE
PROPERTIES
  ComesToRest
