SPECIFICATION FairSpec
CONSTANTS
  Users = {u1}
  Monitor = monitor
  Pids = {p1, p2, p3, p4}
  NoProc = none
  MaxRestarts = 2
  FaultBound = 2
  AskBound = 3
INVARIANTS
  TypeOK
  LosingNeedsARace
  ClaimHasAnOwner
  DownOnceClosed
CHECK_DEADLOCK FALSE
PROPERTIES
  Heals
