SPECIFICATION FairSpec
CONSTANTS
  Triggers = {config, due}
  NoTrigger = none
  Rank <- MCRank
  Ungated = {due}
  MaxPerCycle = 1
  SuppressLimit = 3
  ChangeBound = 2
  FaultBound = 2
INVARIANTS
  TypeOK
  OneOpenPerTrigger
  NoFiringVanishes
PROPERTIES
  Settles
CHECK_DEADLOCK FALSE
