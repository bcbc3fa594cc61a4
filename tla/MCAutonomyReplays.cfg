SPECIFICATION FairSpec
CONSTANTS
  job = job
  other = other
  Cycles = {c1}
  Kinds = {}
  Modes = {"cadence"}
  Jobs = {job, other}
  Failures <- MCFailures
  Cap <- MCCap
  MaxReplays = 2
  MaxPerCycle = 1
  FailureLimit = 2
  ScanLimit = 2
  LettersKept = 3
  WindowBound = 0
  StopBound = 1
  DueBound = 1
INVARIANTS
  ReplaysPerJob
PROPERTIES
  CooldownKept
  LettersSettle
