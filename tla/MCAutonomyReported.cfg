SPECIFICATION FairSpec
CONSTANTS
  job = job
  other = other
  Cycles = {c1, c2}
  Kinds = {"reflection", "workflow"}
  Modes = {"startup", "cadence", "forced", "manual"}
  Jobs = {}
  Failures <- MCFailures
  Cap <- MCCap
  MaxReplays = 1
  MaxPerCycle = 1
  FailureLimit = 2
  ScanLimit = 1
  LettersKept = 1
  WindowBound = 1
  StopBound = 1
  DueBound = 0
PROPERTIES
  ReportedCycleContinues
