SPECIFICATION FairSpec
CONSTANTS
  week1 = week1
  delivery = delivery
  week1Lane = week1Lane
  deliveryLane = deliveryLane
  Jobs <- MCJobs
  Lanes <- MCLanes
  LaneOf <- MCLaneOf
  MaxAttempts <- MCMaxAttempts
  MaxRuns = 2
  MaxDead = 2
  StaleAfter = 2
  ExecTimeout = 1
  MarkStates = {"closed"}
  RunBound = 3
INVARIANTS
  ExecutorExclusion
  RunningHoldsLane
  DeadLettersOrdered
PROPERTIES
  LaneReleased
  DeadLetterLeavesByReplayOrCap
  ImplementsMutex
