SPECIFICATION Spec
CONSTANTS
  notify = notify
  reflect = reflect
  a1 = a1
  a2 = a2
  a3 = a3
  a4 = a4
  b1 = b1
  b2 = b2
  Threads = {poll, loop}
  Actions <- MCActions
  Lanes <- MCLanes
  LaneOf <- MCLaneOf
  QueueMax = 2
  Repeated = {}
  SubmitBound = 2
INVARIANTS
  NoStrandedQueue
CHECK_DEADLOCK FALSE
