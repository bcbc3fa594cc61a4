SPECIFICATION DndFairSpec
CONSTANTS
  notify = notify
  warn = warn
  alarm = alarm
  Threads = {poll, loop}
  Recs <- MCRecs
  UrgencyOf <- MCUrgencyOf
  Levels <- MCLevels
  QueueMax = 2
  HandBound = 2
INVARIANTS
  DndTypeOK
  DeliveredFirst
  OneExecutionPerHandover
PROPERTIES
  CapDropsTheOldest
  DisableDelivers
