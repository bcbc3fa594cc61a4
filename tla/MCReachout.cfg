SPECIFICATION FairSpec
CONSTANTS
  MaxToClose = 1
  CloseScan = 2
  SlaScan = 2
  MaxPerCycle = 1
  LogScan = 1
  SendBound = 3
  Deliveries <- MCDeliveries
  Bursts = {2}
  FaultBound = 1
INVARIANTS
  AckIsKept
  OneOpenReachout
PROPERTIES
  DeliveredSettles
CHECK_DEADLOCK FALSE
