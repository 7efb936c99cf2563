SPECIFICATION FairSpec
CONSTANTS
  Modulus = 8
  Home = 0
  Requests <- MCRequests
  Found = {1, 5}
  LowHighWait = 3
  WaitTime = 3
  MaxMoves = 2
  MaxFailures = 1
CHECK_DEADLOCK FALSE
INVARIANTS
  MoveReachesTarget
PROPERTIES
  CloseReturns
