CONSTANTS
  MaxJobs = 3
  Capacity = 1
  AliveTicks = 2
  MaxFaults = 1
SPECIFICATION FairSpec

PROPERTY CloseTerminatesThreads
