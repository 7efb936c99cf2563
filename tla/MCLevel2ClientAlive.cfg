CONSTANTS
  MaxJobs = 3
  Capacity = 1
  AliveTicks = 2
  MaxFaults = 2
SPECIFICATION FairSpec

PROPERTY ConnectResetsAlive
