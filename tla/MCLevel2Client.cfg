CONSTANTS
  MaxJobs = 3
  Capacity = 1
  AliveTicks = 2
  MaxFaults = 2
SPECIFICATION FairSpec
INVARIANTS NoNullDereference NoLossWithoutFault NoLostWakeup
PROPERTIES ImplementsReport BrokenLinkNoticed QueuedJobLeaves CloseReturnsUnlessFull
