SPECIFICATION FairSpec
CONSTANTS
  w1 = w1
  w2 = w2
  Images <- MCImages
  Workers = {w1, w2}
  MaxMaterials = 2
  MaxChanges = 3
  MaxDeaths = 1
  MaxFailures = 1
CHECK_DEADLOCK FALSE
INVARIANTS
  TypeOK
  JobOfTheLastInstruction
  NoImageUnaccounted
PROPERTIES
  ImplementsJobService
  JobsWorkedOff
  CloseReturns
