SPECIFICATION FairSpec
CONSTANTS
  Streams = {s1}
  Watched = s1
  Names = {n1, n2}
  Hwm = 2
  MaxImages = 3
  MaxDispatch = 2
  MaxFaults = 1
  Tmp = Tmp
  Garbage = Garbage
CHECK_DEADLOCK FALSE
INVARIANTS
  FiledUnderTheirMaterial
PROPERTIES
  ImplementsChannel
  PipesWorkedOff
