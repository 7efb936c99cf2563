CONSTANTS
  nas = nas
  local = local
  Streams = {s1}
  TargetPath <- NasThenLocal
  Names = {a, b}
  MaxDispatch = 2
  MaxImages = 3
  MaxFaults = 1
  NoName = NoName
  Garbage = Garbage
SPECIFICATION Spec
INVARIANTS NumberingRestarts OverwriteOnlyAroundDispatch
PROPERTIES StoredUnderCurrentMaterial EveryCopyMade StoredUnlessRepeated
