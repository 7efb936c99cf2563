CONSTANTS
  MaxChanges = 2
  Hwm = 1
SPECIFICATION FairSpec
INVARIANTS StreamsTheMaterial IgnoresDuringMaterial CaptureIsLit
PROPERTIES Settles
