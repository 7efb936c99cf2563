SPECIFICATION PresetSpec
CONSTANTS
  PresetDirs <- MCPresetDirs
  Announced <- MCMaterials
  Cameras = {1}
  MaxInstructions = 3
  MaxOperations = 2
  MaxLosses = 1
CHECK_DEADLOCK FALSE
INVARIANTS
  SettingsAgree
  PresetInUseIsSet
