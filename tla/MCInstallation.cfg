SPECIFICATION Spec
CHECK_DEADLOCK FALSE
CONSTANTS
  MaxMakes = 3
  MaxImage = 2
  NoVolume = NoVolume
  Unlabelled = Unlabelled
  Empty = Empty
INVARIANTS
  TypeOK
  InstalledIsLatest
  PluginMatchesLLVM
PROPERTIES
  VolumesAreImageToVolume
