SPECIFICATION Spec
CHECK_DEADLOCK FALSE
CONSTANTS
  Runs = {r1, r2, r3}
  MaxImage = 3
  NoVolume = NoVolume
  Unlabelled = Unlabelled
  Empty = Empty
SYMMETRY RunSymmetry
INVARIANTS
  LabelMeansBuilt
