SPECIFICATION Spec
CONSTANTS
  Programs <- MCScopedAlloca
  None = None
INVARIANTS
  SSADominance
