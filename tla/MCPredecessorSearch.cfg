SPECIFICATION Spec
CONSTANTS
  Blocks = {a, b, c}
  Graphs <- MCGraphs
INVARIANTS
  TypeOK
  NothingForgotten
  ReturnsTransitivePredecessors
  SameAsReachingValues
PROPERTIES
  EveryStepIsProgress
  Returns
