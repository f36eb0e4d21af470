SPECIFICATION Spec
CONSTANTS
  Programs <- MCSupermutant
  None = None
INVARIANTS
  InstrumentationIsNotMutated
