SPECIFICATION Spec
CHECK_DEADLOCK FALSE
CONSTANTS
  IDs = {0, 1}
  MaxChecks = 4
  Null = Null
  Junk = Junk
INVARIANTS
  LoaderIsValid
PROPERTIES
  ImplementsLoaderChecks
  LoaderReturns
