SPECIFICATION ConstructorSpec
CONSTANTS
  Programs <- MCHelper
  None = None
  Junk = Junk
  MaxOut = 4
  MaxVariables = 1
INVARIANTS
  LoaderRunsFirst
