SPECIFICATION RunSpec
CONSTANTS
  Programs <- MCPrograms_
  None = None
  Junk = Junk
  MaxOut = 4
  MaxVariables = 2
INVARIANTS
  LoaderRunsFirst
PROPERTIES
  ImplementsMutantRun
