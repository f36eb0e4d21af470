SPECIFICATION Spec
CONSTANTS
  Programs <- MCPrograms_
  None = None
INVARIANTS
  TypeOK
  ControlFlowWellFormed
  NoUseOfErased
  SSADominance
  SwitchesMatchMutations
  TableMatchesBitcode
  RowsDescribeReplacements
  SitesRejoin
  OrderIndependent
  LoaderCoversSites
PROPERTIES
  RunProgresses
