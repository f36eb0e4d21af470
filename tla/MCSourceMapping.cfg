SPECIFICATION Spec
CONSTANTS
  Modules <- MCModules
  Paths = {"p1", "p2"}
  PathOf <- MCPathOf
  FunctionLists <- MCFunctionLists
  None = None
  Truncated = Truncated
INVARIANTS
  TypeOK
  VectorsMatchMaps
  RowsResolve
  CollectsMutable
  ThrowsEarly
PROPERTIES
  ImplementsRegistry
