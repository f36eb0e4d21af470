SPECIFICATION Spec
CONSTANTS
  ScriptLists <- MCScriptLists
  UserLists <- MCUserLists
  MaxRuns = 3
  Absent = Absent
  Torn = Torn
INVARIANTS
  TypeOK
  ReturnedMeansWritten
  BitcodeHasItsTable
  NeverAhead
