CONSTANTS
  Scale = 100
  Unit = 10
  Sig = 4
  None = None
  TableNames <- MCTableNames
  Cols <- MCCols
  Foreign <- MCForeign
  Wide <- MCWide
  Leftovers <- MCLeftovers
  Databases <- MCDatabases
  Queries <- MCQueries
SPECIFICATION Spec
INVARIANTS JoinsSound ValuesExact Sorted
PROPERTY SelectEnds
