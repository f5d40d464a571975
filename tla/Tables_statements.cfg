CONSTANTS
  s1 = s1
  s2 = s2
  Sessions = {s1, s2}
  None = None
  Names = {"p", "c", "d"}
  Installed <- MCInstalled
  Statements <- MCStatements
  MaxStatements = 5
SPECIFICATION Spec
INVARIANTS TypeOK RowsAsAsked KeyUnique SchemasAgree StuckOnlyByOrder
SYMMETRY Alike
CHECK_DEADLOCK FALSE
