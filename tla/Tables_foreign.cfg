CONSTANTS
  s1 = s1
  s2 = s2
  Sessions = {s1, s2}
  None = None
  Names = {"p", "c"}
  Installed <- MCReferring
  Statements <- RowStatements
  MaxStatements = 2
SPECIFICATION Spec
INVARIANT ForeignKeysHold
SYMMETRY Alike
CHECK_DEADLOCK FALSE
