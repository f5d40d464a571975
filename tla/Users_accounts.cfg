CONSTANTS
  s1 = s1
  s2 = s2
  Sessions = {s1, s2}
  None = None
  NoRow = NoRow
  Accounts = {"root", "u"}
  Passwords = {"", "p"}
  Databases = {"d"}
  Tables = {"t"}
  GlobalPrivs = {"grant_priv", "select_priv", "delete_priv", "create_user_priv"}
  LocalPrivs = {"grant_priv", "select_priv", "delete_priv"}
  Statements <- MCStatements
  Root = "root"
  MaxStatements = 5
SPECIFICATION Spec
INVARIANTS TypeOK Authorized ReadIsCurrent OrphanOnlyByRace
PROPERTY StatementsEnd
CHECK_DEADLOCK FALSE
