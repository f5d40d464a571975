SPECIFICATION FairSpec
CONSTANTS
  t1 = t1
  w1 = w1
  w2 = w2
  Tables = {t1}
  Workers = {w1, w2}
  MaxTouch = 2
  MaxStmts = 2
  MaxBlocks = 2
  Droppable = {}
  MayFail = TRUE
INVARIANTS TypeOK EndOfFile
PROPERTIES StatementEnds Drained
CHECK_DEADLOCK FALSE
