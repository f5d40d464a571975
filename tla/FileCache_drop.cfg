SPECIFICATION Spec
CONSTANTS
  t1 = t1
  w1 = w1
  w2 = w2
  Tables = {t1}
  Workers = {w1, w2}
  MaxTouch = 2
  MaxStmts = 3
  MaxBlocks = 2
  Droppable = {t1}
  MayFail = TRUE
SYMMETRY Symmetry
INVARIANTS HandleLive JobCovers NoHole
CHECK_DEADLOCK FALSE
