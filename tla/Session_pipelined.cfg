SPECIFICATION Spec
CONSTANTS
  MaxBatch = 2
  MaxChunks = 2
  MaxQueue = 2
  Outcomes = {"fin", "err", "silent"}
  AnyClient = TRUE
INVARIANTS TypeOK AuthBeforeExec
CHECK_DEADLOCK FALSE
