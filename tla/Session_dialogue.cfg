SPECIFICATION FairSpec
CONSTANTS
  MaxBatch = 1
  MaxChunks = 3
  MaxQueue = 2
  Outcomes = {"fin", "err"}
  AnyClient = FALSE
INVARIANTS Framed ChunkOpcode ErrorShown
PROPERTY Answered
CHECK_DEADLOCK FALSE
