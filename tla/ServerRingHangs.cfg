SPECIFICATION FairSpec
CONSTANTS
  Conns = {c1}
  Base = "base"
  Pool <- OneLoop
  Workers = {w1}
  WorkerOps = {"send"}
  KeepPointers = TRUE
  RingUsed = TRUE
  MaxFds = 1
  MaxQueue = 2
CHECK_DEADLOCK FALSE
PROPERTIES
  LoopReturnsToPoll
