SPECIFICATION FairSpec
CONSTANTS
  Conns = {c1, c2}
  Base = "base"
  Pool <- OneLoop
  Workers = {w1, w2}
  WorkerOps = {"shutdown"}
  KeepPointers = TRUE
  RingUsed = TRUE
  MaxFds = 1
  MaxQueue = 2
CHECK_DEADLOCK FALSE
INVARIANTS
  TypeOK
  PolledConnectionsLive
  CallbacksOnce
PROPERTIES
  ClosedConnectionFreed
  WaitingConnectionAccepted
  ShutdownTakesEffect
