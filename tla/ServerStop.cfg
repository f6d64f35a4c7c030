SPECIFICATION Spec
CONSTANTS
  Conns = {c1, c2}
  Base = "base"
  Pool <- TwoLoops
  Workers = {w1}
  WorkerOps = {"send"}
  KeepPointers = TRUE
  RingUsed = FALSE
  MaxFds = 2
  MaxQueue = 1
CHECK_DEADLOCK FALSE
SYMMETRY Symmetry
INVARIANTS
  DownUnlessDropped
  LoopsBalanced
PROPERTIES
  SilentOnceDown
