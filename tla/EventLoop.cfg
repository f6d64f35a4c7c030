SPECIFICATION FairSpec
CONSTANTS
  Workers = {w1, w2}
  LoopThread = loop
  Functors = {f1, f2, f3}
  IoChannels = {io}
  WakeChannel = wake
  EventfdMax = 2
INVARIANTS
  NoLostWakeup
  FifoOrder
PROPERTIES
  QueuedRuns
  QuitStops
  ImplementsTaskQueue
