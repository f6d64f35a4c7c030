SPECIFICATION FairThreadSpec
CONSTANTS
  Workers = {w1, w2}
  Owner = w1
  LoopThread = loop
  Functors = {f1, f2}
  IoChannels = {io}
  WakeChannel = wake
  EventfdMax = 1
CHECK_DEADLOCK FALSE
INVARIANTS
  PublishedLoopLives
  NoOrphanThread
PROPERTIES
  StartLoopReturns
  DestructorReturnsFromRunningLoop
