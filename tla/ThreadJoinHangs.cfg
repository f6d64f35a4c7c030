SPECIFICATION FairThreadSpec
CONSTANTS
  Workers = {w1}
  Owner = w1
  LoopThread = loop
  Functors = {f1}
  IoChannels = {io}
  WakeChannel = wake
  EventfdMax = 1
CHECK_DEADLOCK FALSE
PROPERTIES
  DestructorReturns
