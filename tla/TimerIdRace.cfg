SPECIFICATION Spec
CONSTANTS
  Workers = {w1}
  Addrs = {1, 2}
  MaxTimers = 1
  MaxTime = 3
  MaxSteps = 0
  MaxQueue = 1
CHECK_DEADLOCK FALSE
INVARIANTS
  AddTimerReadsLiveTimer
