SPECIFICATION FairSpec
CONSTANTS
  Workers = {w1}
  Addrs = {1, 2}
  MaxTimers = 2
  MaxTime = 3
  MaxSteps = 1
  MaxQueue = 1
CHECK_DEADLOCK FALSE
INVARIANTS
  SameTimers
  OneOwner
  ArmedForEarliest
  CancelledNotRestarted
PROPERTIES
  OnlyOwnIdStops
  ActiveTimerFires
