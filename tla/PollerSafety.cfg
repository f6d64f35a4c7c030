SPECIFICATION Spec
CONSTANTS
  Channels = {c1, c2, c3}
  Fds = {5, 6}
  NoChannel = null
  InitSize = 1
CHECK_DEADLOCK FALSE
INVARIANTS
  TypeOK
  IndexTellsEpoll
  MapTellsIndex
  NoEpollFailure
  ListBounded
