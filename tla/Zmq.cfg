SPECIFICATION ZmqSpec
CONSTANTS
  QueueCapacity = 2
  Pub = FALSE
  MaxSeq = 5
  StopDeadline = 4
  ReclaimAfter = 3
  ReadTimeout = 2
  MaxQueue = 2
INVARIANTS
  NewestQueued
  Accounted
  WireInOrder
  SocketReleased
PROPERTIES
  FreshRead
  WatchdogFires
