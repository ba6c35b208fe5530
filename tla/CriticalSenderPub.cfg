SPECIFICATION Spec
CONSTANTS
  QueueCapacity = 2
  Pub = TRUE
  MaxSeq = 4
INVARIANT OutageCostsNoMessages
