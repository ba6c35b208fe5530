SPECIFICATION FairSpec
CONSTANTS
  Caller = {a, b}
  Phi = TRUE
  MaxSub = 3
  MaxPublish = 2
  MaxRaise = 1
INVARIANTS
  ExactlyOnce
  OrderWithinPublish
  AuditedBeforeDispatch
PROPERTY EventuallyDelivered
CHECK_DEADLOCK FALSE
