SPECIFICATION FairSpec
CONSTANTS
  a = a
  b = b
  a2 = a2
  b2 = b2
  None = None
  Sessions = {a, b, a2, b2}
  Slots = {k1, k2}
  OuterOf <- Nesting
INVARIANTS
  SlotsAccounted
  AssertOnlyNested
PROPERTIES
  CleanBorrow
  ExhaustedOnlyAtDeadline
  KeepsContract
  BorrowEnds
CHECK_DEADLOCK FALSE
