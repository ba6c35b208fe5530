SPECIFICATION Spec
CONSTANTS
  None = None
  Old <- MCOld
  Current <- MCCurrent
  Main = "m"
  Key = "id"
  Kind <- MCKind
  Renames <- MCRenames
  ChildRenames <- MCChildRenames
  Move <- MCMove
  MaxCuts = 3
INVARIANTS
  StampedIsMigrated
  RowsKept
  NothingLost
  AllOrNothing
PROPERTIES
  SecondCallIsNoOp
  Converges
