SPECIFICATION Spec
CONSTANTS
  a = a
  b = b
  c = c
  c1 = c1
  c2 = c2
  None = None
  Clients = {c1, c2}
  Messages = {a, b, c}
  IdOf <- MCId
  RefOf <- MCRef
  SizeOf <- MCSize
INVARIANTS
  RowsWhole
  EventsExact
  ReadWholeUndisturbed
PROPERTY CallsAreAtomic
