SPECIFICATION Spec
CONSTANTS
  Keks = {k1, k2}
  Deks = {d1}
  Garbage = Garbage
  None = None
SYMMETRY Symm
INVARIANT KeysSurvive
CHECK_DEADLOCK FALSE
