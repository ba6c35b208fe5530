SPECIFICATION Spec
CONSTANTS
  Keks = {k1, k2, k3}
  Deks = {d1, d2}
  Garbage = Garbage
  None = None
SYMMETRY Symm
INVARIANTS
  KeysSurviveUncut
  ShredSurvivesUncut
  ShredIsExact
CHECK_DEADLOCK FALSE
