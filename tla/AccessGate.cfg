SPECIFICATION Spec
CONSTANTS
  None = None
  Unset = Unset
  alice = alice
  k1 = k1
  k2 = k2
  t1 = t1
  t2 = t2
  Threads = {t1, t2}
  CNs = {alice}
  Keys = {k1, k2}
  Maps <- MCMaps
  Ops = {"remove"}
  TTL = 1
  MaxTime = 1
  MaxTokens = 1
  MaxEdits = 1
  MaxRevisions = 3
  MaxRestarts = 1
SYMMETRY Symm
INVARIANTS
  ServedIsAuthentic
  ServedIsPermitted
  RevocationLands
  RefusalsAudited
