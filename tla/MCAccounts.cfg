SPECIFICATION Spec
CONSTANTS
  Workers = {w1, w2}
  Names = {n1, n2}
  UserIds = {u1, u2}
  Tokens = {t1, t2, t3}
  Lifetime = 1
  MaxTime = 2
  Faults = TRUE
  None = None
SYMMETRY Symmetry
INVARIANTS
  UniqueName
  NamesAccounted
  OneSession
PROPERTIES
  RefusedForGood
  ImplementsDirectory
CHECK_DEADLOCK TRUE
