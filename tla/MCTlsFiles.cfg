SPECIFICATION Spec
CONSTANTS
  Processes = {p1, p2, p3}
  Keys = {k1, k2, k3}
  Torn = Torn
  None = None
SYMMETRY Symmetry
INVARIANTS
  PairMatches
  ServesPair
PROPERTIES
  PairKept
CHECK_DEADLOCK TRUE
