SPECIFICATION Spec
CONSTANTS
  Workers = {w1, w2}
  Addresses = {a1}
  Users = {u1}
  Limits = {0, 1, 2}
  Window = 2
  Threshold = 1
  Interval = 2
  Start = 2
  MaxTime = 4
  MaxRequests = 4
  None = None
SYMMETRY Symmetry
INVARIANTS
  SpanBound
  PruneInvisible
  CountersBounded
CHECK_DEADLOCK TRUE
