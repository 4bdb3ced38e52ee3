\* Two buyers whose purchases may draw the same identifier, without symmetry, which
\* liveness does not allow.
SPECIFICATION FairSpec
CONSTANTS
  Workers = {w1, w2}
  alice = alice
  Users = {alice, bob, carol}
  Buyers = {bob, carol}
  Devices = {d1}
  Pubs = {p1}
  Author <- AuthorDef
  PublishedAt <- PublishedAtDef
  Ids = {i1}
  Times = {1, 2}
  Keys = {k1}
  Faults = TRUE
  Restarts = TRUE
  None = None
INVARIANTS
  MarkersAccounted
PROPERTIES
  ImplementsEntitlements
  RequestsAnswered
CHECK_DEADLOCK TRUE
