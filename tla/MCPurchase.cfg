SPECIFICATION Spec
CONSTANTS
  Workers = {w1, w2}
  alice = alice
  Users = {alice, bob}
  Buyers = {bob}
  Devices = {d1, d2}
  Pubs = {p1}
  Author <- AuthorDef
  PublishedAt <- PublishedAtDef
  Ids = {i1, i2}
  Times = {1, 2}
  Keys = {k1, k2}
  Faults = TRUE
  Restarts = TRUE
  None = None
SYMMETRY Symmetry
INVARIANTS
  OnePurchase
  ReceiptsGenuine
  AnswersOwner
PROPERTIES
  AnswersFiled
CHECK_DEADLOCK TRUE
