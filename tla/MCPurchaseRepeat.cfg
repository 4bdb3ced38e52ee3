\* Nothing fails: only the requests race.
SPECIFICATION Spec
CONSTANTS
  Workers = {w1, w2}
  alice = alice
  Users = {alice, bob}
  Buyers = {bob}
  Devices = {d1}
  Pubs = {p1}
  Author <- AuthorDef
  PublishedAt <- PublishedAtDef
  Ids = {i1, i2}
  Times = {1}
  Keys = {k1, k2}
  Faults = FALSE
  Restarts = FALSE
  None = None
PROPERTY
  BuyKeepsReceipt
CHECK_DEADLOCK FALSE
