SPECIFICATION CFairSpec
CONSTANTS
  Workers = {w1, w2}
  alice = alice
  bob = bob
  Users = {alice, bob}
  Devices = {d1}
  Pubs = {p1}
  Author <- AuthorDef
  PublishedAt <- PublishedAtDef
  Holder <- HolderDef
  Attempts = 2
  Ids = {i1}
  Times = {1}
  Keys = {k1, k2, k3}
  Faults = TRUE
  Restarts = TRUE
  None = None
INVARIANTS
  CTypeOK
  PackageOpens
  WalletCurrent
PROPERTIES
  CallsReturn
CHECK_DEADLOCK TRUE
