\* Without symmetry, which liveness does not allow.
SPECIFICATION FairSpec
CONSTANTS
  Workers = {w1, w2}
  Identities = {long, brief}
  Short = {brief}
  Ids = {p1, p2}
  Keys = {k1, k2, k3}
  None = None
INVARIANTS
  UniqueIdentity
  Deliverable
  OneMasterKey
  ClaimsAccounted
  PackageUnderFileKey
PROPERTIES
  FileKeyKept
  ImplementsRegistry
  ClaimSettles
CHECK_DEADLOCK TRUE
