SPECIFICATION Spec
CONSTANTS
  Pubs = {1, 2, 3}
  Ids = {1, 2}
  Users = {alice, bob}
  Limits = {1, 3}
  DefaultPage = 2
  MaxPage = 2
  None = None
INVARIANTS
  WalkComplete
  PageExact
CHECK_DEADLOCK TRUE
