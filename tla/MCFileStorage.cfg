SPECIFICATION Spec
CONSTANTS
  Workers = {w1, w2}
  MaxCalls = 4
SYMMETRY Symmetry
INVARIANTS
  NoTornFile
  SecretAgreement
  ReturnedStays
PROPERTY
  ImplementsAtomicFile
CHECK_DEADLOCK TRUE
