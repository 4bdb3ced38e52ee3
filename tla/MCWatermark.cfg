SPECIFICATION Spec
CONSTANTS
  Pubs = {"p", "q", "r"}
  Draft <- MCDraft
  Contexts = {0, 2, 3, 4, 6}
  PubOf <- MCPubOf
  Code <- MCCode
  VersionBits = 2
  IdBits = 3
  CodeBits = 2
  CrcBits = 2
  CrcPolynomial <- MCPolynomial
  MaxCandidates = 3
  Threshold = 2
  MaxEdits = 2
  None = None
INVARIANTS
  MarksSurvive
  VerdictExact
  CopyTraced
  NeverFramed
