CONSTANTS
  k1 = k1
  k2 = k2
  reader = reader
  None = None
  SourceIds = {s1, s2, s3}
  RequestIds = {q1}
  ApprovalIds = {a1, a2}
  ProjectKeys = {k1, k2}
  Roles = {reader}
  Processes = {p1}
  Scopes <- MCScopes
  SourceInputs <- MCSourceInputs
  ApprovalTerms <- MCApprovalTerms
  MaxVersion = 3
  MaxChanges = 4
  MaxDenials = 1
  MaxTime = 1
CONSTRAINT FewChanges
SYMMETRY Symmetry
SPECIFICATION Spec
CHECK_DEADLOCK FALSE
INVARIANTS
  RegistryConsistent
  LineageDoesNotFork
  AuditTellsTheHistory
  ApprovalIsSpentOnItsArchive
PROPERTIES
  NothingIsTakenBack
