CONSTANTS
  k1 = k1
  k2 = k2
  x1 = x1
  a1 = a1
  a2 = a2
  c1 = c1
  None = None
  Processes = {p1}
  Sessions = {s1, s2}
  ProjectIds = {i1, i2}
  ConfirmationIds = {f1, f2}
  TaskIds = {t1}
  WorktreeIds = {w1}
  ProjectKeys = {k1, k2}
  Paths = {x1}
  Agents = {a1, a2}
  Commands = {c1}
  RegistrationInputs <- MCRegistrationInputs
  Patches <- MCPatches
  ProposedPolicies <- MCProposedPolicies
  Profiles <- MCProfiles
  FableModels = {"fable"}
  MaxUpdates = 2
  MaxTime = 1
  MaxChanges = 5
CONSTRAINT FewChanges
SYMMETRY Symmetry
SPECIFICATION Spec
CHECK_DEADLOCK FALSE
INVARIANTS
  ProjectsConsistent
  FableIsConfirmed
  LiveTasksKeepTheirBounds
  PolicyServicesAgree
