SPECIFICATION Spec
CONSTANTS
  t1 = t1
  x1 = x1
  r1 = r1
  r2 = r2
  p1 = p1
  p2 = p2
  Task = {t1}
  Step = {x1}
  Run = {r1, r2}
  Process = {p1, p2}
  NULL = NULL
  TaskOf <- MCTaskOf
  StepOf <- MCStepOf
  Created <- MCCreated
  MaxEvents = 2
SYMMETRY Alike
VIEW View
CHECK_DEADLOCK FALSE
INVARIANTS
  StoreConsistent
  OneRunningPerStep
  CompletionFollowsStatus
PROPERTIES
  StatusesAreAPath
  CommitsAboveHighWater
