SPECIFICATION Spec
CONSTANTS
  r1 = r1
  r2 = r2
  x1 = x1
  Run = {r1}
  Ours = {r1}
  Step = {x1}
  StepOf <- OneRun
  MaxEvents = 2
  MaxFaults = 0
INVARIANTS
  CancelledRunIsOver
CHECK_DEADLOCK FALSE
