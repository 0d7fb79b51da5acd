SPECIFICATION FairSpec
CONSTANTS
  r1 = r1
  r2 = r2
  x1 = x1
  Run = {r1, r2}
  Ours = {r1}
  Step = {x1}
  StepOf <- TwoRuns
  MaxEvents = 2
  MaxFaults = 2
CHECK_DEADLOCK FALSE
INVARIANTS
  RunConsistent
  VerdictsAreEarned
  OpenRunsAreExplained
PROPERTIES
  CancellationWins
  StoreSteps
  EveryWaitEnds
