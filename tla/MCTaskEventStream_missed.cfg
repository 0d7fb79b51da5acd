SPECIFICATION Spec
CONSTANTS
  MaxEvents = 5
  QueueLimit = 2
  MaxCloses = 2
INVARIANTS
  NoEventIsMissed
CHECK_DEADLOCK FALSE
