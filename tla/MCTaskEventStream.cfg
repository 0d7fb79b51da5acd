SPECIFICATION FairSpec
CONSTANTS
  MaxEvents = 5
  QueueLimit = 2
  MaxCloses = 2
CHECK_DEADLOCK FALSE
INVARIANTS
  StreamConsistent
  LossesAreKnown
PROPERTIES
  EveryEventArrives
  ImplementsFeed
