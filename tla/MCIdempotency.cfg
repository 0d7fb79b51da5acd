SPECIFICATION FairSpec
CONSTANTS
  q1 = q1
  q2 = q2
  q3 = q3
  o1 = o1
  o2 = o2
  k1 = k1
  k2 = k2
  b1 = b1
  b2 = b2
  Request = {q1, q2, q3, o1, o2}
  Key = {k1, k2}
  Body = {b1, b2}
  KeyOf <- MCKeyOf
  BodyOf <- MCBodyOf
  Atomic = {k2}
  None = None
  MaxExpiries = 1
  MaxFaults = 1
CHECK_DEADLOCK FALSE
INVARIANTS
  RecordsConsistent
  WorkIsOnce
  AnswersAgree
PROPERTIES
  ResponsesAreKept
  RequestsSettle
