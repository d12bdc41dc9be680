CONSTANTS
  t1 = t1
  t2 = t2
  s1 = s1
  s2 = s2
  Calls = {t1, t2}
  Sessions = {s1, s2}
  None = None
  MaxFaults = 1
SPECIFICATION FairSpec
INVARIANTS
  TypeOK
  SessionIsInHand
PROPERTIES
  CallsAndSessionsEnd
CHECK_DEADLOCK FALSE
