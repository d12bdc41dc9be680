CONSTANTS
  s1 = s1
  s2 = s2
  t1 = t1
  P = P
  Q = Q
  Processes = {P, Q}
  Claims = {s1, s2, t1}
  HomeOf <- MCHomeOf
  Patient = {t1}
  Handoffs <- MCHandoffs
  None = None
  MaxCrashes = 1
SPECIFICATION FairSpec
INVARIANTS
  TypeOK
  ExclusiveUnlessLapse
PROPERTIES
  LockBetweenCrashes
  LeftoverIsReclaimed
CHECK_DEADLOCK FALSE
