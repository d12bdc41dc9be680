CONSTANTS
  s1 = s1
  s2 = s2
  p1 = p1
  alice = alice
  bob = bob
  Sessions = {s1, s2, p1}
  Serial = {s1, s2}
  Owners = {alice, bob}
  OwnerOf <- MCOwnerOf
  None = None
  MaxClosures = 1
  MaxFailures = 1
SPECIFICATION FairSpec
INVARIANTS
  TypeOK
  DeviceUnderLock
  LockWillBeReleased
  AnswersAreTrue
PROPERTIES
  SessionsEnd
CHECK_DEADLOCK FALSE
