CONSTANTS
  r1 = r1
  r2 = r2
  r3 = r3
  r4 = r4
  alice = alice
  bob = bob
  Requests = {r1, r2, r3, r4}
  Owners = {alice, bob}
  OwnerOf <- MCOwnerOf
  Impatient = {r4}
  None = None
  Free = Free
  Foreign = Foreign
  Stale = Stale
  Unnamed = Unnamed
  MaxFaults = 2
SPECIFICATION FairSpec
INVARIANTS
  AtMostOneHolder
PROPERTIES
  FirstComeFirstServed
  ImplementsLock
  EveryRequestIsAnswered
CHECK_DEADLOCK FALSE
