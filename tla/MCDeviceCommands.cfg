SPECIFICATION Spec
CONSTANTS
  k1 = k1
  k2 = k2
  p1 = p1
  p2 = p2
  Calls = {k1, k2}
  Ports = {p1, p2}
  MaxFaults = 1
CHECK_DEADLOCK FALSE
SYMMETRY MCSymmetry
INVARIANTS
  WebContextIsRestored
  NavigationIsHonest
  ForwardsEndWithSession
