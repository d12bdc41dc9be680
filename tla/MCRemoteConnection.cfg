CONSTANTS
  h1 = h1
  h2 = h2
  p1 = p1
  p2 = p2
  c1 = c1
  c2 = c2
  b1 = b1
  Hosts = {h1, h2}
  Pairings = {p1, p2}
  HostOf <- MCHostOf
  Asked <- MCAsked
  Remembered = {p1}
  Requested = {"control"}
  Calls = {c1, c2}
  Checks = {b1}
  None = None
  MaxChanges = 1
SPECIFICATION Spec
INVARIANTS
  TypeOK
  ActiveIsWatched
PROPERTIES
  NoSilentSwitch
  ActiveSettles
CHECK_DEADLOCK FALSE
