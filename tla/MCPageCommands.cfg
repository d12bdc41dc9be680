SPECIFICATION Spec
CONSTANTS
  k1 = k1
  k2 = k2
  w1 = w1
  w2 = w2
  None = None
  Calls = {k1, k2}
  Windows = {w1, w2}
  Mixes <- MCMixes
  EventLimit = 2
  MaxRenders = 2
  MaxEvents = 4
  MaxFaults = 1
SYMMETRY MCSymmetry
INVARIANTS
  TypeOK
  RetriesAreSafe
  WindowsAreRestored
  BufferIsNewest
