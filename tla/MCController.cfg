CONSTANTS
  v1 = v1
  v2 = v2
  c1 = c1
  c2 = c2
  Recordings = {v1, v2}
  Stoppers = {c1, c2}
  None = None
  Prepared = Prepared
  MaxFaults = 1
SPECIFICATION FairSpec
INVARIANTS
  CleanAfterClose
  TapeIsTracked
  TapeIsExclusive
  PageIsRestored
PROPERTIES
  RecorderStopsFirst
  CloseReturns
CHECK_DEADLOCK FALSE
