CONSTANTS
  MaxRecordings = 3
  MaxFaults = 2
SPECIFICATION Spec
INVARIANTS
  NoRecordingOutlivesSession
  UndisturbedStopDelivers
CHECK_DEADLOCK FALSE
