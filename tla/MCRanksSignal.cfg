SPECIFICATION Spec
CONSTANTS
  WorldSize = 2
  Steps = 3
  GA = 2
  LogFreq = 2
  Interval = 2
  MaxAhead = 3
INVARIANTS
  SignalSavesCheckpoint
CHECK_DEADLOCK FALSE
