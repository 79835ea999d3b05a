SPECIFICATION Spec
CONSTANTS
  Steps = 5
  Configs <- KeepTwo
  MaxRestarts = 1
  MaxFailures = 0
  MaxSignals = 1
INVARIANT CompleteCheckpointRemains
