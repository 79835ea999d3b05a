SPECIFICATION Spec
CONSTANTS
  Steps = 7
  Configs <- EverySaveMode
  MaxRestarts = 2
  MaxFailures = 1
  MaxSignals = 1
INVARIANTS
  CheckpointsConsistent
  NewestSurvives
  PurgeSparesWriter
  OnlyModelOnlyFails
  LastStepDurable
PROPERTIES
  ResumesFromNewest
  EveryRunEnds
