SPECIFICATION Spec
CONSTANTS
  Steps = 5
  SaveInterval = 2
  Skip = 3
  MaxTimeouts = 2
  MaxDeaths = 1
  MaxLoadErrors = 1
INVARIANTS
  PendingExact
  UpdateReadsItsStep
  WorkerStateReady
  EverySaveWritten
  ClosedMeansGone
PROPERTY EveryRunEnds
