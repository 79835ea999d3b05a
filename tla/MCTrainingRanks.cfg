SPECIFICATION FairSpec
CONSTANTS
  WorldSize = 2
  Steps = 4
  GA = 2
  LogFreq = 3
  Interval = 2
  MaxAhead = 3
INVARIANTS
  WholeCheckpoints
  AgreedEndIsSaved
  KilledOnlyWhenSplit
PROPERTIES
  EveryJobEnds
CHECK_DEADLOCK FALSE
