SPECIFICATION ResumeSpec
CONSTANTS
  ResumeSteps = 9
  Interval = 4
  ResumeSkip = 3
  MaxCrashes = 2
INVARIANTS
  ResumedWithEma
PROPERTY KeepsCommonProgress
