SPECIFICATION ResumeSpec
CONSTANTS
  ResumeSteps = 6
  Interval = 2
  ResumeSkip = 3
  MaxCrashes = 1
PROPERTY PicksStepBelowSkip
