SPECIFICATION Spec
CONSTANTS
  Jobs <- SmallJobs
  MaxCrashes = 1
INVARIANTS
  WithoutReplacement
  EpochsBalanced
  NothingLeftOut
