SPECIFICATION Spec
CONSTANTS
  Jobs <- UnevenJobs
  MaxCrashes = 0
INVARIANT CapacitySuffices
