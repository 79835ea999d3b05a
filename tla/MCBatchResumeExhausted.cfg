SPECIFICATION Spec
CONSTANTS
  GA = 2
  Steps = 4
  Interval = 2
  Cutoff <- NoCutoff
  DataLen = 6
  Devices = {"cuda", "cpu"}
  MaxCrashes = 2
  MaxSignals = 1
INVARIANT ExhaustionIsCaught
