SPECIFICATION Spec
CONSTANTS
  Steps = 3
  SaveInterval = 2
  Skip = 1
  MaxTimeouts = 1
  MaxDeaths = 0
  MaxLoadErrors = 0
INVARIANT BufferSettled
