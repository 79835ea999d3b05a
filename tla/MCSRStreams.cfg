SPECIFICATION Spec
CONSTANTS
  WorldSize = 2
  MaxGA = 2
  Steps = 2
  Modulus = 64
  MaxLag = 1
  MaxStarts = 2
  Keys <- MCKeys
  DrawsPerMicro <- MCDraws
  Stride <- MCStride
  UserSeed <- MCSeed
  UserBase <- MCBase
INVARIANTS
  CoordinatesDistinct
  NeverCorrupt
PROPERTIES
  ReplaysExactly
CHECK_DEADLOCK FALSE
