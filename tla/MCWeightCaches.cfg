SPECIFICATION Spec
CONSTANTS
  Layers = 2
  GA = 2
  Steps = 3
  Ids = {11, 12, 13}
INVARIANTS
  DgradUsesCurrentWeights
  HeadWeightsCurrent
CHECK_DEADLOCK FALSE
