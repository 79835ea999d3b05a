SPECIFICATION Spec
CONSTANTS
  Clients = {c1, c2, c3}
  MaxBatchSize = 2
  MaxQueueSize = 2
INVARIANT NothingLeftBehind
