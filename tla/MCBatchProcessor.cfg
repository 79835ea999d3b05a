SPECIFICATION Spec
CONSTANTS
  Clients = {c1, c2, c3}
  MaxBatchSize = 2
  MaxQueueSize = 1
INVARIANTS
  UnfinishedExact
  AnsweredAtMostOnce
  ShutdownWaits
PROPERTIES
  TakenIsAnswered
  ShutdownEnds
