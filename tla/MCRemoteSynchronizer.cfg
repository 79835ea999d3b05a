SPECIFICATION SyncFairSpec
CONSTANT Files = 3
INVARIANTS NoDataLeftBehind
PROPERTIES ProcessEnds
\* A process ends.
CHECK_DEADLOCK FALSE
