--------------------------- MODULE MCTrainingRanks ---------------------------
(* Two ranks, four steps of two microbatches.  Steps 1 and 3 are logged,   *)
(* steps 2 and 4 saved by the interval, so that a rank that stops at 3     *)
(* saves while the other, unheld by a logged step, saves at 4.             *)
EXTENDS TrainingRanks
=============================================================================
