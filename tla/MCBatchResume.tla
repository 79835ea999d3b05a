---------------------------- MODULE MCBatchResume ----------------------------
(* The instances of BatchResume that TLC explores: two batches per step, data *)
(* that ends in the middle of the last step or just before it, a checkpoint   *)
(* every other step.                                                          *)
EXTENDS BatchResume

NoCutoff == -1
=============================================================================
