--------------------------- MODULE MCEmaCheckpoint ---------------------------
(* The instances of EmaCheckpoint that TLC explores: runs with and without a  *)
(* checkpoint to load, a slow worker, one that dies and one that cannot load. *)
EXTENDS EmaCheckpoint
==============================================================================
