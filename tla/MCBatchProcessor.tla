--------------------------- MODULE MCBatchProcessor ---------------------------
(* The instances of BatchProcessor that TLC explores: as many clients as the  *)
(* queue and one batch hold together, so that the queue fills up.             *)
EXTENDS BatchProcessor
===============================================================================
