------------------------- MODULE MCRemoteSynchronizer -------------------------
(* Three files: one uploaded by the loop, one written while an upload      *)
(* lists the folder, one after.                                            *)
EXTENDS RemoteSynchronizer
=============================================================================
