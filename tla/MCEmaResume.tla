------------------------------ MODULE MCEmaResume -----------------------------
(* The instances of EmaResume that TLC explores.                              *)
EXTENDS EmaResume
=============================================================================
