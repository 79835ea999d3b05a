---------------------------- MODULE MCSRStreams ----------------------------
(* Two ranks, two MXFP4 producers, one localCTA producer, the head; a modulus of  *)
(* 64 whose seeds wrap and whose counters cross the sign bit.              *)
EXTENDS SRStreams

MCKeys == [mxfp4 |-> 2, localcta |-> 1, head |-> 1]
MCDraws == [s \in 0 .. 1 |-> s + 1]
MCStride == [mxfp4 |-> 2, localcta |-> 4, head |-> 4]
MCSeed == [mxfp4 |-> 61, localcta |-> 62, head |-> 29]
MCBase == [mxfp4 |-> 27, localcta |-> 26, head |-> 30]
=============================================================================
