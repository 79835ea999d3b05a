---------------------------- MODULE MCWeightCaches ----------------------------
(* Two QKV layers, two microbatches a step, three steps, and one address   *)
(* more than there are layers: an address comes back to its layer, to the  *)
(* other one or to neither.                                                *)
EXTENDS WeightCaches
=============================================================================
