---------------------------- MODULE MCPackedBinary ----------------------------
(* The instances of PackedBinary that TLC explores: one or two ranks with one *)
(* or two workers, shards one of which may be empty, a limit inside a shard,  *)
(* full and short last batches.                                               *)
EXTENDS PackedBinary

SmallJobs ==
  [cumulative_samples: {<<3, 3, 7>>, <<1, 6>>},
   sample_count: {0, 3},
   dp_world_size: 1..2,
   num_workers: 1..2,
   batch_size: 1..2,
   infinite: BOOLEAN,
   require_full_run: BOOLEAN,
   steps: {3}]

\* As many samples as the steps ask for, in strides that favour rank 0.
UnevenJobs ==
  {[cumulative_samples |-> <<6>>, sample_count |-> 0, dp_world_size |-> 2, num_workers |-> 2,
    batch_size |-> 1, infinite |-> FALSE, require_full_run |-> TRUE, steps |-> 3]}
=============================================================================
