------------------------------ MODULE PackedBinary ------------------------------
(***************************************************************************)
(* The pretokenized dataset of low_bits_training/datasets/packed_binary.py *)
(* under its dataloader: every rank starts worker processes that each read *)
(* their own stride of the samples, shard boundaries and empty shards      *)
(* included, and a job that crashes goes on from the saved cursors.        *)
(*                                                                         *)
(* A sample is the window <<shard, index in the shard>> it is read from.   *)
(* The ranks take their batches in step, as the collectives of a training  *)
(* step make them.  A step takes one batch: steps counts accumulation      *)
(* steps, and global_batch_size is what one batch per rank amounts to.     *)
(***************************************************************************)
EXTENDS Integers, Sequences, FiniteSets

CONSTANTS
  Jobs,        \* the jobs considered, see Job
  MaxCrashes   \* bound: how often the job is killed

\* cumulative_samples is _cumulative_samples, the running sums of the shards'
\* sample_count, equal for an empty shard and the one before it; sample_count = 0
\* stands for no limit, and capacity_margin has its default.
Job ==
  [cumulative_samples:
     {sums \in Seq(Nat) : \A k, l \in DOMAIN sums : k <= l => sums[k] <= sums[l]},
   sample_count: Nat,
   dp_world_size: Nat \ {0},
   num_workers: Nat \ {0},
   batch_size: Nat \ {0},
   infinite: BOOLEAN,
   require_full_run: BOOLEAN,
   steps: Nat \ {0}]

ASSUME PackedAssumption == Jobs \subseteq Job /\ MaxCrashes \in Nat

VARIABLES
  job,       \* the job and its dataset
  phase,     \* down, training, done, exhausted, refused or error
  cursor,    \* PackedBinaryDataset._cursor in every worker of every rank
  taken,     \* batches each rank has taken
  seen,      \* history: how often the weights have learnt from each window
  snapshot,  \* the last checkpoint
  crashes    \* history: how often the job was killed

vars == <<job, phase, cursor, taken, seen, snapshot, crashes>>

Ranks == 0..(job.dp_world_size - 1)
Workers == 0..(job.num_workers - 1)

-----------------------------------------------------------------------------
(* The dataset                                                             *)

Shards == DOMAIN job.cumulative_samples

\* The samples of the first k shards.
Cumulative(k) == IF k = 0 THEN 0 ELSE job.cumulative_samples[k]

TotalSamples == Cumulative(Len(job.cumulative_samples))

NumSamples ==
  IF job.sample_count = 0 \/ TotalSamples < job.sample_count
  THEN TotalSamples ELSE job.sample_count

\* Deviation: bisect_left.
BisectLeft(s) == Cardinality({k \in Shards : Cumulative(k) < s})

\* bisect_right(_cumulative_samples, s): the shards that end before sample s.
Bisect(s) == Cardinality({k \in Shards : Cumulative(k) <= s})

\* _sample_window.
Window(s) == <<Bisect(s) + 1, s - Cumulative(Bisect(s))>>

\* The windows there are in the shards' files.
Windows == UNION {{k} \X (0..(Cumulative(k) - Cumulative(k - 1) - 1)) : k \in Shards}

Stride == job.dp_world_size * job.num_workers

\* Deviation: the ranks' blocks of workers overlap.
OverlappingStart(r, w) == r + w

FirstSample(r, w) == r * job.num_workers + w

SampleAt(r, w, c) == FirstSample(r, w) + c * Stride

\* How many samples a worker reads before its range is used up.
OwnSamples(r, w) == Cardinality({c \in 0..NumSamples : SampleAt(r, w, c) < NumSamples})

\* Deviation: the cursor is set back at the end of the batch that wraps.
CursorRestarts(r, w, c, n) == IF c + n <= OwnSamples(r, w) THEN c + n ELSE 0

\* The cursor after n samples from c on.  It counts a sample before the sample
\* is yielded, and goes back to 0 only when another one is asked for.
CursorAfter(r, w, c, n) ==
  IF c + n <= OwnSamples(r, w) THEN c + n
  ELSE ((c + n - 1) % OwnSamples(r, w)) + 1

\* The size of the batch a worker sends next: the last of a finite range may be
\* short (drop_last is off), and 0 stands for the end of the worker's iterator.
BatchLen(r, w) ==
  IF job.infinite \/ cursor[r][w] + job.batch_size <= OwnSamples(r, w)
  THEN job.batch_size
  ELSE OwnSamples(r, w) - cursor[r][w]

\* Sample i of that batch.
Drawn(r, w, i) == Window(SampleAt(r, w, (cursor[r][w] + i) % OwnSamples(r, w)))

\* The places <<rank, i>> in the batches of a step, when rank r turns to turn[r].
Draws(turn) ==
  {d \in Ranks \X (0..(job.batch_size - 1)) : d[2] < BatchLen(d[1], turn[d[1]])}

\* The workers from which rank r can still get a batch.
Available(r) == {w \in Workers : BatchLen(r, w) > 0}

-----------------------------------------------------------------------------

NoCursor == [r \in Ranks |-> [w \in Workers |-> 0]]

Init ==
  /\ job \in Jobs
  /\ phase = "down"
  /\ cursor = NoCursor
  /\ taken = 0
  /\ seen = [x \in Windows |-> 0]
  /\ snapshot = [cursor |-> NoCursor, taken |-> 0, seen |-> [x \in Windows |-> 0]]
  /\ crashes = 0

\* build_packed_binary_dataloader's test of the capacity.
TooSmall ==
  job.require_full_run /\ NumSamples < job.steps * job.batch_size * job.dp_world_size

Refuse ==
  /\ phase = "down" /\ (NumSamples = 0 \/ TooSmall)
  /\ phase' = "refused"
  /\ UNCHANGED <<job, cursor, taken, seen, snapshot, crashes>>

\* __iter__ of a rank or worker that has no sample at all.
IterRaises ==
  /\ phase = "down" /\ NumSamples > 0 /\ ~TooSmall
  /\ \E r \in Ranks, w \in Workers : FirstSample(r, w) >= NumSamples
  /\ phase' = "error"
  /\ UNCHANGED <<job, cursor, taken, seen, snapshot, crashes>>

\* The job is launched: each rank's load_state_dict restores its workers.
Launch ==
  /\ phase = "down" /\ NumSamples > 0 /\ ~TooSmall
  /\ \A r \in Ranks, w \in Workers : FirstSample(r, w) < NumSamples
  /\ phase' = "training"
  /\ cursor' = snapshot.cursor /\ taken' = snapshot.taken /\ seen' = snapshot.seen
  /\ UNCHANGED <<job, snapshot, crashes>>

\* Every rank takes a batch, from whichever worker the dataloader turns to.
TrainStep ==
  /\ phase = "training" /\ taken < job.steps
  /\ \E turn \in [Ranks -> Workers] :
       /\ \A r \in Ranks : turn[r] \in Available(r)
       /\ seen' = [x \in Windows |-> seen[x] +
            Cardinality({d \in Draws(turn) : Drawn(d[1], turn[d[1]], d[2]) = x})]
       /\ cursor' = [r \in Ranks |->
            [cursor[r] EXCEPT ![turn[r]] =
               CursorAfter(r, turn[r], @, BatchLen(r, turn[r]))]]
  /\ taken' = taken + 1
  /\ UNCHANGED <<job, phase, snapshot, crashes>>

\* Some rank's iterator ends.
Exhausted ==
  /\ phase = "training" /\ taken < job.steps
  /\ \E r \in Ranks : Available(r) = {}
  /\ phase' = "exhausted"
  /\ UNCHANGED <<job, cursor, taken, seen, snapshot, crashes>>

Done ==
  /\ phase = "training" /\ taken = job.steps
  /\ phase' = "done"
  /\ UNCHANGED <<job, cursor, taken, seen, snapshot, crashes>>

\* A checkpoint between two steps: each rank's state_dict.
Save ==
  /\ phase = "training" /\ snapshot.taken # taken
  /\ snapshot' = [cursor |-> cursor, taken |-> taken, seen |-> seen]
  /\ UNCHANGED <<job, phase, cursor, taken, seen, crashes>>

Crash ==
  /\ phase = "training" /\ crashes < MaxCrashes
  /\ crashes' = crashes + 1
  /\ phase' = "down"
  /\ UNCHANGED <<job, cursor, taken, seen, snapshot>>

Stopped ==
  /\ phase \in {"refused", "error", "exhausted", "done"}
  /\ UNCHANGED vars

Next ==
  \/ Refuse \/ IterRaises \/ Launch
  \/ TrainStep \/ Exhausted \/ Done \/ Save
  \/ Crash \/ Stopped

Spec == Init /\ [][Next]_vars

-----------------------------------------------------------------------------
(* Properties                                                              *)

\* The values the variables range over.
TypeOK ==
  /\ job \in Jobs
  /\ phase \in {"down", "training", "done", "exhausted", "refused", "error"}
  /\ cursor \in [Ranks -> [Workers -> 0..NumSamples]]
  /\ \A r \in Ranks, w \in Workers : cursor[r][w] <= OwnSamples(r, w)
  /\ taken \in 0..job.steps
  /\ seen \in [Windows -> Nat]
  /\ snapshot \in [cursor: [Ranks -> [Workers -> 0..NumSamples]],
                   taken: 0..job.steps, seen: [Windows -> Nat]]
  /\ crashes \in 0..MaxCrashes

\* Without repeat the samples are consumed without replacement: no window
\* reaches the weights twice, from whichever rank, worker or shard, and whatever
\* the crashes between two checkpoints.
WithoutReplacement ==
  /\ TypeOK
  /\ ~job.infinite => \A x \in Windows : seen[x] <= 1

\* The samples that one worker reads.
Own(r, w) == {SampleAt(r, w, c) : c \in 0..(OwnSamples(r, w) - 1)}

\* With repeat no sample of a worker is read a second time before all of its
\* samples were read once, epoch after epoch and across resumes.
EpochsBalanced ==
  \A r \in Ranks, w \in Workers : \A s, t \in Own(r, w) :
    seen[Window(s)] <= seen[Window(t)] + 1

\* When every worker's range is used up, exactly the first num_samples windows
\* of the shards have reached the weights: none was left out at the boundary of
\* a shard, a rank or a resume.
NothingLeftOut ==
  ~job.infinite /\ (\A r \in Ranks : Available(r) = {}) =>
    {x \in Windows : seen[x] > 0} =
      {x \in Windows : Cumulative(x[1] - 1) + x[2] < NumSamples}

\* The error message of the capacity test: a dataset that passes is not too small
\* for a run without repeat, so no rank runs out of data before the last step.
CapacitySuffices == job.require_full_run => phase # "exhausted"
=============================================================================
