----------------------------- MODULE BatchResume -----------------------------
(***************************************************************************)
(* The data path of one training rank: the batch generator of              *)
(* low_bits_training/trainer.py with its one-batch device-copy lookahead,  *)
(* the CheckpointAlignedDataloader adapter of batch_resume.py, and the     *)
(* training loop of torchtitan's train.py that consumes the batches,       *)
(* saves checkpoints, is killed, and resumes.                              *)
(*                                                                         *)
(* A batch is its index in the rank's data stream.  The model's weights    *)
(* are represented by what they have learnt: the sequence of batches that  *)
(* went into the optimizer steps behind them.  Tokens are counted in       *)
(* batches (every batch has the same number of labels).                    *)
(***************************************************************************)
EXTENDS Integers, Sequences

CONSTANTS
  GA,         \* gradient_accumulation_steps: batches per optimizer step
  Steps,      \* job_config.training.steps as configured
  Interval,   \* job_config.checkpoint.interval
  Cutoff,     \* job_config.job.steps (cutoff_step); -1 for none
  DataLen,    \* how many batches the rank's dataloader yields before it is exhausted
  Devices,    \* where the job may run: on "cuda" the generator looks one batch ahead
  MaxCrashes, \* bound: how often the process dies
  MaxSignals  \* bound: how many exit signals arrive

ASSUME ConstantsAssumption ==
  /\ GA \in Nat \ {0}
  /\ Steps \in Nat
  /\ Interval \in Nat \ {0}
  /\ Cutoff \in Nat \cup {-1}
  /\ DataLen \in Nat
  /\ Devices \subseteq {"cuda", "cpu"}
  /\ MaxCrashes \in Nat
  /\ MaxSignals \in Nat

VARIABLES
  phase,          \* where the process is in main() / train()
  step,           \* Trainer.step
  steps,          \* job_config.training.steps, lowered by end_training_early
  exitRequested,  \* SignalHandler._exit_requested
  acc,            \* batches accumulated by the current train_step
  weights,        \* batches behind the optimizer steps the model has taken
  ntokens,        \* Trainer.ntokens_seen, in batches
  gen,            \* where the batch generator is suspended
  nextBatch,      \* the generator's next_input_dict / next_labels
  position,       \* batches the dataloader has returned from next()
  captured,       \* CheckpointAlignedDataloader._state_before_prefetch
  hasPrefetched,  \* CheckpointAlignedDataloader._has_prefetched_batch
  inflight,       \* checkpoints being written by an asynchronous save
  store,          \* complete checkpoints on disk, and the fresh start
  device,         \* the device of the process
  crashes,        \* history: crashes so far
  signals         \* history: exit signals so far

trainerVars == <<step, steps, exitRequested, acc, weights, ntokens>>
loaderVars  == <<gen, nextBatch, position, captured, hasPrefetched>>
diskVars    == <<inflight, store>>
hostVars    == <<device, crashes, signals>>
vars == <<phase, trainerVars, loaderVars, diskVars, hostVars>>

NoState == -1
Upto(n) == [i \in 1..n |-> i]

\* What a process that finds no checkpoint starts from.
Fresh == [step |-> 0, ntokens |-> 0, position |-> 0, weights |-> << >>]

Ended == {"done", "exhausted", "loader_error", "stop_iteration"}

Init ==
  /\ phase = "down"
  /\ step = 0 /\ steps = Steps /\ exitRequested = FALSE
  /\ acc = << >> /\ weights = << >> /\ ntokens = 0
  /\ gen = "new" /\ nextBatch = 0 /\ position = 0
  /\ captured = NoState /\ hasPrefetched = FALSE
  /\ inflight = {} /\ store = {Fresh}
  /\ device \in Devices /\ crashes = 0 /\ signals = 0

-----------------------------------------------------------------------------
(* CheckpointAlignedDataloader.  The first conjunct of next_for_prefetch   *)
(* and of mark_prefetched_batch_current is the negation of the condition   *)
(* under which the method raises a RuntimeError instead.                   *)

\* Deviation: the adapter is not installed and the raw loader is saved.
RawStateDict == position

\* state_dict: the state before the pending lookahead batch, if there is one.
StateDict == IF hasPrefetched THEN captured ELSE position

\* Deviation: the last batch already delivered is delivered again.
LoadBehind(p) ==
  /\ captured' = NoState
  /\ hasPrefetched' = FALSE
  /\ position' = p - 1

\* load_state_dict: forget the lookahead, then load the wrapped dataloader.
LoadStateDict(p) ==
  /\ captured' = NoState
  /\ hasPrefetched' = FALSE
  /\ position' = p

\* Deviation: the state is captured after the lookahead next().
LateCapture ==
  /\ ~hasPrefetched
  /\ position < DataLen
  /\ captured' = position + 1
  /\ hasPrefetched' = TRUE
  /\ position' = position + 1

\* next_for_prefetch when the dataloader returns a batch.
NextForPrefetch ==
  /\ ~hasPrefetched
  /\ position < DataLen
  /\ captured' = position
  /\ hasPrefetched' = TRUE
  /\ position' = position + 1

\* next_for_prefetch when next(iterator) raises: StopIteration once the data
\* is exhausted, or an error of a loader worker.
NextForPrefetchRaises(error) ==
  /\ ~hasPrefetched
  /\ error = "StopIteration" => position = DataLen
  /\ captured' = NoState
  /\ hasPrefetched' = FALSE
  /\ UNCHANGED position

\* Deviation: the promoted batch stays marked as pending.
MarkKeepsPending ==
  /\ hasPrefetched
  /\ UNCHANGED <<captured, hasPrefetched, position>>

\* mark_prefetched_batch_current.
MarkPrefetchedBatchCurrent ==
  /\ hasPrefetched
  /\ captured' = NoState
  /\ hasPrefetched' = FALSE
  /\ UNCHANGED position

-----------------------------------------------------------------------------
(* Trainer.batch_generator, resumed by next(data_iterator) in train_step.  *)

InTrainStep == phase = "train_step" /\ Len(acc) < GA

\* _record_actual_yield, the yield, and forward_backward_step on the batch.
Yield(b) ==
  /\ acc' = Append(acc, b)
  /\ ntokens' = ntokens + 1
  /\ UNCHANGED <<step, steps, exitRequested, weights>>

\* The generator dies with an exception that ends train().
Raise(reason) ==
  /\ gen' = "dead"
  /\ phase' = reason
  /\ UNCHANGED <<trainerVars, nextBatch>>

\* First resumption on CUDA: load the batch ahead of the loop.
PrimeLookahead ==
  /\ InTrainStep /\ device = "cuda" /\ gen = "new"
  /\ \/ /\ NextForPrefetch
        /\ nextBatch' = position + 1
        /\ gen' = "lookahead"
        /\ UNCHANGED <<phase, trainerVars>>
     \/ NextForPrefetchRaises("StopIteration") /\ Raise("exhausted")
     \/ NextForPrefetchRaises("error") /\ Raise("loader_error")
  /\ UNCHANGED <<diskVars, hostVars>>

\* Head of the CUDA loop: the batch held so far becomes the current one.
PromoteLookahead ==
  /\ InTrainStep /\ gen = "lookahead"
  /\ MarkPrefetchedBatchCurrent
  /\ gen' = "promoted"
  /\ UNCHANGED <<phase, trainerVars, nextBatch, diskVars, hostVars>>

\* Rest of the CUDA loop body: prefetch the batch after the current one, then
\* yield the current one.  Running out of data only ends the loop.
PrefetchAndYield ==
  /\ InTrainStep /\ gen = "promoted"
  /\ \/ /\ NextForPrefetch
        /\ nextBatch' = position + 1
        /\ gen' = "lookahead"
        /\ Yield(nextBatch)
        /\ UNCHANGED phase
     \/ /\ NextForPrefetchRaises("StopIteration")
        /\ gen' = "last"
        /\ Yield(nextBatch)
        /\ UNCHANGED <<phase, nextBatch>>
     \/ NextForPrefetchRaises("error") /\ Raise("loader_error")
  /\ UNCHANGED <<diskVars, hostVars>>

\* The CUDA loop is over: the generator returns, so next(data_iterator) raises
\* StopIteration, which train() does not catch.
GeneratorReturns ==
  /\ InTrainStep /\ gen = "last"
  /\ Raise("stop_iteration")
  /\ UNCHANGED <<position, captured, hasPrefetched, diskVars, hostVars>>

\* Without CUDA there is no lookahead and the adapter is not involved.
LoadAndYield ==
  /\ InTrainStep /\ device = "cpu" /\ gen = "new"
  /\ \/ /\ position < DataLen
        /\ position' = position + 1
        /\ Yield(position + 1)
        /\ UNCHANGED <<phase, gen, nextBatch>>
     \/ /\ position = DataLen
        /\ Raise("exhausted")
        /\ UNCHANGED position
     \/ /\ Raise("loader_error")
        /\ UNCHANGED position
  /\ UNCHANGED <<captured, hasPrefetched, diskVars, hostVars>>

-----------------------------------------------------------------------------
(* train(), train_step() and the checkpoints                               *)

\* A process starts and checkpointer.load restores one complete checkpoint
\* (the latest or the configured load_step), or finds none.
Load(c) ==
  /\ phase = "down"
  /\ phase' = "loop"
  /\ step' = c.step /\ ntokens' = c.ntokens /\ weights' = c.weights
  /\ LoadStateDict(c.position)
  /\ steps' = Steps /\ exitRequested' = FALSE /\ acc' = << >>
  /\ gen' = "new" /\ nextBatch' = 0
  /\ UNCHANGED <<diskVars, hostVars>>

\* should_continue_training holds: the next step begins.
StartStep ==
  /\ phase = "loop" /\ step < steps
  /\ phase' = "train_step"
  /\ step' = step + 1
  /\ acc' = << >>
  /\ UNCHANGED <<steps, exitRequested, weights, ntokens, loaderVars, diskVars, hostVars>>

\* should_continue_training fails: train() returns and main() closes the trainer.
Finish ==
  /\ phase = "loop" /\ step >= steps
  /\ phase' = "done"
  /\ UNCHANGED <<trainerVars, loaderVars, diskVars, hostVars>>

\* Trainer.train_step asks whether training has to end with this step.
MustEndEarly == exitRequested \/ (Cutoff # -1 /\ step >= Cutoff)

\* Deviation: training.steps is lowered to the step before the current one.
EndsOneStepShort ==
  /\ phase = "train_step" /\ Len(acc) = GA
  /\ phase' = "save"
  /\ weights' = weights \o acc
  /\ steps' = IF MustEndEarly THEN step - 1 ELSE steps
  /\ UNCHANGED <<step, exitRequested, acc, ntokens, loaderVars, diskVars, hostVars>>

\* optimizers.step() on the accumulated gradients, then the early-end checks.
OptimizerStep ==
  /\ phase = "train_step" /\ Len(acc) = GA
  /\ phase' = "save"
  /\ weights' = weights \o acc
  /\ steps' = IF MustEndEarly THEN step ELSE steps
  /\ UNCHANGED <<step, exitRequested, acc, ntokens, loaderVars, diskVars, hostVars>>

\* What a checkpoint of the current state holds.
Snapshot ==
  [step |-> step, ntokens |-> ntokens, position |-> StateDict, weights |-> weights]

\* checkpointer.save: the last step is saved synchronously, a step on the
\* interval asynchronously; both first wait for the save in flight.
Save ==
  /\ phase = "save"
  /\ phase' = "loop"
  /\ \/ /\ step = steps
        /\ store' = store \cup inflight \cup {Snapshot}
        /\ inflight' = {}
     \/ /\ step # steps /\ step % Interval = 0
        /\ store' = store \cup inflight
        /\ inflight' = {Snapshot}
     \/ /\ step # steps /\ step % Interval # 0
        /\ UNCHANGED diskVars
  /\ UNCHANGED <<trainerVars, loaderVars, hostVars>>

\* The asynchronous save ends.
SaveCompletes ==
  /\ inflight # {}
  /\ store' = store \cup inflight
  /\ inflight' = {}
  /\ UNCHANGED <<phase, trainerVars, loaderVars, hostVars>>

\* SIGTERM, SIGUSR1... reach the handler at any moment of the run.
Signal ==
  /\ phase \in {"loop", "train_step", "save"}
  /\ signals < MaxSignals
  /\ signals' = signals + 1
  /\ exitRequested' = TRUE
  /\ UNCHANGED <<phase, step, steps, acc, weights, ntokens, loaderVars, diskVars, device,
                 crashes>>

\* The process dies; what was in memory and in flight is lost, and the job may
\* be relaunched on another device.
Crash ==
  /\ phase # "down" /\ crashes < MaxCrashes
  /\ crashes' = crashes + 1
  /\ phase' = "down"
  /\ inflight' = {}
  /\ device' \in Devices
  /\ UNCHANGED <<trainerVars, loaderVars, store, signals>>

\* The job has ended; nothing more happens.
Stopped ==
  /\ phase \in Ended /\ inflight = {}
  /\ UNCHANGED vars

Generator ==
  \/ PrimeLookahead \/ PromoteLookahead \/ PrefetchAndYield
  \/ GeneratorReturns \/ LoadAndYield

Loop == StartStep \/ Finish \/ OptimizerStep \/ Save

Next ==
  \/ \E c \in store : Load(c)
  \/ Generator
  \/ Loop
  \/ SaveCompletes
  \/ Signal
  \/ Crash
  \/ Stopped

Spec == Init /\ [][Next]_vars

-----------------------------------------------------------------------------
(* Properties                                                              *)

Batches == 1..DataLen
Checkpoints == [step: Nat, ntokens: Nat, position: 0..DataLen, weights: Seq(Batches)]

\* The values the variables range over.
TypeOK ==
  /\ phase \in {"down", "loop", "train_step", "save"} \cup Ended
  /\ step \in Nat /\ steps \in Nat /\ exitRequested \in BOOLEAN
  /\ acc \in Seq(Batches) /\ weights \in Seq(Batches) /\ ntokens \in Nat
  /\ gen \in {"new", "lookahead", "promoted", "last", "dead"}
  /\ nextBatch \in 0..DataLen /\ position \in 0..DataLen
  /\ captured \in 0..DataLen \cup {NoState} /\ hasPrefetched \in BOOLEAN
  /\ inflight \in SUBSET Checkpoints /\ store \in SUBSET Checkpoints
  /\ device \in {"cuda", "cpu"}
  /\ crashes \in 0..MaxCrashes /\ signals \in 0..MaxSignals

\* Optimizer steps behind the current weights: a step that is still
\* accumulating, or was cancelled, has contributed nothing.
StepsTaken ==
  IF phase \in {"train_step", "exhausted", "loader_error", "stop_iteration"}
  THEN step - 1 ELSE step

\* The model has learnt from exactly the first StepsTaken * GA batches of the
\* stream, each once and in order: neither the lookahead nor any number of
\* crashes and resumes makes it skip or repeat a batch (batch_resume.py,
\* CheckpointAlignedDataloader; batch_generator in trainer.py).
WeightsExact == phase # "down" => weights = Upto(StepsTaken * GA)

\* The parts of a checkpoint agree: step, tokens seen, dataloader position and
\* weights all describe the same point of the data stream, although the
\* generator already holds the next batch when the checkpoint is taken.
Aligned(c) ==
  /\ c.position = c.step * GA
  /\ c.ntokens = c.step * GA
  /\ c.weights = Upto(c.step * GA)

CheckpointsAligned == \A c \in store \cup inflight : Aligned(c)

\* The two RuntimeErrors of the adapter (prefetching over a pending batch,
\* promoting without one) are unreachable: whenever batch_generator is about
\* to call the adapter, the adapter is in the state the call needs, whatever
\* the loader raised before and whenever the process was restarted.
AdapterNeverRaises ==
  InTrainStep /\ device = "cuda" =>
    /\ (gen \in {"new", "promoted"} => ~hasPrefetched)
    /\ (gen = "lookahead" => hasPrefetched)

\* A run that ends normally leaves its last step on disk, also when a signal
\* or cutoff_step ended it early (end_training_early lowers training.steps to
\* the current step so that save sees last_step).
FinalStepSaved == phase = "done" => \E c \in store : c.step = step

\* What the docs of DataloaderExhaustedError (dataloader.py) say: exhaustion of
\* the data is caught by the training loop and never ends the program by
\* another exception.
ExhaustionIsCaught == phase # "stop_iteration"

\* The detailed data path implements exactly-once training with rollback.
ExactlyOnce ==
  INSTANCE ExactlyOnceTraining WITH trained <- weights,
                                    saved <- {c.step : c \in store}
ImplementsExactlyOnce == ExactlyOnce!Spec
=============================================================================
