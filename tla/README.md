# Verification of the FP4 training program

TLA+ models of the training program in this repository: `train.py`, the
`low_bits_training` package, and the parts of the vendored TorchTitan it runs
on. The arithmetic of FP4 training is not modelled. What is modelled is the
machinery around it that has to survive crashes, slow processes, full queues
and signals: data position and checkpoints, the moving average of the weights,
the packed dataset, the random streams behind stochastic rounding, the ranks of
a job and the collectives they meet in, the caches of quantised weights, the
upload of a job's folder, the request batcher of the generation service.

TLC checks every module on a small instance. TLAPS proves, for all values of the
constants: the safety of the data path and that it implements its abstract
specification; every safety property that is checked of the checkpoint manager, of
the EMA checkpointer and the step it resumes from, of the packed dataset, of the
request batcher, of the random streams, of the ranks, of the weight caches and of the
upload at the end of a job. Liveness is model-checked only.

## 1. The system

| part | state it keeps | operations | talks to |
|---|---|---|---|
| training loop (`torchtitan/train.py` `Trainer.train`, `low_bits_training/trainer.py`) | `step`, `ntokens_seen`, `training.steps`, the weights | `train_step`, `end_training_early`, `close` | pulls batches from the generator, calls the checkpointer once a step, reads the signal flag |
| batch generator (`trainer.py` 1049-1170) | one batch held ahead on CUDA | `next`, ends or raises when the data does | dataloader, through `CheckpointAlignedDataloader` |
| `CheckpointAlignedDataloader` (`batch_resume.py`) | the loader state from before the lookahead, a flag | `next_for_prefetch`, `mark_prefetched_batch_current`, `state_dict`, `load_state_dict` | stands between generator, checkpointer and the dataloader |
| checkpoint manager (`components/checkpoint.py`) | directories `step-N`, `save_future`, `staging`, the purge queue and its thread | `save`, `load`, `maybe_wait_for_staging`, `close` | DCP writes in the background, the purge thread deletes |
| EMA checkpointer (`ema_checkpoint.py`) | a shared buffer, two queues, pending counts, `update_ema_count`; the average is in another process | `update_ema`, `save`, `load`, `close`, `force_close` | called by the checkpoint manager's wrapper; a worker process answers |
| packed dataset (`datasets/packed_binary.py`) | a cursor per rank and worker, open memmaps | `__iter__`, `state_dict`, `load_state_dict`, the capacity test | torch's `StatefulDataLoader` runs it in worker processes |
| signal handler (`signal_handler.py`) | one flag | set by SIGTERM or SIGINT | read at the end of `train_step` |
| request batcher (`generate/batcher.py`) | bounded queue, flag, event, worker thread | `submit_request`, `shutdown` | client threads, callbacks |
| stochastic-rounding streams (`quantization/mxfp4_sr_state.py`, `quantization/localcta_sr_state.py`, `cce/head_sr_state.py`) | a Philox seed and a next subsequence for every rank and producer; on the host under a lock, or in a device tensor that kernels advance | `reserve`, `get`, `state_dict`, `load_state_dict`, migration, reset, `validate_progress`, rollback after a graph capture | drawn from by the layers, saved by the checkpointer through a gather over all ranks |
| ranks of a job (`torchtitan/train.py`, `distributed/utils.py`, `distributed_control.py`) | each its own `step`, `training.steps` and exit flag | the training loop on every rank | collectives of the model, of a checkpoint, and the barrier after step 1; the watchdog |
| FP4 weight caches (`quantization/fused_te_linear.py`, `cce/backend.py`) | quantised copies of weights, by `id()` of a tensor or by step | forward, backward, `post_optimizer_hook` | filled by the layers, emptied by the optimizer's hook |
| remote synchronizer (`components/remote_synchronizer.py`) | a status, a thread, the uploaded files | `start`, `stop`, the loop | started by `Trainer.__init__`, stopped by `Trainer.close`, killed by `main`'s fast exit |
| conversion, generation proxy | see "Not modelled" | | |
| kernels and models (`quantization`, `cce`, `fp4_runtime`, `models`, `TransformerEngine`) | none between calls, besides the streams and caches above | | |

What makes these parts hard, and what makes them correct:

* **Data path.** The generator holds a batch that the model has not seen. A
  checkpoint taken at that moment must not contain the loader's own position. A
  crash, a failed load, a signal or the end of the data can fall between any two
  steps. Correct means: the model has learnt from exactly the first
  `step * GA` batches, in order, whatever happened before.
* **Checkpoints.** Four activities (trainer, stager, writer, purge thread) work
  on the same folder, and a process that is killed leaves directories half
  written or half deleted. Correct means: what a relaunched job finds is whole,
  is the newest, and contains the weights of one step.
* **EMA.** One reply queue carries the answers of three kinds of request, and any
  wait can time out with the answer arriving later. Correct means: the counts
  stay exact, no due checkpoint is lost, `close()` ends and leaves no process.
* **EMA resume.** Two kinds of checkpoint are written by two processes; a crash
  leaves any combination. Correct means: a common step when there is one.
* **Packed dataset.** Index arithmetic over ranks, workers, shards and epochs,
  with a cursor that is saved at any sample. Correct means: every sample is read
  once an epoch, by one worker, across resumes.
* **Streams.** Seeds and counters wrap at 2^64 and are stored as `int64`; a job
  resumes from any checkpoint, of this or an older format, with another seed or
  world size in its configuration; device counters run behind the host. Correct
  means: no coordinate is used for two draws of a surviving run, and a resumed
  run rounds as the run it continues.
* **Ranks.** A signal, a NaN and the end of the data are noticed by every rank
  for itself, while hosts run ahead of devices by different amounts. Correct
  means: what is called a checkpoint is one step of all ranks, an end they agree
  on is saved, and every job ends.
* **Weight caches.** A copy is looked up by an address that can come back, or by a
  version counter that can stand still. Correct means: it is a copy of the
  weights of this layer and this step.
* **Uploads.** A file can appear during any phase of an upload, `aws` can fail, and
  three exits of `main` treat the thread differently. Correct means: what was
  written before `stop()` is uploaded, and the process ends.
* **Batcher.** `shutdown` and the worker empty the same queue while clients fill
  it, and the flag is not read under the lock of the put. Three nested handlers tell
  requesters of an exception, each of those whose callbacks may have been called
  before. Correct means: what the worker takes is answered once, and the shutdown ends.

`PROJECT.json` lists the hazards one by one, each with its line.

## 2. The modules

| module | models | state and actions |
|---|---|---|
| `BatchResume` | data path of one rank, training loop, saves, crash and resume | `captured`/`hasPrefetched` are the adapter's two fields; `gen` says where the generator is suspended; `PrimeLookahead`, `PromoteLookahead`, `PrefetchAndYield`, `GeneratorReturns` are the CUDA generator between two suspensions, `LoadAndYield` the other one; `StartStep`, `OptimizerStep`, `Save`, `Finish` are the loop |
| `ExactlyOnceTraining` | what a resumable job promises about its data | abstract specification; `BatchResume` implements it under `trained <- weights` and `saved <- {c.step : c in store}` (defined as `ImplementsExactlyOnce`) |
| `BatchResumeProofs` | inductive invariant of `BatchResume`, its theorems, and the refinement of `ExactlyOnceTraining` | proofs only |
| `CheckpointManager` | `save`, `load`, staging, DCP's writer, purge thread, early end, `close`, relaunch | `disk[N]` is absent, partial (no `.metadata`), complete or torn (`.metadata`, but other files already deleted); `content[N].versions` is the set of weight versions in the files; `config` is the job's `[checkpoint]` section, `lastSaveModelOnly` the attribute that starts as its `last_save_model_only` and that `EndTrainingEarly` clears |
| `CheckpointManagerProofs` | the safety of `CheckpointManager` for any section of `[checkpoint]` and any number of steps, relaunches, failures and signals; that the `stop()` of `RemoteSynchronizer` leaves no file behind, for any number of files | proofs only |
| `EmaCheckpoint` | `EMACheckpointManager` and its worker process | `pc` is the place in the manager's call; a place `*_enter` is the `is_alive()` test of `wait_for_action`, `*_wait` its `get` with timeout; `Booked` is the accounting of a reply |
| `EmaCheckpointProofs` | the safety of `EmaCheckpoint` for any number of steps, interval and warm-up, timeouts, deaths and load errors; the choice of `EmaResume`, for any number of steps and crashes | proofs only |
| `EmaResume` | `CheckpointManagerWithEMAWeight.load` and the two kinds of checkpoints it finds | `normal`, `averaged` are the complete checkpoints, `inflight`, `emaQueue` the ones that a crash loses; `ChosenStep` is the choice |
| `PackedBinary` | `PackedBinaryDataset` under `StatefulDataLoader`, capacity test, resume | `cursor[rank][worker]`; a dataset is its `_cumulative_samples`; `Window` is `_sample_window`; `TrainStep` lets each rank take a batch from one of its workers |
| `PackedBinaryProofs` | that samples are read once an epoch and none is left out, for any shards, ranks, workers and batch size | proofs only |
| `BatchProcessor` | `submit_request`, `_process_queue`, `_process_batch`, `shutdown` | one action for each stretch of code between two points where another thread can come in; `at` is where a loop over the batch is, `callback[c]` what has become of the thread of `c`'s callback. `WorkerReports` is the handler inside the loop over the responses, `WorkerNotifies` the one around the batch, the `ELSE` of `WorkerMarksDone` the one of `_process_queue` |
| `BatchProcessorProofs` | the safety of `BatchProcessor` for any number of clients and any sizes of queue and batch | proofs only |
| `SRStreams` | the three kinds of streams of all ranks, microbatches, graph capture, saves, crashes, resumes under other configurations, checkpoints of older formats | `next[r][st]` is a counter, `launched` the device draws not yet executed; `drawn` records the coordinate of every invocation of the phase, and a resume in the same phase keeps it, so that an invocation made again is seen to repeat its coordinate; `Refuses`, `SeedsWrong`, `CountersWrong`, `LoadedProgressWrong` are the tests of `load_state_dict` and of the `dcp_load` wrappers |
| `SRStreamsProofs` | that no coordinate is used twice, that a resumed run repeats its rounding, that no check raises | proofs only |
| `TrainingRanks` | the loop of `Trainer.train` on every rank, devices, signals, NaN and cutoff, a synchronous save on the control group, the barrier after step 1, the watchdog | `pc[r]` is the place in the loop; `calls[g][r]` counts the collectives a rank has issued on a group, `Joined` says when one ends; `done` is how far the devices are |
| `TrainingRanksProofs` | whole checkpoints, saved ends, and that ranks that agree never wait for ever, for any number of ranks | proofs only |
| `WeightCaches` | the columnwise cache of the fused QKV layers, the output head's cache, the optimizer's hook | weights are `<<layer, version>>`; `ctx` holds the objects that live, so a new object may get any address but theirs; `converter` says whether the hook exists, `handed` whether the backward needs the cache at all |
| `WeightCachesProofs` | that no cached copy is used after its optimizer step, for any number of layers and addresses | proofs only |
| `RemoteSynchronizer` | the upload thread, `stop()`, and `main`'s ways out | `at` is where `main` is, `thread` where the loop is; the folder is the number of files in it |
| `MC*` | instances for TLC | constants only |

The modules share their boundaries rather than their variables.
`BatchResume` treats a save as one object that completes or is lost.
`CheckpointManager` opens up that save and takes the training step as one action.
`EmaCheckpoint` is called from the place that `CheckpointManager` calls
`OptimizerStep` (`maybe_wait_for_staging`) and from the end of `save` and of
`close`; `EmaResume` abstracts both managers to the sets of checkpoints they leave.
`PackedBinary` refines what `BatchResume` calls the stream of batches of a rank:
its `Save` and `Launch` are the adapter's `state_dict` and `load_state_dict`.
`TrainingRanks` opens up what the others take as one process: its ranks run the
loop of `BatchResume` side by side, and its `Plan`, `Write` and `Commit` are one
synchronous save of `CheckpointManager`. `SRStreams` puts the streams into the
same loop. `RemoteSynchronizer` surrounds all of them with `main`.

Definitions marked "Deviation" are never used by a specification. Each is a
variant of the definition next to it with a plausible mistake in it; the checks
in `PROJECT.json` ("mutants") put it in place of the original to see that the
property in question notices.

What was abstracted:

* weights are the sequence of batches (or the number of steps) behind them, a
  batch its index, a sample the place it is read from;
* the job is one process in `BatchResume`, `CheckpointManager` and the EMA
  modules; that ranks can disagree about a signal or the end of the data is the
  subject of `TrainingRanks`, which in turn abstracts the data to a count and the
  model's collectives to one per microbatch, and assumes that checkpoints have a
  process group of their own (the control group, or gloo beside NCCL);
* a layer's quantised weights are the layer and the number of optimizer steps
  behind them; a Philox modulus of 2^64 is the constant `Modulus`;
* DCP, the file system, torch's dataloader, queues and CUDA are external: they
  are modelled by what this code relies on (`.metadata` is written last,
  `rmtree` removes files in any order and may fail, a non-blocking copy ends at
  some later time).

## 3. The runs

All constants below are bounds of the instance, not of the program.

| run | instance | shows |
|---|---|---|
| `resume` | `GA` 2, 4 steps, a checkpoint every 2, data for 3 steps and a half, both kinds of device, 2 crashes, 1 signal | `WeightsExact`, `CheckpointsAligned`, `AdapterNeverRaises`, `FinalStepSaved`, and that the model implements `ExactlyOnceTraining` |
| `ckpt` | 7 steps; five `[checkpoint]` sections: pinned with interval 2 and three replicas, async with interval 2, first-step and model-only last checkpoint (which a signal must turn into a full one), disabled with interval 1 and 3, `load_step` unset; 2 relaunches, 1 write failure, 1 signal | consistent contents, survival of the newest, what a relaunch loads and that an early end leaves something it can load, end of every run |
| `ema` | 5 steps, EMA checkpoint every 2, warm-up 3, with and without a checkpoint to load; 2 timeouts, 1 death, 1 load error | exact counts, no buffer overwritten, every due checkpoint, end of every run |
| `ema_resume` | 9 steps, normal checkpoint every 4, an EMA checkpoint at every step past the warm-up of 3, 2 crashes | weights and EMA of one step, no loss of a common step |
| `packed` | 1 or 2 ranks, 1 or 2 workers, batches of 1 or 2, shards `3,0,4` and `1,5`, a limit inside a shard, repeated or not, 3 steps, 1 crash | no sample twice, none left out, balanced epochs |
| `batcher` | 3 clients, queue of 1, batches of 2, both kinds of shutdown; `generate()` raises, returns nothing valid, too few responses or one that cannot be read; callbacks end, outlast their timeout, hang, or find no thread | exact count, no callback called twice, promises kept, shutdown ends |
| `sr` | 2 ranks, 2 steps of up to 2 microbatches, modulus 64, seeds that wrap and bases that cross the sign bit, 2 starts, checkpoints of three formats, every pair of configurations | `CoordinatesDistinct`, `ReplaysExactly`, `NeverCorrupt` |
| `ranks` | 2 ranks, 4 steps of 2 microbatches, steps 1 and 3 logged, 2 and 4 saved, hosts up to 3 microbatches ahead, a NaN from step 2, a cutoff at 3, a batch missing on either rank, a signal | whole checkpoints, saved ends, kills only of ranks that disagree, end of every job |
| `ranks_signal` | the same with 3 steps, logged and saved at 2 | **violation** of `SignalSavesCheckpoint` |
| `weights` | 2 layers, 2 microbatches, 3 steps, 3 addresses, with and without a hook | no copy outlives its optimizer step |
| `weights_qkv` | the same | **violation** of `DgradUsesOwnWeights` |
| `sync` | 3 files, any failures of `aws`, both fast exits, a constructor and a `close()` that raise | everything before `stop()` is uploaded, end of the process |

Why these bounds are enough for the questions asked:

* Two batches per step are the least with a partly filled accumulation window,
  two crashes the least in which a resume is itself interrupted before a new
  checkpoint, and half a step of data makes the end fall inside a window.
* `NewestSurvives` says how many replicas are enough, and no more than that: it asks for one replica for the checkpoint completed last, one for
  the save in flight, and one for each signal: a relaunch writes a directory of the
  interval again, but not that of the step a signal ended an earlier process at,
  if its save was cut short. With 1 signal and 2 relaunches three replicas are
  tight (two are not enough, see section 4), and within 7 steps
  directories are purged in every process. `PurgeSparesWriter`,
  `OnlyModelOnlyFails`, `LastStepDurable` and `ResumesFromNewest` have the same
  premise, `EnoughReplicas`: with fewer replicas each of them fails in turn, as the
  purge takes the newest complete checkpoint or a directory that is being written.
  `CheckpointsConsistent` has no premise.
* Two timeouts let the late answer of one wait be received by another that then
  times out as well. A warm-up of 3 with an interval of 2 makes a checkpoint fall
  due within the warm-up.
* A common step, a normal checkpoint without EMA, and EMA checkpoints without a
  normal one all occur within 9 steps at intervals 4 and 1.
* Strides, shard boundaries, short batches, the wrap of an epoch within a batch
  and workers without any sample all occur with at most 7 samples.
* Three clients fill the queue and a batch; a fourth could only wait. A batch of two
  lets a handler come to a request whose callback was called and to one whose
  callback was not.
* A modulus of 64 with these strides puts a sign change and a wrap of the seed
  within two steps, and leaves the headroom the constructors demand
  (`SRHeadroom`); two starts let a resumed run be resumed from the checkpoint of
  its predecessor or from its own. The two families of streams (`mxfp4`; `localcta`
  with `head`) are never installed together and are separate initial states.
* Two ranks are one that leaves and one that stays. Between two logged steps a
  host is a whole step and a half ahead, enough for one rank to stop at step 3
  while the other saves step 4.
* Three addresses for two layers: an address comes back to its layer, to the other
  one, or to none.
* Three files: one before a listing, one after it, one during the last upload.

**Fairness.** `CheckpointManager`: weak fairness for the trainer, for DCP's
writer and for the purge thread, each a thread that the operating system runs.
Failures, signals, relaunches and the end of the data get none. `EmaCheckpoint`:
weak fairness for the manager and for the worker, none for timeouts and deaths:
the liveness properties hold whether or not they happen. `BatchProcessor`: weak
fairness for the worker, whose `generate()` is taken to end in one way or the other,
and for a shutdown that has begun; no client has to submit, nobody has to shut
down, and a callback may hang: `callback_timeout` bounds the worker's wait for it. The code waits in `join()` of a queue and of
a thread, in a polling loop and in `get(timeout)`, none of which needs more than
that the other side goes on.

`TrainingRanks`: weak fairness
for every rank's host, for the devices together, for the delivery of a signal that
was sent, and for the watchdog's timeout, which torch sets on every group; none
for sending a signal. `RemoteSynchronizer`: weak fairness for `main`, whose training
ends, and for the upload thread, whose `aws` calls end in one way or the other; a
call that hangs would hold `stop()` for ever, as its own TODO says.

**Deadlock** is checked where a process that has ended is the explicit action
`Stopped` (`Terminated` in the batcher, `ResumeEnded` in `EmaResume`). `sr`, `ranks`, `weights` and `sync` switch
it off, because a job that is done, refused or gone takes no step.

## 4. What disagrees with the code's own words

Two are runs that TLC ends with a counterexample.

* `ranks_signal`: every rank reads its own exit flag. A signal that is handled
  between the checks of two ranks lets one leave and save while the other goes on
  to a collective of its own; both wait until the watchdog kills the job, and the
  final checkpoint that `signal_handler.py` promises is not written.
* `weights_qkv`: the cache of columnwise QKV weights is keyed by the `id()` of a
  tensor that nothing keeps alive. In the second microbatch of a step another layer's
  tensor can have that `id()`, and its backward uses the wrong weights. The
  optimizer's hook bounds the damage to one step (`DgradUsesCurrentWeights`).

The others have a configuration each and are run by hand, `tlc -config
MCBatchResumeExhausted.cfg MCBatchResume.tla` and so on; TLC ends each with a
counterexample.

* `MCBatchResumeExhausted.cfg`, `ExhaustionIsCaught`: on CUDA the generator notices the end of the data while it
  holds the last batch, yields that and *returns*. The next `next()` raises a bare
  `StopIteration`, not the `DataloaderExhaustedError` that `train()` catches.
* `MCCheckpointTwoReplicas.cfg`, `CompleteCheckpointRemains`: `_purge_stale_checkpoints` counts directories, not complete
  checkpoints. With `keep_latest_k = 2` and a directory left by a process that was
  killed in the save after a signal, the only complete checkpoint is deleted while
  its successor is being written.
* `MCEmaBuffer.cfg`, `BufferSettled`: the copy into the shared buffer is asynchronous and nothing waits
  for it before the worker is told to read, also with `max_pending_updates = 0`.
* `MCEmaResumeSkip.cfg`, `PicksStepBelowSkip`: `load()` compares the warm-up with the largest EMA step where
  its comment speaks of the largest common step; training restarts from scratch
  although a usable checkpoint exists.
* `MCPackedBinaryCapacity.cfg`, `CapacitySuffices`: the capacity test is about all ranks together, the strides
  are not; a dataset that passes can leave one rank short.
* `MCBatchProcessorLate.cfg`, `NothingLeftBehind`: `submit_request` reads the flag under the lock but puts the
  request after it has released it.

Smaller divergences that the models contain but no run states: `load_step`, which
`low_bits_training/config/job_config.py` sets to `None`, is taken literally by
`load()` (`LoadRaises`); `save_aligned_checkpoint` calls a method `Trainer` does not
have, after the upload thread has started (`ConstructorReturns`), and a `close()`
that raises leaves that thread running for ever (`Abandoned`); `max()` of an empty list in `EmaResume`'s `LoadRaises`; a
timeout in `update_ema` is not caught and ends training (`TimesOut`).

## 5. What is proved

`BatchResumeProofs` proves, for all values of `GA`, `Steps`, `Interval`,
`Cutoff`, `DataLen`, `Devices`, `MaxCrashes` and `MaxSignals` allowed by
`ConstantsAssumption` (which TLC evaluates in `resume`):

| theorem | statement |
|---|---|
| `Invariance` | `Spec => []IInv` |
| `TypeCorrect` | `Spec => []TypeOK` |
| `ExactlyOnceDelivery` | `Spec => []WeightsExact` |
| `AlignedCheckpoints` | `Spec => []CheckpointsAligned` |
| `NoAdapterError` | `Spec => []AdapterNeverRaises` |
| `FinalStepDurable` | `Spec => []FinalStepSaved` |
| `RefinesExactlyOnce` | `Spec => ImplementsExactlyOnce` |

`WeightsExact` is not inductive: it says nothing of the batch the generator
holds, of the loader's position, nor of the accumulation window. `IInv` adds them
through one number, `Delivered`, the batches that the training loop has received:
the batches of the steps taken plus those of the current window. `GeneratorInv`
ties each suspension point of the generator to it. When the generator is about to
promote its lookahead, the position is `Delivered + 1`, the captured state is
`Delivered`, the held batch is number `Delivered + 1`; when it is at its last
batch the captured state is gone and the data is used up; and so on. `LoopInv`
says the same of the loop: the window holds the batches after those of the steps
taken, `ntokens` counts them. Checkpoints, in flight or complete, agree with
their step. Each action is then a small computation with `Delivered`, and the
proof has one lemma per action (`StartStepInv`, `OptimizerStepInv`, `SaveInv`,
`LoadStep`, the four of the generator under `GeneratorStep`, the rest under
`EnvironmentStep`). `StepProduct` and `UptoConcat` are the arithmetic and the
sequence fact behind them: `(s + 1) * GA = s * GA + GA`, and the first `m`
batches followed by the next `n` are the first `m + n`.

The refinement (`StepRefines`) takes the steps one by one. An optimizer step is
`ExactlyOnceTraining!Learn`; a save that completes at once, or a background save
that ends, makes steps durable that have been taken (`Persist`, lemma `Persisting`); a load is
`Rollback` to a durable step; all else stutters. It needs one fact more than
`IInv`: a checkpoint in flight is of a step that this process has taken
(`InflightBehind`).

`CheckpointManagerProofs` proves, for all values allowed by `CheckpointAssumption`:

| theorem | statement |
|---|---|
| `Invariant` | `Spec => []IInv` |
| `Consistent` | `Spec => []CheckpointsConsistent` |
| `NewestKept` | `Spec => []NewestSurvives` |
| `WriterSpared` | `Spec => []PurgeSparesWriter` |
| `LoadFailsOnModelOnly` | `Spec => []OnlyModelOnlyFails` |
| `LastStepSaved` | `Spec => []LastStepDurable` |
| `ResumesNewest` | `Spec => ResumesFromNewest` |

The invariant has two halves. `Base` holds whatever is configured: where the loop
is (`Loop`), how `staging`, the copy, the writer and `saveFuture` belong together
(`Saves`), and that the copy being staged is of the step whose save it is, because
the next optimizer step waits for it. `Kept` holds only with `EnoughReplicas` and
is about the folder. `durable` is the checkpoint completed last, and the question
is how many directories can lie above it, since the purge counts directories and
not complete checkpoints. `Above` collects them. A step of the interval above
`durable` is the one being written or the one a failed save left; any other step
above `durable` was the last step of a process that a signal ended. So there is at
most one of the interval, and no more of the others than signals (`Early`,
`Signals`). With a replica for each of these and one for `durable`, what
`_purge_stale_checkpoints` queues is below `durable` (`Harmless`, `Purges`), which
gives `NewestKept` and `WriterSpared` at once; that a load finds `durable`
(`NewestFound`) follows because nothing above it has its `.metadata`. `Contents`, in
`Base`, says which checkpoints are model-only: only that of the configured last step,
since `lastSaveModelOnly` and `steps < Steps` exclude each other (`ContentsStep`).
That makes every other checkpoint loadable, also one that a signal brought about. The part of
the proof about `purge` is about the sorted list of directories and its length, for
which `LeastElement` and `OrderExists` (every finite set of steps has an ascending
enumeration) are stated; induction over data is replaced by a least counterexample.

`EmaCheckpointProofs` proves, for all values allowed by `EmaAssumption`:

| theorem | statement |
|---|---|
| `Invariant` | `Spec => []IInv` |
| `PendingCounts` | `Spec => []PendingExact` |
| `UpdatesOwnStep` | `Spec => []UpdateReadsItsStep` |
| `StateReady` | `Spec => []WorkerStateReady` |
| `SavesWritten` | `Spec => []EverySaveWritten` |
| `ClosedWorkerGone` | `Spec => []ClosedMeansGone` |

Everything rests on the counts. `Outstanding(a)` is the number of requests of kind
`a` in the command queue, in the worker and in the reply queue. `Counted` says that
`pending[a]` is never less, through timeouts, the death of the worker and
`force_close` emptying the queue, and that for updates and saves it is equal while
the worker lives. Each step moves a request from one of the three places to the
next, so this is a lemma about what `Append` and `Tail` do to the number of
occurrences in a queue. The manager stages an update only when none is pending;
hence none is outstanding, and the buffer it overwrites is read by nobody
(`Fresh`). `save` waits for pending updates, so a SAVE that is queued has no UPDATE
before it and meets the average of its own step, and a LOAD is queued behind the
first UPDATE (`QueueOrder`). `Updated` and `SaveCalled` carry what `update_ema` has
achieved to `save`. `EverySaveWritten` is about runs without an incident: there the
manager stays on the way it is meant to go (`OnCourse`), every step that was due
and whose save is over is on disk or on its way there (`SavesDue`), and at the end
nothing is on its way, since the counts are zero (`NonePending`).

The same module extends `EmaResume` and proves, for all values allowed by
`EmaResumeAssumption`:

| theorem | statement |
|---|---|
| `ResumesWithEma` | `ResumeSpec => []ResumedWithEma` |
| `ResumeKeepsProgress` | `ResumeSpec => KeepsCommonProgress` |

Both come from what `ChosenStepFacts` says of the step that `load()` chooses. If the
warm-up reaches beyond the newest EMA checkpoint, it is the newest normal step within
the warm-up, and every step that both stores have is among those; otherwise it is the
newest that both have. `LargestStep`, that `Max` of a non-empty set of steps is in it
and bounds it, is proved from the least element of the distances to the last step.

`PackedBinaryProofs` proves, for all jobs allowed by `PackedAssumption` (any list of
shards, any limit, any number of ranks, workers, steps and crashes, any batch size):

| theorem | statement |
|---|---|
| `ReadOnce` | `Spec => []WithoutReplacement` |
| `RoundsBalanced` | `Spec => []EpochsBalanced` |
| `AllAreRead` | `Spec => []NothingLeftOut` |

Two correspondences carry the proof. The sums are ordered, so the shards that end
before a sample are an initial segment of all shards (`InitialSegment`), whose size
is what `bisect_right` returns (`BisectFacts`); hence every sample number is the
number of one window and every window that of one sample, empty shards or not
(`WindowOfSample`, `SampleOfWindow`). And `r * num_workers + w + c * Stride` is a
number in a mixed radix: quotient and remainder give back rank, worker and cursor
(`Digits`), so two places never read the same sample (`SampleAtDistinct`) and every
sample is at a place (`PlaceOfSample`).

The invariant then has to say only what the cursors tell (`Reads`): each of a
worker's samples was read `e` times, those before the cursor once more, where `e` is
0 unless the dataset is repeated, and nothing beyond `num_samples` was read. It is
stated of the running job and of the checkpoint, since a crash puts the one in the
place of the other. The step that needs an argument is `TrainStep`: a batch may be
longer than a worker's range, wrap several times and end in the middle, and the
cursor stays at the end of a round until another sample is asked for.
`ReadsInRounds` counts how often such a batch reads a given sample, `DrawsHere` and
`EpochsStay` turn that into the counts of the worker that was turned to and of the
others. TLC has checked the invariant on the instance of `packed` with batches of 5
added, longer than every range.

`BatchProcessorProofs` proves, for all values allowed by
`BatcherAssumption`:

| theorem | statement |
|---|---|
| `CountExact` | `Spec => []UnfinishedExact` |
| `OneAnswer` | `Spec => []AnsweredAtMostOnce` |
| `WaitsForPending` | `Spec => []ShutdownWaits` |

A request is in one place at a time: in the queue, in the worker's batch, or out of
both (`Places`). Nothing in the queue has had its callback touched, and what is in a
batch that no loop has gone over yet has not either (`Fresh`, `Rounds`). While a loop
goes over the batch, the requests before `at` are done with and those after it are
`Fresh` (`Served`, `Serving`). This is what keeps the handlers apart, with no guard
on who has been called: the handler inside the loop is reached only by an exception
that comes before the callback's thread is started, since `_safe_callback` swallows
all others; the one around the batch is reached only from `generate()` and what
precedes the loop, so the round it begins finds every request fresh; and the one of
`_process_queue` needs a `task_done` too many, which the exact count rules out. A
request that a shutdown has promised to wait for is `Served` or still in one of the
two places (`Promises`), and the count says that both are empty when `join()` returns.

`TrainingRanksProofs` proves, for all values of `WorldSize`, `Steps`, `GA`,
`LogFreq`, `Interval` and `MaxAhead` allowed by `RankSizes`:

| theorem | statement |
|---|---|
| `CheckpointsWhole` | `Spec => []WholeCheckpoints` |
| `AgreedEndsSaved` | `Spec => []AgreedEndIsSaved` |
| `KilledMeansSplit` | `Spec => []KilledOnlyWhenSplit` |

`WholeCheckpoints` needs to know why ranks that are at different steps cannot
complete a save together, although their calls match. A rank's files are written
after it has waited for its device, and the device gets there only when every rank
has enqueued all microbatches of that step (`Waited`, `DeviceBound`, `Position`). A
rank whose files the coordinator knows of is still in the same save, since the
coordinator's answer is what ends it (`Phases`, `Lockstep`: a save is three
collectives). So the coordinator at step `a` and the rank at step `b` have each
seen the other enqueue at least as much, and `a = b`. `AgreedEndIsSaved` follows
from `Goals` and `Ends`: a rank that leaves at its goal has been through `Commit`
of that step, and with it the coordinator.

`KilledOnlyWhenSplit` says that ranks with one goal and the same data are never
stuck (`NeverStuck`). Its invariant is `KInv`, which TLC has checked on the instance
of `ranks` and on one of three ranks. It fixes, for each rank by itself (`Steady`), what the rank's place tells of its calls and of the devices: how many
microbatches it has enqueued (`Progress`), three control collectives for each step
that was due to be saved up to here (`SaveCalls`, counted by `Saves`), one barrier
after step 1 (`BarrierCalls`), devices that have finished every logged and every
saved step it is past (`Waits`). If the goals are equal, these are the same functions
of the place for all ranks. Now let all present ranks be blocked and take the one
whose step is least. Within that step nobody can be blocked: the devices can go on
unless a rank has left, and one that left at the goal had saved, so its devices
had finished, while one that ran out of data is in the last step and has passed
every earlier wait. Past the microbatches the devices have finished the step, and
every other rank has made the collective calls that a save or the barrier waits
for. The invariant makes no assumption about when a signal is handled or how often
a goal has moved; that goals differ is the only thing a signal can do.

`SRStreamsProofs` proves, for all values allowed by `SRSizes` and `SRHeadroom`:

| theorem | statement |
|---|---|
| `SeedsDistinct` | two streams of a kind have different seeds, although `SeedFor` wraps |
| `SignedRoundTrip` | `AsUint(AsSigned(v)) = v` for every `v` below the modulus |
| `NoCheckRaises` | `Spec => []NeverCorrupt` |
| `DrawsDistinct` | `Spec => []CoordinatesDistinct` |
| `Replays` | `Spec => ReplaysExactly` |

`SeedsDistinct` rests on `RowInjective` (rows of `Keys[k]` slots do not overlap) and
on `ModEqual` (numbers that differ by less than the modulus and agree modulo it are
equal); `SRSizes` states that all rows together are fewer than the modulus, which
the constructors check.

The rest is one invariant, `IInv`. A stream's `n`-th invocation of a phase has a
coordinate that depends on nothing but `n`: its seed, and `At(n - 1)`, the base plus
`n - 1` strides (`History`, `Follows`). The other conjuncts keep the counters there.
`Position` says that a running stream's counter is at `At(pos - launched)`, the
first invocation not executed yet, or is held by a capture until `EndCapture` puts it
back (`Held`); and that what it has drawn and will draw in this microbatch fits what the steps
and microbatches so far allow (`Budget`). `Room` shows that the headroom the
constructors demand holds the budget of the whole job, so nothing wraps and
`Reserve` never raises. `HeadCount` ties the head's invocations to the microbatches
since `origin`, which is what `validate_progress` recomputes. `Written` says the same
of a checkpoint, which is why its seeds, its counters and its progress pass every
test of a load (`LoadCurrent`), and `OneSeed` that processes and checkpoints of one
phase have one seed. A v1 table is the exception it looks like: one rank drew for
all, so the others go on a step's draws later; `IInvOf(m)` carries in `m` whether the
job began with such a table, and `Extra` is that offset.

`Tells` then is `SeedsDistinct` across streams and the injectivity of `At` within
one. `Replays` follows since two histories of one seed agree as far as both go
(`FollowsPrefix`) and no step but the start of a phase changes a seed or shortens a
history (`PhaseKeeps`).

`WeightCachesProofs` proves, for all values allowed by `CacheSizes`:

| theorem | statement |
|---|---|
| `DgradCurrent` | `Spec => []DgradUsesCurrentWeights` |
| `HeadCurrent` | `Spec => []HeadWeightsCurrent` |

The properties speak of the last read only; the invariant adds what a read will
find. All forwards of a microbatch come before its backwards, so the objects
that hold the pending layers' addresses live together and the addresses differ
(`Saved`). The hook has left the columnwise cache empty, and in the first
microbatch no pending layer's address is in it (`Cols`); in later ones it may be,
but what is found is of the same version. That is as much as holds: that the
weights are the layer's own fails in the second microbatch (`weights_qkv`). The
head's copy is current if its key carries the step that runs (`HeadCache`).

The last section of `CheckpointManagerProofs` proves of `RemoteSynchronizer`, for any
number of files allowed by `SomeFiles`:

| theorem | statement |
|---|---|
| `NothingLeftBehind` | `SyncSpec => []NoDataLeftBehind` |

`Statused` says who has set the status at which place of `main`, `Wait` that `main`
does not pass `stop()` before the thread has returned. `Last` is the reason it
works: the last call begins only after `stop()` has set the status, so what it lists
contains all that was due, and it ends with that uploaded or with a failure.

Only model-checked is liveness (`EveryRunEnds` of both checkpointers,
`EveryJobEnds`, `ProcessEnds`, `TakenIsAnswered`, `ShutdownEnds`), which rests on
fairness and `ENABLED` and is beyond the installed provers. That the sums in
`_cumulative_samples` are those of the shards' sizes is not proved but given: a job of
`PackedBinary` has the list of sums as its datum, and what `__init__` does to get it,
a running sum of numbers that are not negative, appears as its being ordered.

The properties of section 4 are refuted by TLC and stay with it.

## 6. Not modelled

* Numerics, kernels, models, optimizer and schedule: floating-point behaviour is
  outside TLA+.
* `ft_*` replicas, HF export and initial-load paths of the checkpoint manager.
* Manifest files and the memmap cache of the packed dataset; a changed number of
  ranks, which an assertion rejects.
* Streaming datasets: the order of samples belongs to external libraries.
* Of the ranks: the first-step checkpoint, validation, asynchronous saves, pipeline
  stages, and the collectives of the metrics, whose results a host reads at once and
  only in logged steps.
* Of the caches in the FP4 layers: scratch buffers and graph caches, which hold
  nothing from one step to the next; the leases of quantisation state in
  `fused_te_linear.py` 3844-4023, which are taken and returned within a call; the
  opt-in cache of `mxfp4_fused_linear.py` 2754, whose key contains the address of the
  storage and which only `tools/run_nvblog_megatron_bridge_repro.py` switches on,
  emptying it after each step.
* `RemoteGenerator`, of which the repository constructs none, and the conversion of
  checkpoints, a tool that runs on its own.

The map covers a small share of the repository's lines. Most of them are vendored
(`TransformerEngine`, most of `torchtitan_submodule`) or kernels and their dispatch
(`quantization`, `fp4_runtime`, `cce`): sequential tensor code whose correctness is
numerical. The parts with state that outlives a call, or with more than one actor,
are the ones modelled here.

`PROJECT.json` ("components") lists every part with the reason.

## 7. Plan

What is left: `ConvertCheckpoint`, that is interrupted conversions.
