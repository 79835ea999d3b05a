-------------------------- MODULE CheckpointManager --------------------------
(***************************************************************************)
(* torchtitan's CheckpointManager (components/checkpoint.py) as the        *)
(* training loop drives it: synchronous and asynchronous saves, staging    *)
(* into pinned memory, the purge thread that deletes old checkpoints, the  *)
(* choice of the checkpoint to resume from, close(), and processes that    *)
(* are killed and launched again on the same folder.                       *)
(*                                                                         *)
(* A checkpoint is the directory step-N.  Weights are represented by the   *)
(* number of optimizer steps behind them.  The job is one process: DCP's   *)
(* collectives keep the ranks of a save together.                          *)
(***************************************************************************)
EXTENDS Integers, FiniteSets, Sequences

CONSTANTS
  Steps,          \* job_config.training.steps as configured
  Configs,        \* the [checkpoint] sections considered, see Checkpoint
  MaxRestarts,    \* bound: how often the job is launched again
  MaxFailures,    \* bound: how often writing a checkpoint fails
  MaxSignals      \* bound: how many exit signals arrive

\* A [checkpoint] section.  keep_latest_k = 0 keeps everything and __init__
\* rejects 1; load_step is "latest" (-1) or "unset" (None).
Checkpoint ==
  [interval: Nat \ {0},
   async_mode: {"disabled", "async", "pinned"},
   keep_latest_k: Nat \ {1},
   enable_first_step_checkpoint: BOOLEAN,
   last_save_model_only: BOOLEAN,
   load_step: {"latest", "unset"}]

ASSUME CheckpointAssumption ==
  /\ Steps \in Nat \ {0}
  /\ Configs \subseteq Checkpoint
  /\ MaxRestarts \in Nat /\ MaxFailures \in Nat /\ MaxSignals \in Nat

VARIABLES
  config,      \* the [checkpoint] section of this job
  phase,       \* where the process is
  outcome,     \* why train() was left
  step,        \* Trainer.step
  steps,       \* job_config.training.steps, lowered by end_training_early
  weights,     \* optimizer steps behind the weights in memory
  exitRequested,  \* train_step is to end the training early
  lastSaveModelOnly,  \* CheckpointManager.last_save_model_only
  saveFuture,  \* CheckpointManager.save_future: none, or what became of it
  staging,     \* CheckpointManager.staging
  copying,     \* the stager is still copying the weights to pinned memory
  writing,     \* step of the directory DCP is writing, 0 for none
  disk,        \* state of each step directory
  content,     \* what the files of each step directory hold
  purgeQueue,  \* CheckpointManager.purge_queue
  purging,     \* step of the directory the purge thread is deleting, 0 for none
  purger,      \* CheckpointManager.purge_thread
  durable,     \* history: the step completed last, 0 for none
  restarts, failures, signals  \* history: events so far

loopVars  == <<step, steps, weights, exitRequested, lastSaveModelOnly>>
saveVars  == <<saveFuture, staging, copying, writing>>
diskVars  == <<disk, content, durable>>
purgeVars == <<purgeQueue, purging, purger>>
jobVars   == <<config, restarts, failures, signals>>
vars == <<phase, outcome, loopVars, saveVars, diskVars, purgeVars, jobVars>>

AllSteps == 1..Steps

Nothing == [versions |-> {}, full |-> FALSE]

Terminate == 0  \* the message that ends the purge thread

Init ==
  /\ config \in Configs
  /\ phase = "down" /\ outcome = "none"
  /\ step = 0 /\ steps = Steps /\ weights = 0 /\ exitRequested = FALSE
  /\ lastSaveModelOnly = config.last_save_model_only
  /\ saveFuture = "none" /\ staging = FALSE /\ copying = FALSE /\ writing = 0
  /\ disk = [s \in AllSteps |-> "absent"]
  /\ content = [s \in AllSteps |-> Nothing]
  /\ durable = 0
  /\ purgeQueue = << >> /\ purging = 0 /\ purger = "none"
  /\ restarts = 0 /\ failures = 0 /\ signals = 0

\* Deviation: close() joins the purge thread without the Terminate message.
CloseSilently(why) ==
  /\ phase' = "closing"
  /\ outcome' = why
  /\ UNCHANGED purgeQueue

\* The process leaves train() and enters main()'s finally clause: close()
\* asks the purge thread to terminate, after the deletions already queued.
Close(why) ==
  /\ phase' = "closing"
  /\ outcome' = why
  /\ purgeQueue' = IF purger = "alive" THEN Append(purgeQueue, Terminate)
                                       ELSE purgeQueue

-----------------------------------------------------------------------------
(* Loading                                                                 *)

Present == {s \in AllSteps : disk[s] # "absent"}

\* The directories that _find_load_step considers: those with .metadata.
WithMetadata == {s \in AllSteps : disk[s] \in {"complete", "torn"}}

\* Deviation: the first directory found is taken.
Smallest(S) == CHOOSE s \in S : \A t \in S : t >= s

Largest(S) == CHOOSE s \in S : \A t \in S : t <= s

\* The folder exists once a save has created a directory in it; the purge
\* thread never deletes the newest one.
FolderExists == Present # {}

\* Whether dcp.load finds in directory s all the states it is asked for.
Loadable(s) == disk[s] = "complete" /\ content[s].full

\* __init__ starts the purge thread.
StartPurger ==
  /\ purger' = IF config.keep_latest_k > 0 THEN "alive" ELSE "none"
  /\ UNCHANGED purging

\* load() returns False: there is no folder, or it holds no checkpoint.
LoadNothing ==
  /\ phase = "down"
  /\ IF config.load_step = "latest" THEN WithMetadata = {} ELSE ~FolderExists
  /\ phase' = "loop" /\ outcome' = "none"
  /\ step' = 0 /\ weights' = 0
  /\ StartPurger
  /\ UNCHANGED <<steps, exitRequested, lastSaveModelOnly, saveVars, diskVars,
                 purgeQueue, jobVars>>

\* load() restores the newest checkpoint.
LoadLatest ==
  /\ phase = "down" /\ config.load_step = "latest"
  /\ WithMetadata # {} /\ Loadable(Largest(WithMetadata))
  /\ phase' = "loop" /\ outcome' = "none"
  /\ step' = Largest(WithMetadata)
  /\ weights' = Largest(WithMetadata)
  /\ StartPurger
  /\ UNCHANGED <<steps, exitRequested, lastSaveModelOnly, saveVars, diskVars,
                 purgeQueue, jobVars>>

\* load() raises: the directory is damaged or lacks states that are asked for,
\* or load_step names the directory step-None.
LoadRaises ==
  /\ phase = "down"
  /\ IF config.load_step = "latest"
     THEN WithMetadata # {} /\ ~Loadable(Largest(WithMetadata))
     ELSE FolderExists
  /\ phase' = "closing" /\ outcome' = "load_error"
  /\ StartPurger
  /\ purgeQueue' = IF config.keep_latest_k > 0 THEN <<Terminate>> ELSE << >>
  /\ UNCHANGED <<loopVars, saveVars, diskVars, jobVars>>

-----------------------------------------------------------------------------
(* The training loop                                                       *)

\* should_continue_training holds: the next step begins.
StartStep ==
  /\ phase = "loop" /\ step < steps
  /\ phase' = "train_step"
  /\ step' = step + 1
  /\ UNCHANGED <<outcome, steps, weights, exitRequested, lastSaveModelOnly, saveVars,
                 diskVars, purgeVars, jobVars>>

\* Deviation: the last checkpoint of a training that ends early may be model-only.
EndEarlyModelOnly ==
  /\ steps' = IF exitRequested THEN step ELSE steps
  /\ UNCHANGED lastSaveModelOnly

\* end_training_early, if a signal asks for it: this step becomes the last one,
\* and its checkpoint is a full one whatever the section says.  (After a NaN loss
\* and at the cutoff step train_step calls it in the same way.)
EndTrainingEarly ==
  IF exitRequested THEN steps' = step /\ lastSaveModelOnly' = FALSE
                   ELSE UNCHANGED <<steps, lastSaveModelOnly>>

\* Deviation: optimizers.step() does not wait for the staging.
UpdateWhileStaging ==
  /\ phase = "train_step"
  /\ phase' = "save"
  /\ weights' = weights + 1
  /\ content' = IF copying
                THEN [content EXCEPT ![writing].versions = @ \cup {weights + 1}]
                ELSE content
  /\ EndTrainingEarly
  /\ UNCHANGED <<outcome, step, exitRequested, saveVars, disk, durable,
                 purgeVars, jobVars>>

\* train_step: maybe_wait_for_staging, optimizers.step() and, after a signal, the
\* end of the training.  A copy still running would see the new weights.
OptimizerStep ==
  /\ phase = "train_step"
  /\ staging => ~copying
  /\ staging' = FALSE
  /\ phase' = "save"
  /\ weights' = weights + 1
  /\ content' = IF copying
                THEN [content EXCEPT ![writing].versions = @ \cup {weights + 1}]
                ELSE content
  /\ EndTrainingEarly
  /\ UNCHANGED <<outcome, step, exitRequested, saveFuture, copying, writing,
                 disk, durable, purgeVars, jobVars>>

\* DataloaderExhaustedError ends the loop without a save of the last step.
DataExhausted ==
  /\ phase = "train_step"
  /\ Close("exhausted")
  /\ UNCHANGED <<loopVars, saveVars, diskVars, purging, purger, jobVars>>

TrainingCompleted ==
  /\ phase = "loop" /\ step >= steps
  /\ Close("completed")
  /\ UNCHANGED <<loopVars, saveVars, diskVars, purging, purger, jobVars>>

-----------------------------------------------------------------------------
(* save()                                                                  *)

LastStep == step = steps

\* Deviation: only the interval counts.
OnInterval == step % config.interval = 0

\* _should_save.
ShouldSave == (step = 1 /\ config.enable_first_step_checkpoint) \/ LastStep \/ step % config.interval = 0

SkipSave ==
  /\ phase = "save" /\ ~ShouldSave
  /\ phase' = "loop"
  /\ UNCHANGED <<outcome, loopVars, saveVars, diskVars, purgeVars, jobVars>>

\* _async_wait re-raises the error of the save in flight.
SaveRaises ==
  /\ phase = "save" /\ ShouldSave
  /\ saveFuture = "failed"
  /\ Close("save_error")
  /\ UNCHANGED <<loopVars, saveVars, diskVars, purging, purger, jobVars>>

\* DCP is given the states of this step.
Submit(full) ==
  /\ writing' = step
  /\ content' = [content EXCEPT ![step] = [versions |-> {weights}, full |-> full]]

\* _async_wait has returned: no earlier save is in flight or failed.
AsyncWait == saveFuture \in {"none", "ok"}

\* The last step, and every step without async mode, is saved by dcp.save.
BeginSyncSave ==
  /\ phase = "save" /\ ShouldSave
  /\ LastStep \/ config.async_mode = "disabled"
  /\ AsyncWait
  /\ saveFuture' = IF config.async_mode = "async" THEN "none" ELSE saveFuture
  /\ Submit(LastStep => ~lastSaveModelOnly)
  /\ phase' = "dcp_save"
  /\ UNCHANGED <<outcome, loopVars, staging, copying, disk, durable, purgeVars,
                 jobVars>>

\* dcp.async_save: with pinned memory the staging, too, is in the background.
BeginAsyncSave ==
  /\ phase = "save" /\ ShouldSave
  /\ ~LastStep /\ config.async_mode # "disabled"
  /\ AsyncWait
  /\ Submit(TRUE)
  /\ saveFuture' = "running"
  /\ staging' = (config.async_mode = "pinned")
  /\ copying' = (config.async_mode = "pinned")
  /\ phase' = "purge"
  /\ UNCHANGED <<outcome, loopVars, disk, durable, purgeVars, jobVars>>

\* The numbers of S in their order.
Sorted(S) ==
  CHOOSE q \in [1..Cardinality(S) -> S] : \A i, j \in DOMAIN q : i < j => q[i] < q[j]

\* Deviation: the list is sorted the other way round.
AllButOldest(n) == Sorted({s \in Present : Cardinality({t \in Present : t < s}) >= n})

\* The directories other than the n newest ones, oldest first.
Stale(n) == Sorted({s \in Present : Cardinality({t \in Present : t > s}) >= n})

\* Deviation: one directory fewer is kept.
PurgeOneMore ==
  /\ phase = "purge"
  /\ purgeQueue' = IF config.keep_latest_k > 0 THEN purgeQueue \o Stale(config.keep_latest_k - 1)
                                      ELSE purgeQueue
  /\ phase' = "loop"
  /\ UNCHANGED <<outcome, loopVars, saveVars, diskVars, purging, purger, jobVars>>

\* _purge_stale_checkpoints: every directory but the newest keep_latest_k,
\* complete or not, goes to the purge thread.
PurgeStaleCheckpoints ==
  /\ phase = "purge"
  /\ purgeQueue' = IF config.keep_latest_k > 0 THEN purgeQueue \o Stale(config.keep_latest_k)
                                      ELSE purgeQueue
  /\ phase' = "loop"
  /\ UNCHANGED <<outcome, loopVars, saveVars, diskVars, purging, purger, jobVars>>

-----------------------------------------------------------------------------
(* DCP, in the background or under dcp_save (external to the repository)   *)

StagingDone ==
  /\ copying
  /\ copying' = FALSE
  /\ UNCHANGED <<phase, outcome, loopVars, saveFuture, staging, writing, diskVars,
                 purgeVars, jobVars>>

WriterMkdir ==
  /\ writing # 0 /\ ~copying
  /\ disk[writing] = "absent"
  /\ disk' = [disk EXCEPT ![writing] = "partial"]
  /\ UNCHANGED <<phase, outcome, loopVars, saveVars, content, durable, purgeVars,
                 jobVars>>

\* Who waits for the write learns how it ended: dcp_save returns to save(),
\* or the future is resolved.
WriterDone ==
  /\ writing # 0 /\ ~copying
  /\ disk[writing] # "absent"
  /\ disk' = [disk EXCEPT ![writing] = "complete"]
  /\ durable' = writing
  /\ writing' = 0
  /\ \/ /\ phase = "dcp_save"
        /\ phase' = IF LastStep THEN "loop" ELSE "purge"
        /\ UNCHANGED saveFuture
     \/ /\ phase # "dcp_save"
        /\ saveFuture' = "ok"
        /\ UNCHANGED phase
  /\ UNCHANGED <<outcome, loopVars, staging, copying, content, purgeVars, jobVars>>

\* An I/O error leaves an incomplete directory.
WriterFails ==
  /\ writing # 0 /\ ~copying
  /\ failures < MaxFailures
  /\ failures' = failures + 1
  /\ writing' = 0
  /\ \/ /\ phase = "dcp_save"
        /\ Close("save_error")
        /\ UNCHANGED saveFuture
     \/ /\ phase # "dcp_save"
        /\ saveFuture' = "failed"
        /\ UNCHANGED <<phase, outcome, purgeQueue>>
  /\ UNCHANGED <<loopVars, staging, copying, diskVars, purging, purger, config,
                 restarts, signals>>

-----------------------------------------------------------------------------
(* The purge thread, the end of the process, and its environment           *)

\* shutil.rmtree begins: files go in any order, .metadata among them.
PurgeBegins ==
  /\ purger = "alive" /\ purging = 0
  /\ purgeQueue # << >> /\ Head(purgeQueue) # Terminate
  /\ purging' = Head(purgeQueue)
  /\ purgeQueue' = Tail(purgeQueue)
  /\ \E d \in IF Head(purgeQueue) \in WithMetadata THEN {"torn", "partial"}
                                                   ELSE {disk[Head(purgeQueue)]} :
       disk' = [disk EXCEPT ![Head(purgeQueue)] = d]
  /\ UNCHANGED <<phase, outcome, loopVars, saveVars, content, durable, purger,
                 jobVars>>

\* rmtree ends; with ignore_errors it may leave the directory behind.
PurgeEnds ==
  /\ purging # 0
  /\ \/ disk' = [disk EXCEPT ![purging] = "absent"]
     \/ UNCHANGED disk
  /\ purging' = 0
  /\ UNCHANGED <<phase, outcome, loopVars, saveVars, content, durable, purgeQueue,
                 purger, jobVars>>

PurgerTerminates ==
  /\ purger = "alive" /\ purging = 0
  /\ purgeQueue # << >> /\ Head(purgeQueue) = Terminate
  /\ purgeQueue' = Tail(purgeQueue)
  /\ purger' = "none"
  /\ UNCHANGED <<phase, outcome, loopVars, saveVars, diskVars, purging, jobVars>>

\* close() has joined the purge thread; os._exit does not wait for a save that
\* is still in flight.
Exit ==
  /\ phase = "closing" /\ purger = "none"
  /\ phase' = "exited"
  /\ writing' = 0 /\ copying' = FALSE
  /\ UNCHANGED <<outcome, loopVars, saveFuture, staging, diskVars, purgeVars,
                 jobVars>>

Signal ==
  /\ phase \in {"loop", "train_step", "save", "dcp_save", "purge"}
  /\ signals < MaxSignals
  /\ signals' = signals + 1
  /\ exitRequested' = TRUE
  /\ UNCHANGED <<phase, outcome, step, steps, weights, lastSaveModelOnly, saveVars,
                 diskVars, purgeVars, config, restarts, failures>>

\* The process is killed, or has exited, and the job is launched again.
Relaunch ==
  /\ phase # "down" /\ restarts < MaxRestarts
  /\ restarts' = restarts + 1
  /\ phase' = "down" /\ outcome' = "none"
  /\ step' = 0 /\ steps' = Steps /\ weights' = 0 /\ exitRequested' = FALSE
  /\ lastSaveModelOnly' = config.last_save_model_only
  /\ saveFuture' = "none" /\ staging' = FALSE /\ copying' = FALSE /\ writing' = 0
  /\ purgeQueue' = << >> /\ purging' = 0 /\ purger' = "none"
  /\ UNCHANGED <<diskVars, config, failures, signals>>

Stopped ==
  /\ phase = "exited"
  /\ UNCHANGED vars

Trainer ==
  \/ LoadNothing \/ LoadLatest \/ LoadRaises
  \/ StartStep \/ OptimizerStep \/ TrainingCompleted
  \/ SkipSave \/ SaveRaises \/ BeginSyncSave \/ BeginAsyncSave
  \/ PurgeStaleCheckpoints \/ Exit

Writer == StagingDone \/ WriterMkdir \/ WriterDone

Purger == PurgeBegins \/ PurgeEnds \/ PurgerTerminates

Environment == DataExhausted \/ WriterFails \/ Signal \/ Relaunch \/ Stopped

Next == Trainer \/ Writer \/ Purger \/ Environment

\* Each thread of a live process runs, and a write ends by itself unless it
\* fails; nothing is assumed about failures, signals and relaunches.
Fairness == WF_vars(Trainer) /\ WF_vars(Writer) /\ WF_vars(Purger)

Spec == Init /\ [][Next]_vars /\ Fairness

-----------------------------------------------------------------------------
(* Properties                                                              *)

\* The values the variables range over.
TypeOK ==
  /\ config \in Configs
  /\ phase \in {"down", "loop", "train_step", "save", "dcp_save", "purge",
                "closing", "exited"}
  /\ outcome \in {"none", "completed", "exhausted", "save_error", "load_error"}
  /\ step \in 0..Steps /\ steps \in 0..Steps /\ weights \in 0..Steps
  /\ exitRequested \in BOOLEAN /\ lastSaveModelOnly \in BOOLEAN
  /\ saveFuture \in {"none", "running", "ok", "failed"}
  /\ staging \in BOOLEAN /\ copying \in BOOLEAN /\ writing \in 0..Steps
  /\ disk \in [AllSteps -> {"absent", "partial", "torn", "complete"}]
  /\ content \in [AllSteps -> [versions: SUBSET AllSteps, full: BOOLEAN]]
  /\ durable \in 0..Steps
  /\ purgeQueue \in Seq(AllSteps \cup {Terminate})
  /\ purging \in 0..Steps /\ purger \in {"none", "alive"}
  /\ restarts \in 0..MaxRestarts /\ failures \in 0..MaxFailures
  /\ signals \in 0..MaxSignals

\* The files of checkpoint step-N hold the weights after N steps, all of them
\* of the same step, although pinned staging copies them in the background
\* while the next step is computed (maybe_wait_for_staging).
CheckpointsConsistent ==
  /\ TypeOK
  /\ \A s \in AllSteps : content[s] # Nothing => content[s].versions = {s}

\* _purge_stale_checkpoints counts incomplete directories as replicas.  There is
\* room for the newest checkpoint among them if keep_latest_k leaves one place for
\* the save in flight and one for each signal, whose last save may have been cut
\* short at a step off the interval.  The properties below assume it; with fewer
\* replicas the thread can delete the newest checkpoint, and then even the
\* directory of a save that is under way.
EnoughReplicas == config.keep_latest_k = 0 \/ config.keep_latest_k >= signals + 2

\* The checkpoint completed last is never deleted.
NewestSurvives == EnoughReplicas /\ durable # 0 => disk[durable] = "complete"

\* The directory being written is never queued for deletion, nor being deleted.
PurgeSparesWriter ==
  EnoughReplicas /\ writing # 0 =>
    writing # purging /\ \A i \in DOMAIN purgeQueue : purgeQueue[i] # writing

\* A relaunched job goes on from the checkpoint completed last, or from the beginning
\* if there never was one: it loses no more work than it must.  It fails to start
\* only once the training has come to its configured end, or without load_step = -1;
\* a job that a signal has ended early is resumed, whatever last_save_model_only says.
ResumesFromNewest ==
  [][EnoughReplicas /\ phase = "down" /\ phase' # "down" =>
       IF phase' = "loop" THEN step' = durable
                          ELSE config.load_step = "unset" \/ durable = Steps]_vars

\* With load_step = -1 a load fails on nothing but the model-only checkpoint that
\* last_save_model_only asks for at the configured end of training: whatever was
\* interrupted or half deleted before, the newest directory with metadata is intact,
\* and model-only saves do not "affect preemption and training resume" (comment in
\* _save_last_step).
OnlyModelOnlyFails ==
  EnoughReplicas /\ outcome = "load_error" /\ config.load_step = "latest" =>
    /\ durable = Steps /\ disk[durable] = "complete"
    /\ ~content[durable].full /\ config.last_save_model_only

\* A run that completes has its last step on disk, complete, before the
\* process starts to close: no save in flight is needed for it.
LastStepDurable ==
  EnoughReplicas /\ outcome = "completed" => disk[step] = "complete"

\* No run hangs: waiting for staging, for the save in flight and for the purge
\* thread ends, so every launched process exits (or is killed).
EveryRunEnds == phase # "down" ~> phase \in {"exited", "down"}

\* The ValueError of __init__ on keep_latest_k = 1: two replicas are enough for
\* the last one to be in the process of being saved.
CompleteCheckpointRemains ==
  durable # 0 => \E s \in AllSteps : disk[s] = "complete"
=============================================================================
