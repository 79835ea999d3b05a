---------------------------- MODULE TrainingRanks ----------------------------
(***************************************************************************)
(* The ranks of one training job: torchtitan's Trainer.train and           *)
(* train_step with low_bits_training's train_step around it, the           *)
(* collectives in which the ranks meet and the exit flag each of them      *)
(* keeps for itself.                                                       *)
(*                                                                         *)
(* A rank's host enqueues the model's collectives on its device and runs   *)
(* ahead of them; it waits for the others only where the code waits: to    *)
(* read the loss of a logged step, in the two collectives of a checkpoint  *)
(* and in the barrier after step 1.  A collective that some rank can no    *)
(* longer join ends in a timeout that kills the job.                       *)
(***************************************************************************)
EXTENDS Integers

CONSTANTS
  WorldSize,   \* ranks of the job
  Steps,       \* training.steps of the configuration
  GA,          \* gradient_accumulation_steps
  LogFreq,     \* metrics.log_freq
  Interval,    \* checkpoint.interval
  MaxAhead     \* bound: microbatches a host runs ahead of its device

ASSUME RankSizes ==
  /\ WorldSize \in Nat \ {0} /\ Steps \in Nat \ {0} /\ GA \in Nat \ {0}
  /\ LogFreq \in Nat \ {0} /\ Interval \in Nat \ {0} /\ MaxAhead \in Nat \ {0}

Rank == 0 .. WorldSize - 1
Coordinator == 0            \* of the checkpoint's planning
Group == {"model", "control", "world"}

VARIABLES
  pc,       \* where each rank's host is
  step,     \* trainer.step of each rank
  micro,    \* microbatches of this step the host has enqueued
  goal,     \* job_config.training.steps as each rank has it
  flag,     \* SignalHandler._exit_requested of each rank
  data,     \* batches each rank's dataloader still has
  calls,    \* collectives each rank has issued on each group
  done,     \* microbatches the devices have finished together
  shards,   \* <<directory, rank, microbatches>>: files written by a save
  meta,     \* directories with a .metadata file: complete checkpoints
  sent,     \* the job has been told to stop
  nanFrom,  \* step from which the loss is NaN
  cutoff    \* job.steps, or -1

host == <<pc, step, micro, goal, data>>
world == <<calls, done>>
disk == <<shards, meta>>
fate == <<nanFrom, cutoff>>
vars == <<host, flag, world, disk, sent, fate>>

Init ==
  /\ pc = [r \in Rank |-> "loop"] /\ step = [r \in Rank |-> 0]
  /\ micro = [r \in Rank |-> 0] /\ goal = [r \in Rank |-> Steps]
  /\ flag = [r \in Rank |-> FALSE]
  /\ data \in [Rank -> {Steps * GA, Steps * GA - 1}]
  /\ calls = [g \in Group |-> [r \in Rank |-> 0]]
  /\ done = 0 /\ shards = {} /\ meta = {} /\ sent = FALSE
  /\ nanFrom \in {2, Steps + 1} /\ cutoff \in {-1, Steps - 1}

Goto(r, place) == pc' = [pc EXCEPT ![r] = place]
At(r, place) == pc[r] = place
Present(r) == pc[r] \notin {"gone", "killed"}

(* A collective ends for a rank when every rank has issued as many.        *)
Joined(g, r) == \A q \in Rank : calls[g][q] >= calls[g][r]
Issue(g, r) == calls' = [calls EXCEPT ![g][r] = @ + 1]
DeviceIdle(r) == done >= calls["model"][r]

ShouldLog(s) == s = 1 \/ s % LogFreq = 0
ShouldSaveUnmoved(r) == step[r] = Steps \/ step[r] % Interval = 0
ShouldSaveAlone(r) == step[r] = goal[r] \/ (r = Coordinator /\ step[r] % Interval = 0)
ShouldSave(r) == step[r] = goal[r] \/ step[r] % Interval = 0
NanSeen(s) == \E l \in nanFrom .. s : ShouldLog(l)

(***************************************************************************)
(* The loop of Trainer.train on one rank                                   *)
(***************************************************************************)
BeginStep(r) ==
  /\ At(r, "loop") /\ step[r] < goal[r]
  /\ step' = [step EXCEPT ![r] = @ + 1]
  /\ micro' = [micro EXCEPT ![r] = 0]
  /\ Goto(r, "step")
  /\ UNCHANGED <<goal, flag, data, world, disk, sent, fate>>

Leave(r) ==
  /\ At(r, "loop") /\ step[r] >= goal[r]
  /\ Goto(r, "out")
  /\ UNCHANGED <<step, micro, goal, flag, data, world, disk, sent, fate>>

(* forward_backward_step enqueues the collectives of a microbatch.         *)
Microbatch(r) ==
  /\ At(r, "step") /\ micro[r] < GA /\ data[r] > 0
  /\ calls["model"][r] < done + MaxAhead
  /\ Issue("model", r)
  /\ micro' = [micro EXCEPT ![r] = @ + 1]
  /\ data' = [data EXCEPT ![r] = @ - 1]
  /\ UNCHANGED <<pc, step, goal, flag, done, disk, sent, fate>>

(* DataloaderExhaustedError: the last step was cancelled, nothing is saved.*)
ExhaustedDeviation(r) ==
  /\ At(r, "step") /\ micro[r] < GA /\ data[r] = 0
  /\ UNCHANGED vars
Exhausted(r) ==
  /\ At(r, "step") /\ micro[r] < GA /\ data[r] = 0
  /\ Goto(r, "out")
  /\ UNCHANGED <<step, micro, goal, flag, data, world, disk, sent, fate>>

(* The optimizer step; a logged step reads the reduced loss on the host.   *)
Optimize(r) ==
  /\ At(r, "step") /\ micro[r] = GA
  /\ ShouldLog(step[r]) => DeviceIdle(r)
  /\ Goto(r, "check")
  /\ UNCHANGED <<step, micro, goal, flag, data, world, disk, sent, fate>>

(* The end of low_bits_training's train_step: end_training_early moves the *)
(* goal of this rank, and of no other.                                     *)
Check(r) ==
  /\ At(r, "check")
  /\ goal' = IF flag[r] \/ NanSeen(step[r]) \/ (cutoff # -1 /\ step[r] >= cutoff)
             THEN [goal EXCEPT ![r] = step[r]] ELSE goal
  /\ Goto(r, "save")
  /\ UNCHANGED <<step, micro, flag, data, world, disk, sent, fate>>

SkipSave(r) ==
  /\ At(r, "save") /\ ~ ShouldSave(r)
  /\ Goto(r, "saved")
  /\ UNCHANGED <<step, micro, goal, flag, data, world, disk, sent, fate>>

(* dcp.save: the plans are gathered and scattered, ...                     *)
Plan(r) ==
  /\ At(r, "save") /\ ShouldSave(r)
  /\ Issue("control", r)
  /\ Goto(r, "plan")
  /\ UNCHANGED <<step, micro, goal, flag, data, done, disk, sent, fate>>

(* ... each rank copies its tensors from the device and writes its files   *)
(* under the directory of its own step, ...                                *)
WriteDeviation(r) ==
  /\ At(r, "plan") /\ Joined("control", r)
  /\ shards' = shards \cup {<<step[r], r, calls["model"][r]>>}
  /\ Issue("control", r)
  /\ Goto(r, "commit")
  /\ UNCHANGED <<step, micro, goal, flag, data, done, meta, sent, fate>>
Write(r) ==
  /\ At(r, "plan") /\ Joined("control", r) /\ DeviceIdle(r)
  /\ shards' = shards \cup {<<step[r], r, calls["model"][r]>>}
  /\ Issue("control", r)
  /\ Goto(r, "commit")
  /\ UNCHANGED <<step, micro, goal, flag, data, done, meta, sent, fate>>

(* ... and the coordinator, told of all files, writes .metadata before it  *)
(* answers the others (its third collective).                              *)
Commit(r) ==
  /\ At(r, "commit")
  /\ IF r = Coordinator
     THEN Joined("control", r) /\ meta' = meta \cup {step[r]}
     ELSE calls["control"][Coordinator] > calls["control"][r] /\ UNCHANGED meta
  /\ Issue("control", r)
  /\ Goto(r, "saved")
  /\ UNCHANGED <<step, micro, goal, flag, data, done, shards, sent, fate>>

(* set_pg_timeouts after step 1 starts with a barrier of all ranks.        *)
NextStep(r) ==
  /\ At(r, "saved") /\ step[r] # 1
  /\ Goto(r, "loop")
  /\ UNCHANGED <<step, micro, goal, flag, data, world, disk, sent, fate>>
EnterBarrier(r) ==
  /\ At(r, "saved") /\ step[r] = 1
  /\ Issue("world", r)
  /\ Goto(r, "barrier")
  /\ UNCHANGED <<step, micro, goal, flag, data, done, disk, sent, fate>>
LeaveBarrier(r) ==
  /\ At(r, "barrier") /\ Joined("world", r) /\ DeviceIdle(r)
  /\ Goto(r, "loop")
  /\ UNCHANGED <<step, micro, goal, flag, data, world, disk, sent, fate>>

(* close(), destroy_process_group and the exit of the process.             *)
Close(r) ==
  /\ At(r, "out")
  /\ Goto(r, "gone")
  /\ UNCHANGED <<step, micro, goal, flag, data, world, disk, sent, fate>>

(***************************************************************************)
(* Devices, signals and the watchdog                                       *)
(***************************************************************************)
DeviceReady == \A r \in Rank : Present(r) /\ calls["model"][r] > done
DeviceRuns ==
  /\ DeviceReady
  /\ done' = done + 1
  /\ UNCHANGED <<host, flag, calls, disk, sent, fate>>

(* scancel, kill or the batch system signals every process of the job;     *)
(* each handler sets its own rank's flag, at its own moment.               *)
Send ==
  /\ ~ sent /\ \E r \in Rank : Present(r)
  /\ sent' = TRUE
  /\ UNCHANGED <<host, flag, world, disk, fate>>
HandleSignal(r) ==
  /\ sent /\ Present(r) /\ ~ flag[r]
  /\ flag' = [flag EXCEPT ![r] = TRUE]
  /\ UNCHANGED <<host, world, disk, sent, fate>>

(* The waits of a host that only others, or its device, can end.           *)
Blocked(r) ==
  \/ At(r, "step") /\ micro[r] < GA /\ data[r] > 0 /\ calls["model"][r] >= done + MaxAhead
  \/ At(r, "step") /\ micro[r] = GA /\ ShouldLog(step[r]) /\ ~ DeviceIdle(r)
  \/ At(r, "plan") /\ ~ (Joined("control", r) /\ DeviceIdle(r))
  \/ At(r, "barrier") /\ ~ (Joined("world", r) /\ DeviceIdle(r))
  \/ At(r, "commit") /\ IF r = Coordinator THEN ~ Joined("control", r)
                        ELSE calls["control"][Coordinator] <= calls["control"][r]
Stuck ==
  /\ ~ DeviceReady
  /\ \E r \in Rank : Present(r)
  /\ \A r \in Rank : Present(r) => Blocked(r)

(* The process group's timeout expires in a wait that nothing can end; the *)
(* watchdog takes the process down and torchrun the others.                *)
Timeout ==
  /\ Stuck
  /\ pc' = [r \in Rank |-> IF Present(r) THEN "killed" ELSE pc[r]]
  /\ UNCHANGED <<step, micro, goal, flag, data, world, disk, sent, fate>>

Host(r) ==
  \/ BeginStep(r) \/ Leave(r) \/ Microbatch(r) \/ Exhausted(r) \/ Optimize(r)
  \/ Check(r) \/ SkipSave(r) \/ Plan(r) \/ Write(r) \/ Commit(r)
  \/ NextStep(r) \/ EnterBarrier(r) \/ LeaveBarrier(r) \/ Close(r)

Next ==
  \/ \E r \in Rank : Host(r) \/ HandleSignal(r)
  \/ DeviceRuns \/ Send \/ Timeout

Spec == Init /\ [][Next]_vars

(* Hosts and devices make progress and a signal reaches every process;     *)
(* whether and when the job is told to stop is nobody's duty.              *)
Fairness ==
  /\ \A r \in Rank : WF_vars(Host(r)) /\ WF_vars(HandleSignal(r))
  /\ WF_vars(DeviceRuns) /\ WF_vars(Timeout)
FairSpec == Spec /\ Fairness
-----------------------------------------------------------------------------
Ended == \A r \in Rank : ~ Present(r)
Killed == \E r \in Rank : At(r, "killed")

TypeOK ==
  /\ step \in [Rank -> 0 .. Steps] /\ goal \in [Rank -> 1 .. Steps]
  /\ micro \in [Rank -> 0 .. GA] /\ data \in [Rank -> 0 .. Steps * GA]
  /\ flag \in [Rank -> BOOLEAN] /\ sent \in BOOLEAN
  /\ calls \in [Group -> [Rank -> 0 .. 3 * Steps * GA]] /\ done \in 0 .. Steps * GA
  /\ meta \subseteq 1 .. Steps
  /\ shards \subseteq (1 .. Steps) \X Rank \X (0 .. Steps * GA)

(* A checkpoint with .metadata is whole: every rank's files are in it and  *)
(* hold the state after exactly that optimizer step, even when ranks have  *)
(* left the loop at different steps and their saves meet in one collective *)
(* (dcp_save, end_training_early).                                         *)
WholeCheckpoints ==
  \A d \in meta, r \in Rank :
    {s \in shards : s[1] = d /\ s[2] = r} = {<<d, r, d * GA>>}

(* Ranks that left the loop at the same step leave a checkpoint of that    *)
(* step behind, whatever ended the run early - a signal, a NaN in the log  *)
(* or the cutoff - and however far the hosts were apart (save, last_step). *)
AgreedEndIsSaved ==
  \A s \in 1 .. Steps :
    (\A r \in Rank : At(r, "gone") /\ step[r] = s /\ micro[r] = GA) => s \in meta

(* The watchdog ends only jobs whose ranks did not agree: on the step at   *)
(* which they saw the signal, or on how much data they have.  Logging,     *)
(* saving, NaN detection, the cutoff and the barrier after step 1 never    *)
(* leave a rank waiting alone (train_step, set_pg_timeouts, save).         *)
KilledOnlyWhenSplit ==
  /\ TypeOK
  /\ Killed => \/ \E q, r \in Rank : goal[q] # goal[r]
               \/ \E q, r \in Rank : data[q] + calls["model"][q] # data[r] + calls["model"][r]

(* Every job comes to an end: its ranks leave, or the timeout of a process *)
(* group that waits in vain takes it down (set_pg_timeouts).               *)
EveryJobEnds == <>[]Ended

(* What signal_handler.py promises: sending SIGTERM causes the trainer to  *)
(* save a final checkpoint before exiting.  Here: when every rank has      *)
(* handled the signal, none has run out of data and the job is over, some  *)
(* rank's last step is on disk.                                            *)
SignalSavesCheckpoint ==
  Ended /\ (\A r \in Rank : flag[r] /\ data[r] > 0) => \E r \in Rank : step[r] \in meta
=============================================================================
