---------------------------- MODULE EmaCheckpoint ----------------------------
(***************************************************************************)
(* The EMA checkpointer of low_bits_training/ema_checkpoint.py: the        *)
(* manager in the training process, the worker process that keeps the EMA  *)
(* weights, the two queues between them, the staging buffer they share,    *)
(* and the timeouts and the worker's death that the manager must survive.  *)
(*                                                                         *)
(* Weights are the number of the training step that produced them; the EMA *)
(* state is the step of the last update it took in.  Steps are counted     *)
(* from the one the run starts with or resumes from, which is 0.           *)
(***************************************************************************)
EXTENDS Integers, Sequences, FiniteSets

CONSTANTS
  Steps,         \* training steps of the run
  SaveInterval,  \* ema.save_interval
  Skip,          \* ema.skip_first_k_updates
  MaxTimeouts,   \* bound: how often a live worker is slower than mp_timeout
  MaxDeaths,     \* bound: how often the worker dies
  MaxLoadErrors  \* bound: how often the worker cannot load the checkpoint

ASSUME EmaAssumption ==
  /\ Steps \in Nat \ {0} /\ SaveInterval \in Nat \ {0} /\ Skip \in Nat
  /\ MaxTimeouts \in Nat /\ MaxDeaths \in Nat /\ MaxLoadErrors \in Nat

VARIABLES
  pc,          \* where the training process is in the manager
  returnTo,    \* who called close(): the training loop or Trainer.close
  step,        \* the training step
  count,       \* EMACheckpointManager._current_step_count
  enabled,     \* EMACheckpointManager.enable_checkpoint
  pending,     \* EMACheckpointManager.pending
  commands,    \* mp_queue_send
  replies,     \* mp_queue_recv
  worker,      \* what the worker process is doing
  ema,         \* ema_state_dict: step of its last update, NoEma before the first
  buffer,      \* cpu_offload_state_dict: step of the weights staged last
  copying,     \* the non-blocking copy into the buffer is still running
  saved,       \* EMA checkpoints on disk, as <<step, ema>>
  trainError,  \* history: an exception of the manager ended training
  closeError,  \* history: close() raised
  timeouts, deaths, loadErrors  \* history: events so far

mainVars   == <<pc, returnTo, step, count, enabled, pending, trainError, closeError>>
bufferVars == <<buffer, copying>>
workerVars == <<worker, ema, saved>>
boundVars  == <<timeouts, deaths, loadErrors>>
vars == <<mainVars, commands, replies, bufferVars, workerVars, boundVars>>

NoEma == -1
Idle == [cmd |-> "none", step |-> 0]
Gone == [cmd |-> "gone", step |-> 0]
Command(c, s) == [cmd |-> c, step |-> s]
Actions == {"update", "save", "load"}
Reply(a, ok) == [action |-> a, done |-> ok]
Started == Reply("started", TRUE)

Alive == worker # Gone

Init ==
  /\ pc = "init" /\ returnTo = "train" /\ step = 0 /\ count = 0
  /\ enabled = TRUE
  /\ pending = [a \in Actions |-> 0]
  /\ commands = << >> /\ replies = << >>
  /\ worker = [cmd |-> "starting", step |-> 0]
  /\ ema = NoEma /\ buffer = 0 /\ copying = FALSE
  /\ saved \in {{}, {<<0, 0>>}}
  /\ trainError = FALSE /\ closeError = FALSE
  /\ timeouts = 0 /\ deaths = 0 /\ loadErrors = 0

-----------------------------------------------------------------------------
(* Waiting for the worker: wait_for_action                                 *)

Waits == {"update_wait", "save_wait", "force_wait", "close_update", "close_save"}

\* wait_for_action has been called and is about to ask whether the worker lives.
Enters == {"update_enter", "save_enter", "close_enter"}

\* The waits of close().
Closing == {"close_enter", "close_update", "close_save"}

\* The action whose pending count the process waits to see at zero.
Awaited == IF pc \in {"force_wait", "close_save"} THEN "save" ELSE "update"

\* The wait is over: nothing of the awaited kind is outstanding.
Drained == pending[Awaited] = 0

\* An exception leaves the manager: in training it ends train(), whose caller
\* closes the trainer; in the trainer's close() it ends the process.
Raise ==
  \/ /\ pc \in Closing /\ returnTo = "exit"
     /\ closeError' = TRUE /\ pc' = "closed"
     /\ UNCHANGED trainError
  \/ /\ ~(pc \in Closing /\ returnTo = "exit")
     /\ trainError' = TRUE /\ pc' = "finally"
     /\ UNCHANGED closeError

\* What close() returns to.
AfterClose == IF returnTo = "train" THEN "idle" ELSE "closed"

\* close() is called; a dead worker has nothing to wait for.
CloseFor(caller) ==
  /\ returnTo' = caller
  /\ IF Alive
     THEN pc' = "close_enter" /\ UNCHANGED enabled
     ELSE /\ enabled' = FALSE
          /\ pc' = IF caller = "train" THEN "idle" ELSE "closed"

\* Deviation: a reply that belongs to another action is dropped.
OnlyAwaited(a) ==
  IF a = Awaited THEN [pending EXCEPT ![a] = @ - 1] ELSE pending

\* A "<action>_done" reply is booked on its own action, whichever is awaited.
Booked(a) == [pending EXCEPT ![a] = @ - 1]

\* A dead worker, "load_failed" or a timeout: save() turns the EMA off, the
\* other callers let the exception through; close() only catches the timeout.
WaitFails(timeout) ==
  \/ /\ pc \in {"save_enter", "save_wait"}
     /\ CloseFor("train")
     /\ UNCHANGED <<trainError, closeError>>
  \/ /\ pc \in Closing /\ timeout
     /\ pc' = "force"
     /\ UNCHANGED <<returnTo, enabled, trainError, closeError>>
  \/ /\ \/ pc \in {"update_enter", "update_wait", "force_wait"}
        \/ pc \in Closing /\ ~timeout
     /\ Raise
     /\ UNCHANGED <<returnTo, enabled>>

\* wait_for_action raises if the worker is dead, and only then looks at pending.
WaitBegins ==
  /\ pc \in Enters
  /\ \/ /\ Alive
        /\ pc' = [update_enter |-> "update_wait", save_enter |-> "save_wait",
                  close_enter |-> "close_update"][pc]
        /\ UNCHANGED <<returnTo, enabled, trainError, closeError>>
     \/ ~Alive /\ WaitFails(FALSE)
  /\ UNCHANGED <<step, count, pending, commands, replies, bufferVars, workerVars,
                 boundVars>>

ReceiveDone ==
  /\ pc \in Waits /\ ~Drained
  /\ replies # << >> /\ Head(replies).done
  /\ replies' = Tail(replies)
  /\ pending' = Booked(Head(replies).action)
  /\ UNCHANGED <<pc, returnTo, step, count, enabled, trainError, closeError, commands,
                 bufferVars, workerVars, boundVars>>

ReceiveFailed ==
  /\ pc \in Waits /\ ~Drained
  /\ replies # << >> /\ ~Head(replies).done
  /\ replies' = Tail(replies)
  /\ WaitFails(FALSE)
  /\ UNCHANGED <<step, count, pending, commands, bufferVars, workerVars, boundVars>>

\* queue.Empty: nothing arrives within mp_timeout, because the worker is dead...
NothingArrives ==
  /\ pc \in Waits /\ ~Drained /\ replies = << >> /\ ~Alive
  /\ WaitFails(TRUE)
  /\ UNCHANGED <<step, count, pending, commands, replies, bufferVars, workerVars,
                 boundVars>>

\* ... or because it is slow.
TimesOut ==
  /\ pc \in Waits /\ ~Drained /\ replies = << >> /\ Alive
  /\ timeouts < MaxTimeouts
  /\ timeouts' = timeouts + 1
  /\ WaitFails(TRUE)
  /\ UNCHANGED <<step, count, pending, commands, replies, bufferVars, workerVars,
                 deaths, loadErrors>>

-----------------------------------------------------------------------------
(* The manager in the training process                                     *)

\* __init__: the worker has reported in.
WorkerStarted ==
  /\ pc = "init" /\ replies # << >>
  /\ replies' = Tail(replies)
  /\ pc' = "load"
  /\ UNCHANGED <<returnTo, step, count, enabled, pending, trainError, closeError,
                 commands, bufferVars, workerVars, boundVars>>

\* __init__: a worker that died, or is too slow, does not; the EMA is turned off.
WorkerNeverStarts ==
  /\ pc = "init" /\ replies = << >> /\ ~Alive
  /\ CloseFor("train")
  /\ UNCHANGED <<step, count, pending, trainError, closeError, commands, replies,
                 bufferVars, workerVars, boundVars>>

StartTimesOut ==
  /\ pc = "init" /\ replies = << >> /\ Alive
  /\ timeouts < MaxTimeouts
  /\ timeouts' = timeouts + 1
  /\ CloseFor("train")
  /\ UNCHANGED <<step, count, pending, trainError, closeError, commands, replies,
                 bufferVars, workerVars, deaths, loadErrors>>

\* The step the run resumes from has an EMA checkpoint.
Resumed == <<0, 0>> \in saved

\* load() sets the count to the end of the warm-up, and update_ema adds one.
CountForLoad == Skip + 1

\* update_ema's staging of the weights of step s and its UPDATE command.
Stage(s) == buffer' = s /\ copying' = TRUE

\* load(): an UPDATE that initialises the worker's state, then LOAD.
Load ==
  /\ pc = "load" /\ Resumed /\ Alive
  /\ pc' = "idle"
  /\ count' = CountForLoad
  /\ IF count' >= Skip
     THEN /\ Stage(step)
          /\ commands' = commands \o <<Command("update", step), Command("load", step)>>
          /\ pending' = [pending EXCEPT !["update"] = @ + 1, !["load"] = @ + 1]
     ELSE /\ commands' = Append(commands, Command("load", step))
          /\ pending' = [pending EXCEPT !["load"] = @ + 1]
          /\ UNCHANGED bufferVars
  /\ UNCHANGED <<returnTo, step, enabled, trainError, closeError, replies, workerVars,
                 boundVars>>

LoadNothing ==
  /\ pc = "load" /\ ~Resumed
  /\ pc' = "idle"
  /\ UNCHANGED <<returnTo, step, count, enabled, pending, trainError, closeError,
                 commands, replies, bufferVars, workerVars, boundVars>>

LoadOnDeadWorker ==
  /\ pc = "load" /\ Resumed /\ ~Alive
  /\ Raise
  /\ UNCHANGED <<returnTo, step, count, enabled, pending, commands, replies, bufferVars,
                 workerVars, boundVars>>

\* A training step reaches maybe_wait_for_staging, which calls update_ema.
NextStep ==
  /\ pc = "idle" /\ step < Steps
  /\ step' = step + 1
  /\ \/ /\ ~enabled
        /\ pc' = "save"
        /\ UNCHANGED <<count, trainError, closeError>>
     \/ /\ enabled /\ Alive
        /\ count' = count + 1
        /\ pc' = IF Skip <= count' THEN "update_enter" ELSE "save"
        /\ UNCHANGED <<trainError, closeError>>
     \/ /\ enabled /\ ~Alive
        /\ Raise
        /\ UNCHANGED count
  /\ UNCHANGED <<returnTo, enabled, pending, commands, replies, bufferVars, workerVars,
                 boundVars>>

\* Deviation: update_ema stages without waiting for the update before.
UpdateEmaAtOnce ==
  /\ pc = "update_wait"
  /\ Stage(step)
  /\ commands' = Append(commands, Command("update", step))
  /\ pending' = [pending EXCEPT !["update"] = @ + 1]
  /\ pc' = "save"
  /\ UNCHANGED <<returnTo, step, count, enabled, trainError, closeError, replies,
                 workerVars, boundVars>>

\* update_ema after its wait (max_pending_updates is 0).
UpdateEma ==
  /\ pc = "update_wait" /\ Drained
  /\ Stage(step)
  /\ commands' = Append(commands, Command("update", step))
  /\ pending' = [pending EXCEPT !["update"] = @ + 1]
  /\ pc' = "save"
  /\ UNCHANGED <<returnTo, step, count, enabled, trainError, closeError, replies,
                 workerVars, boundVars>>

\* Deviation: the last step counts only if it is on the interval.
OnInterval == step % SaveInterval = 0

\* _should_save, forced at the last step.
ShouldSave == step = Steps \/ step % SaveInterval = 0

\* Deviation: save() does not look at the warm-up.
NoWarmupInSave == TRUE

\* warmup_period_finished.
WarmupFinished == Skip <= count

\* save(), up to its wait for the update of this step.
Save ==
  /\ pc = "save"
  /\ \/ /\ ~(enabled /\ ShouldSave) \/ (Alive /\ ~WarmupFinished)
        /\ pc' = "idle"
        /\ UNCHANGED <<trainError, closeError>>
     \/ /\ enabled /\ ShouldSave /\ Alive /\ WarmupFinished
        /\ pc' = "save_enter"
        /\ UNCHANGED <<trainError, closeError>>
     \/ /\ enabled /\ ShouldSave /\ ~Alive
        /\ Raise
  /\ UNCHANGED <<returnTo, step, count, enabled, pending, commands, replies, bufferVars,
                 workerVars, boundVars>>

\* save() after its wait; only the last save is waited for.
RequestSave ==
  /\ pc = "save_wait" /\ Drained
  /\ commands' = Append(commands, Command("save", step))
  /\ pending' = [pending EXCEPT !["save"] = @ + 1]
  /\ \/ step # Steps /\ pc' = "idle" /\ UNCHANGED <<trainError, closeError>>
     \/ step = Steps /\ Alive /\ pc' = "force_wait" /\ UNCHANGED <<trainError, closeError>>
     \/ step = Steps /\ ~Alive /\ Raise
  /\ UNCHANGED <<returnTo, step, count, enabled, replies, bufferVars, workerVars,
                 boundVars>>

FinalSaveDone ==
  /\ pc = "force_wait" /\ Drained
  /\ pc' = "idle"
  /\ UNCHANGED <<returnTo, step, count, enabled, pending, trainError, closeError,
                 commands, replies, bufferVars, workerVars, boundVars>>

\* Trainer.close at the end of train(), normal or not.
TrainerCloses ==
  /\ (pc = "idle" /\ step = Steps) \/ pc = "finally"
  /\ IF enabled THEN CloseFor("exit")
                ELSE pc' = "closed" /\ returnTo' = "exit" /\ UNCHANGED enabled
  /\ UNCHANGED <<step, count, pending, trainError, closeError, commands, replies,
                 bufferVars, workerVars, boundVars>>

\* close(): both waits begin by asking whether the worker lives.
CloseWaitsForSave ==
  /\ pc = "close_update" /\ Drained
  /\ \/ Alive /\ pc' = "close_save" /\ UNCHANGED <<trainError, closeError>>
     \/ ~Alive /\ Raise
  /\ UNCHANGED <<returnTo, step, count, enabled, pending, commands, replies, bufferVars,
                 workerVars, boundVars>>

CloseTerminates ==
  /\ pc = "close_save" /\ Drained
  /\ commands' = Append(commands, Command("terminate", 0))
  /\ pc' = "join"
  /\ UNCHANGED <<returnTo, step, count, enabled, pending, trainError, closeError,
                 replies, bufferVars, workerVars, boundVars>>

\* The worker is gone when close() or force_close() joins it or looks again.
Joined ==
  /\ pc \in {"join", "force", "force_join"} /\ ~Alive
  /\ enabled' = FALSE
  /\ pc' = AfterClose
  /\ UNCHANGED <<returnTo, step, count, pending, trainError, closeError, commands,
                 replies, bufferVars, workerVars, boundVars>>

\* Deviation: close() gives up when join() returns.
JoinGivesUp ==
  /\ pc \in {"join", "force_join"} /\ Alive
  /\ timeouts < MaxTimeouts
  /\ timeouts' = timeouts + 1
  /\ enabled' = FALSE
  /\ pc' = AfterClose
  /\ UNCHANGED <<returnTo, step, count, pending, trainError, closeError, commands,
                 replies, bufferVars, workerVars, deaths, loadErrors>>

\* join(timeout) returns although the worker lives: close() goes on to
\* force_close(), and that one kills the worker.
JoinTimesOut ==
  /\ pc \in {"join", "force_join"} /\ Alive
  /\ timeouts < MaxTimeouts
  /\ timeouts' = timeouts + 1
  /\ \/ pc = "join" /\ pc' = "force" /\ UNCHANGED worker
     \/ pc = "force_join" /\ worker' = Gone /\ UNCHANGED pc   \* kill_process
  /\ UNCHANGED <<returnTo, step, count, enabled, pending, trainError, closeError,
                 commands, replies, bufferVars, ema, saved, deaths, loadErrors>>

\* force_close empties the send queue before it puts TERMINATE.
ForceClose ==
  /\ pc = "force" /\ Alive
  /\ commands' = <<Command("terminate", 0)>>
  /\ pc' = "force_join"
  /\ UNCHANGED <<returnTo, step, count, enabled, pending, trainError, closeError,
                 replies, bufferVars, workerVars, boundVars>>

-----------------------------------------------------------------------------
(* The worker process: ema_checkpoint_process                              *)

WorkerStarts ==
  /\ worker.cmd = "starting"
  /\ worker' = Idle
  /\ replies' = Append(replies, Started)
  /\ UNCHANGED <<mainVars, commands, bufferVars, ema, saved, boundVars>>

\* recv.get(); LOAD without a state is an assertion error, TERMINATE the end.
WorkerTakes ==
  /\ worker = Idle /\ commands # << >>
  /\ commands' = Tail(commands)
  /\ worker' = IF \/ Head(commands).cmd = "terminate"
                  \/ Head(commands).cmd = "load" /\ ema = NoEma
               THEN Gone ELSE Head(commands)
  /\ UNCHANGED <<mainVars, replies, bufferVars, ema, saved, boundVars>>

\* UPDATE: the weights are read from the shared buffer.
WorkerUpdates ==
  /\ worker.cmd = "update"
  /\ ema' = buffer
  /\ worker' = Idle
  /\ replies' = Append(replies, Reply("update", TRUE))
  /\ UNCHANGED <<mainVars, commands, bufferVars, saved, boundVars>>

\* SAVE is answered even when there is nothing to save.
WorkerSaves ==
  /\ worker.cmd = "save"
  /\ saved' = IF ema = NoEma THEN saved ELSE saved \cup {<<worker.step, ema>>}
  /\ worker' = Idle
  /\ replies' = Append(replies, Reply("save", TRUE))
  /\ UNCHANGED <<mainVars, commands, bufferVars, ema, boundVars>>

WorkerLoads ==
  /\ worker.cmd = "load"
  /\ worker' = Idle
  /\ replies' = Append(replies, Reply("load", TRUE))
  /\ UNCHANGED <<mainVars, commands, bufferVars, ema, saved, boundVars>>

WorkerCannotLoad ==
  /\ worker.cmd = "load"
  /\ loadErrors < MaxLoadErrors
  /\ loadErrors' = loadErrors + 1
  /\ worker' = Idle
  /\ replies' = Append(replies, Reply("load", FALSE))
  /\ UNCHANGED <<mainVars, commands, bufferVars, ema, saved, timeouts, deaths>>

WorkerDies ==
  /\ Alive /\ deaths < MaxDeaths
  /\ deaths' = deaths + 1
  /\ worker' = Gone
  /\ UNCHANGED <<mainVars, commands, replies, bufferVars, ema, saved, timeouts,
                 loadErrors>>

\* The copy on the staging stream ends; nothing in the program waits for it.
CopyDone ==
  /\ copying
  /\ copying' = FALSE
  /\ UNCHANGED <<mainVars, commands, replies, buffer, workerVars, boundVars>>

Stopped ==
  /\ pc = "closed"
  /\ UNCHANGED vars

Manager ==
  \/ WaitBegins \/ ReceiveDone \/ ReceiveFailed \/ NothingArrives
  \/ WorkerStarted \/ WorkerNeverStarts \/ Load \/ LoadNothing \/ LoadOnDeadWorker
  \/ NextStep \/ UpdateEma \/ Save \/ RequestSave \/ FinalSaveDone
  \/ TrainerCloses \/ CloseWaitsForSave \/ CloseTerminates \/ Joined \/ ForceClose

Worker ==
  \/ WorkerStarts \/ WorkerTakes \/ WorkerUpdates \/ WorkerSaves \/ WorkerLoads

Environment ==
  StartTimesOut \/ TimesOut \/ JoinTimesOut \/ WorkerCannotLoad \/ WorkerDies \/ CopyDone \/ Stopped

Next == Manager \/ Worker \/ Environment

\* Both processes run as long as they live; timeouts, deaths and load errors
\* need not happen.
Fairness == WF_vars(Manager) /\ WF_vars(Worker)

Spec == Init /\ [][Next]_vars /\ Fairness

-----------------------------------------------------------------------------
(* Properties                                                              *)

Locations == Waits \cup Enters \cup
  {"init", "load", "idle", "save", "join", "force", "force_join", "finally", "closed"}
CommandMessages == [cmd: Actions \cup {"terminate"}, step: 0..Steps]
ReplyMessages   == [action: Actions \cup {"started"}, done: BOOLEAN]

\* The values the variables range over.
TypeOK ==
  /\ pc \in Locations
  /\ returnTo \in {"train", "exit"}
  /\ step \in 0..Steps /\ count \in 0..(Skip + 1 + Steps) /\ enabled \in BOOLEAN
  /\ pending \in [Actions -> Nat]
  /\ commands \in Seq(CommandMessages)
  /\ replies \in Seq(ReplyMessages)
  /\ worker \in [cmd: Actions \cup {"none", "gone", "starting"}, step: 0..Steps]
  /\ ema \in 0..Steps \cup {NoEma} /\ buffer \in 0..Steps /\ copying \in BOOLEAN
  /\ saved \subseteq (0..Steps) \X (0..Steps)
  /\ trainError \in BOOLEAN /\ closeError \in BOOLEAN
  /\ timeouts \in 0..MaxTimeouts /\ deaths \in 0..MaxDeaths
  /\ loadErrors \in 0..MaxLoadErrors

\* The messages of a queue that belong to T.
Occurrences(queue, T) == Cardinality({i \in DOMAIN queue : queue[i] \in T})

CommandsOf(a) == [cmd: {a}, step: 0..Steps]
RepliesTo(a)  == [action: {a}, done: BOOLEAN]

\* Commands of one kind that the worker has not answered, and their answers.
Outstanding(a) ==
    Occurrences(commands, CommandsOf(a))
  + (IF worker.cmd = a THEN 1 ELSE 0)
  + Occurrences(replies, RepliesTo(a))

\* The manager's pending counts are exact as long as the worker lives, although
\* every wait receives the replies of all actions: no reply is booked twice,
\* lost, or booked on another action, after any sequence of timeouts.
PendingExact ==
  /\ TypeOK
  /\ Alive /\ pc # "force_join" => \A a \in {"update", "save"} : pending[a] = Outstanding(a)

\* The shared buffer is not staged over while the worker still has to read the
\* weights of an earlier step from it (max_pending_updates = 0).
UpdateReadsItsStep == worker.cmd = "update" => buffer = worker.step

\* The worker never meets SAVE or LOAD without an EMA state: its warning "No EMA
\* weights to save yet" and its assertion in LOAD are unreachable.
WorkerStateReady ==
  /\ worker.cmd = "save" => ema # NoEma
  /\ worker = Idle /\ commands # << >> /\ Head(commands).cmd = "load" => ema # NoEma

\* The steps at which an EMA checkpoint is due.
Due == {s \in 1..Steps : /\ s = Steps \/ s % SaveInterval = 0
                         /\ Resumed \/ s >= Skip}

\* A run that met no timeout, death or error has written every EMA checkpoint
\* that was due, each with the update of its own step in it, before it ends.
EverySaveWritten ==
  pc = "closed" /\ ~trainError /\ timeouts = 0 /\ deaths = 0 /\ loadErrors = 0 =>
    saved \ {<<0, 0>>} = {<<s, s>> : s \in Due}

\* close() that returns leaves no worker behind, however slow the worker was.
ClosedMeansGone == pc = "closed" /\ ~closeError => ~Alive

\* Every run ends: no wait of the manager, in training or in close(), is forever,
\* with the worker slow, dead or unable to load.
EveryRunEnds == <>(pc = "closed")

\* The comment on max_pending_updates: with 0 the buffer does not change after
\* it was put in the queue.
BufferSettled == worker.cmd = "update" => ~copying
=============================================================================
