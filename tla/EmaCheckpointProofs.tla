-------------------------- MODULE EmaCheckpointProofs --------------------------
(***************************************************************************)
(* The safety of the EMA checkpointer for every number of steps, save      *)
(* interval and warm-up, and however often the worker is slow, dies or     *)
(* cannot load: the pending counts are exact, an update reads the weights  *)
(* of its own step, no command meets a missing EMA state, a clean run      *)
(* writes every EMA checkpoint that is due, and close() leaves no worker.  *)
(*                                                                         *)
(* The counts carry the argument: an update is staged only when none is    *)
(* outstanding, so the queue holds at most the update of the last step,    *)
(* and the save of a step is asked for only when its update is answered.   *)
(*                                                                         *)
(* At the end, for every number of steps and crashes: the step a job is    *)
(* resumed from, EmaResume's choice among the two kinds of checkpoints.    *)
(***************************************************************************)
EXTENDS EmaCheckpoint, EmaResume, SequenceTheorems, FunctionTheorems, FiniteSetTheorems,
        WellFoundedInduction, TLAPS

-----------------------------------------------------------------------------
(* The inductive invariant                                                 *)

\* The manager in a training step: the step has begun and is not over.
Stepping == {"update_enter", "update_wait", "save", "save_enter", "save_wait"}

\* A worker that has not died, timed out or failed, under a manager that has
\* not raised.
Clean == ~trainError /\ timeouts = 0 /\ deaths = 0 /\ loadErrors = 0

\* Only a LOAD fails, and a failure is on record.
FailuresKnown ==
  \A i \in 1..Len(replies) :
    ~replies[i].done => replies[i].action = "load" /\ loadErrors > 0

\* No message between the processes is lost without the manager counting it,
\* and as long as the worker lives and nobody empties its queue none is.
Counted ==
  /\ \A a \in Actions : Outstanding(a) <= pending[a]
  /\ Alive /\ pc # "force_join" =>
       \A a \in {"update", "save"} : pending[a] = Outstanding(a)
  /\ FailuresKnown

\* Where the manager is, what it has counted and what it has put in the queue.
Progress ==
  /\ pc \in {"init", "load"} =>
       /\ step = 0 /\ count = 0 /\ enabled
       /\ commands = << >> /\ pending = [a \in Actions |-> 0]
  /\ count <= step + Skip + 1
  /\ pc \in Stepping \cup {"force_wait"} => step >= 1
  /\ ~enabled => ~Alive
  /\ pc = "closed" /\ ~closeError => ~Alive

\* The buffer holds the weights that every UPDATE not yet worked on is about.
Fresh ==
  /\ worker.cmd = "update" => worker.step = buffer
  /\ \A i \in 1..Len(commands) : commands[i].cmd = "update" => commands[i].step = buffer

\* What the EMA state is when the worker comes to a command of the queue: a LOAD
\* follows an UPDATE, and a SAVE meets the EMA of its own step.
QueueOrder ==
  Alive =>
    /\ worker.cmd = "save" => ema = worker.step
    /\ \A i \in 1..Len(commands) :
         /\ commands[i].cmd = "load" =>
              \/ ema # NoEma \/ worker.cmd = "update"
              \/ \E j \in 1..(i - 1) : commands[j].cmd = "update"
         /\ commands[i].cmd = "save" =>
              /\ ema = commands[i].step /\ worker.cmd # "update"
              /\ \A j \in 1..(i - 1) : commands[j].cmd # "update"

\* An UPDATE waits in the queue, or the worker is at it.
Updating == worker.cmd = "update" \/ \E i \in 1..Len(commands) : commands[i].cmd = "update"

\* save(), up to its command.
InSave == {"save", "save_enter", "save_wait"}

\* save() waits only for what it may save.
SaveCalled == pc \in {"save_enter", "save_wait"} => ShouldSave /\ WarmupFinished

\* Between update_ema and save() the update of this step is under way or done.
Updated ==
  Alive /\ enabled /\ Skip <= count /\ pc \in InSave =>
    buffer = step /\ (ema = step \/ Updating)

\* The steps whose save() is over.
Passed == IF pc \in Stepping THEN step - 1 ELSE step

\* A SAVE for step s is in the queue or in the worker.
Saving(s) ==
  \/ worker = Command("save", s)
  \/ \E i \in 1..Len(commands) : commands[i] = Command("save", s)

\* A clean run: the manager never leaves the way it is meant to go, ...
OnCourse ==
  Clean =>
    /\ pc \notin {"force", "force_join", "finally"}
    /\ ~Alive => pc \in {"join", "closed"}
    /\ (\E i \in 1..Len(commands) : commands[i].cmd = "terminate") => pc \in {"join", "closed"}
    /\ pc \in Closing \cup {"join", "closed"} => returnTo = "exit" /\ step = Steps
    /\ pc \in {"join", "closed"} => pending["save"] = 0
    /\ pc # "closed" => enabled
    /\ count = IF pc \notin {"init", "load"} /\ Resumed THEN step + Skip + 1 ELSE step

\* ... and what it has asked for is on disk or on its way there.
SavesDue ==
  Clean =>
    /\ \A s \in Due : s <= Passed => <<s, s>> \in saved \/ Saving(s)
    /\ \A s \in 0..Steps : Saving(s) => s \in Due /\ s <= Passed
    /\ \A p \in saved \ {<<0, 0>>} : \E s \in Due : s <= Passed /\ p = <<s, s>>

IInv ==
  /\ TypeOK /\ Counted /\ Progress /\ Fresh /\ SaveCalled /\ Updated /\ QueueOrder
  /\ OnCourse /\ SavesDue
-----------------------------------------------------------------------------
(* The messages of a queue                                                 *)

(* The places of a queue that hold a message of T are finitely many.       *)
LEMMA OccurrencesFinite ==
  ASSUME NEW M, NEW s \in Seq(M), NEW T
  PROVE  /\ IsFiniteSet({i \in DOMAIN s : s[i] \in T})
         /\ Occurrences(s, T) \in Nat
<1>1. DOMAIN s = 1 .. Len(s) /\ Len(s) \in Nat
  BY LenProperties
<1>2. IsFiniteSet(1 .. Len(s))
  BY <1>1, FS_Interval
<1>3. {i \in DOMAIN s : s[i] \in T} \in SUBSET (1 .. Len(s))
  BY <1>1
<1>4. IsFiniteSet({i \in DOMAIN s : s[i] \in T})
  BY <1>2, <1>3, FS_Subset
<1> QED
  BY <1>4, FS_CardinalityType DEF Occurrences

(* A queue has no message of T when their number is zero.                  *)
LEMMA NoOccurrence ==
  ASSUME NEW M, NEW s \in Seq(M), NEW T
  PROVE  Occurrences(s, T) = 0 <=> \A i \in 1 .. Len(s) : s[i] \notin T
<1> DEFINE P == {i \in DOMAIN s : s[i] \in T}
<1>a. IsFiniteSet(P) /\ Occurrences(s, T) = Cardinality(P)
  BY OccurrencesFinite DEF Occurrences
<1>1. Occurrences(s, T) = 0 <=> P = {}
  BY <1>a, FS_EmptySet
<1>2. DOMAIN s = 1 .. Len(s)
  BY LenProperties
<1> QED
  BY <1>1, <1>2

(* Putting a message into a queue counts it.                               *)
LEMMA PutOccurrence ==
  ASSUME NEW M, NEW s \in Seq(M), NEW T, NEW e \in M
  PROVE  /\ Append(s, e) \in Seq(M) /\ Len(Append(s, e)) = Len(s) + 1 /\ Len(s) \in Nat
         /\ \A i \in 1 .. Len(s) + 1 : Append(s, e)[i] = IF i <= Len(s) THEN s[i] ELSE e
         /\ Occurrences(Append(s, e), T) = Occurrences(s, T) + (IF e \in T THEN 1 ELSE 0)
<1> DEFINE a == Append(s, e)
           P == {i \in DOMAIN s : s[i] \in T}
           n == Len(s) + 1
<1>1. /\ a \in Seq(M) /\ Len(a) = n /\ DOMAIN a = 1 .. n /\ Len(s) \in Nat /\ DOMAIN s = 1 .. Len(s)
      /\ \A i \in 1 .. Len(s) : a[i] = s[i]
      /\ a[n] = e
  BY AppendProperties, LenProperties
<1>2. IsFiniteSet(P) /\ Cardinality(P) \in Nat /\ Occurrences(s, T) = Cardinality(P)
  BY OccurrencesFinite DEF Occurrences
<1> HIDE DEF a
<1>3. n \notin P
  BY <1>1
<1>4. {i \in DOMAIN a : a[i] \in T} = IF e \in T THEN P \cup {n} ELSE P
  BY <1>1
<1>5. Cardinality(P \cup {n}) = Cardinality(P) + 1
  BY <1>2, <1>3, FS_AddElement
<1>6. Occurrences(a, T) = Occurrences(s, T) + (IF e \in T THEN 1 ELSE 0)
  <2>1. Occurrences(a, T) = Cardinality(IF e \in T THEN P \cup {n} ELSE P)
    BY <1>4 DEF Occurrences
  <2> HIDE DEF P, n
  <2> QED
    BY <1>2, <1>5, <2>1
<1> QED
  BY <1>1, <1>6 DEF a

(* Taking the first message out of a queue leaves the others in order.     *)
LEMMA TakeOccurrence ==
  ASSUME NEW M, NEW s \in Seq(M), NEW T, s # << >>
  PROVE  /\ Tail(s) \in Seq(M) /\ Len(Tail(s)) = Len(s) - 1 /\ Len(s) \in Nat \ {0}
         /\ Head(s) \in M /\ Head(s) = s[1]
         /\ \A i \in 1 .. (Len(s) - 1) : Tail(s)[i] = s[i + 1]
         /\ Occurrences(s, T) = Occurrences(Tail(s), T) + (IF Head(s) \in T THEN 1 ELSE 0)
<1> DEFINE t == Tail(s)
           P == {i \in DOMAIN t : t[i] \in T}
           Q == {i \in DOMAIN s : s[i] \in T} \ {1}
<1>1. /\ t \in Seq(M) /\ Len(t) = Len(s) - 1 /\ DOMAIN t = 1 .. Len(t)
      /\ Len(s) \in Nat \ {0} /\ DOMAIN s = 1 .. Len(s) /\ Head(s) \in M /\ Head(s) = s[1]
      /\ \A i \in 1 .. Len(t) : t[i] = s[i + 1]
  BY HeadTailProperties, LenProperties, EmptySeq
<1>2. IsFiniteSet(P) /\ Cardinality(P) \in Nat /\ Occurrences(t, T) = Cardinality(P)
  BY <1>1, OccurrencesFinite DEF Occurrences
<1>3. IsFiniteSet({i \in DOMAIN s : s[i] \in T})
  BY OccurrencesFinite
<1> HIDE DEF t
<1>4. Cardinality(Q) = Cardinality(P)
  <2> DEFINE f == [i \in P |-> i + 1]
  <2>1. f \in [P -> Q]
    BY <1>1
  <2>2. \A i, j \in P : f[i] = f[j] => i = j
    BY <1>1
  <2>3. \A k \in Q : \E i \in P : f[i] = k
    <3> SUFFICES ASSUME NEW k \in Q PROVE k - 1 \in P /\ f[k - 1] = k
      OBVIOUS
    <3>1. k - 1 \in 1 .. Len(t) /\ t[k - 1] = s[k]
      BY <1>1
    <3> QED
      BY <1>1, <3>1
  <2>4. f \in Bijection(P, Q)
    BY <2>1, <2>2, <2>3, Fun_IsBij
  <2> QED
    BY <1>2, <2>4, FS_Bijection DEF ExistsBijection
<1>5. Cardinality(Q) = IF Head(s) \in T THEN Occurrences(s, T) - 1 ELSE Occurrences(s, T)
  <2>1. 1 \in {i \in DOMAIN s : s[i] \in T} <=> Head(s) \in T
    BY <1>1
  <2> QED
    BY <1>3, <2>1, FS_RemoveElement DEF Occurrences
<1>6. Occurrences(s, T) \in Nat /\ Occurrences(s, T) = Occurrences(t, T) + (IF Head(s) \in T THEN 1 ELSE 0)
  <2>1. Occurrences(s, T) \in Nat
    BY OccurrencesFinite
  <2> HIDE DEF P, Q
  <2> QED
    BY <1>2, <1>4, <1>5, <2>1
<1> QED
  BY <1>1, <1>6 DEF t

(* Nothing is in the empty queue.                                          *)
LEMMA EmptyOccurrence ==
  \A M, T : << >> \in Seq(M) /\ Occurrences(<< >>, T) = 0
<1> SUFFICES ASSUME NEW M, NEW T PROVE << >> \in Seq(M) /\ Occurrences(<< >>, T) = 0
  OBVIOUS
<1>1. << >> \in Seq(M) /\ Len(<< >>) = 0
  BY EmptySeq
<1>2. \A i \in 1 .. Len(<< >>) : << >>[i] \notin T
  BY <1>1
<1> QED
  BY <1>1, <1>2, NoOccurrence

-----------------------------------------------------------------------------
(* What the steps do to the messages                                       *)

(* The steps of the manager that send and receive nothing, and the ends of *)
(* the worker.                                                             *)
Quiet ==
  /\ UNCHANGED <<pending, commands, replies, buffer, ema, saved, loadErrors>>
  /\ worker' \in {worker, Gone}
  /\ pc = "force_join" /\ Alive' => pc' = "force_join"

Receives == ReceiveDone \/ ReceiveFailed \/ WorkerStarted

Puts == Load \/ UpdateEma \/ RequestSave \/ CloseTerminates \/ ForceClose

Works ==
  \/ WorkerStarts \/ WorkerTakes \/ WorkerUpdates \/ WorkerSaves \/ WorkerLoads
  \/ WorkerCannotLoad

(* Every step is quiet, receives a reply, puts commands or is the worker's. *)
LEMMA StepKinds == [Next]_vars => Quiet \/ Receives \/ Puts \/ Works
<1> SUFFICES ASSUME [Next]_vars PROVE Quiet \/ Receives \/ Puts \/ Works
  OBVIOUS
<1>1. CASE WaitBegins \/ NothingArrives \/ TimesOut
  BY <1>1 DEF WaitBegins, NothingArrives, TimesOut, Quiet, Waits, Enters, bufferVars,
              workerVars, boundVars
<1>2. CASE WorkerNeverStarts \/ StartTimesOut \/ LoadNothing \/ LoadOnDeadWorker
  BY <1>2 DEF WorkerNeverStarts, StartTimesOut, LoadNothing, LoadOnDeadWorker, Quiet,
              bufferVars, workerVars, boundVars
<1>3. CASE NextStep \/ Save \/ FinalSaveDone
  BY <1>3 DEF NextStep, Save, FinalSaveDone, Quiet, bufferVars, workerVars, boundVars
<1>4. CASE TrainerCloses \/ CloseWaitsForSave
  BY <1>4 DEF TrainerCloses, CloseWaitsForSave, Quiet, bufferVars, workerVars, boundVars
<1>5. CASE Joined
  BY <1>5 DEF Joined, Quiet, Alive, bufferVars, workerVars, boundVars
<1>6. CASE JoinTimesOut
  BY <1>6 DEF JoinTimesOut, Quiet, Alive, bufferVars
<1>7. CASE WorkerDies \/ CopyDone \/ Stopped \/ UNCHANGED vars
  BY <1>7 DEF WorkerDies, CopyDone, Stopped, Quiet, vars, mainVars, bufferVars, workerVars,
              boundVars
<1> QED
  BY <1>1, <1>2, <1>3, <1>4, <1>5, <1>6, <1>7
  DEF Next, Manager, Worker, Environment, Receives, Puts, Works

(* A counted message is typed, and a command is counted by its action.     *)
LEMMA Numbers ==
  ASSUME TypeOK, NEW a
  PROVE  /\ Occurrences(commands, CommandsOf(a)) \in Nat
         /\ Occurrences(replies, RepliesTo(a)) \in Nat
         /\ Outstanding(a) \in Nat
<1>1. /\ Occurrences(commands, CommandsOf(a)) \in Nat
      /\ Occurrences(replies, RepliesTo(a)) \in Nat
  BY OccurrencesFinite DEF TypeOK
<1> QED
  BY <1>1 DEF Outstanding

(* When nothing of an action is pending, nothing of it is on its way.      *)
LEMMA NonePending ==
  ASSUME TypeOK, Counted, NEW a \in Actions, pending[a] = 0
  PROVE  /\ Outstanding(a) = 0 /\ worker.cmd # a
         /\ \A i \in 1 .. Len(commands) : commands[i].cmd # a
         /\ \A i \in 1 .. Len(replies) : replies[i].action # a
<1>1. /\ Outstanding(a) = 0 /\ worker.cmd # a /\ Occurrences(commands, CommandsOf(a)) = 0
      /\ Occurrences(replies, RepliesTo(a)) = 0
  BY Numbers DEF Counted, Outstanding
<1>2. /\ \A i \in 1 .. Len(commands) : commands[i] \notin CommandsOf(a)
      /\ \A i \in 1 .. Len(replies) : replies[i] \notin RepliesTo(a)
  BY <1>1, NoOccurrence DEF TypeOK
<1>3. \A i \in 1 .. Len(commands) : commands[i] \in CommandMessages
  BY ElementOfSeq DEF TypeOK
<1>4. \A i \in 1 .. Len(replies) : replies[i] \in ReplyMessages
  BY ElementOfSeq DEF TypeOK
<1> QED
  BY <1>1, <1>2, <1>3, <1>4 DEF CommandsOf, RepliesTo, CommandMessages, ReplyMessages

-----------------------------------------------------------------------------
(* The types                                                               *)

(* The messages the two processes put are typed.                           *)
LEMMA Messages ==
  /\ \A c \in Actions \cup {"terminate"}, s \in 0..Steps : Command(c, s) \in CommandMessages
  /\ \A a \in Actions \cup {"started"}, ok \in BOOLEAN : Reply(a, ok) \in ReplyMessages
  /\ Actions = {"update", "save", "load"}
BY DEF Command, Reply, CommandMessages, ReplyMessages, Actions

(* LOAD is sent behind the UPDATE that initialises the state.              *)
LEMMA LoadPuts ==
  ASSUME TypeOK, Load
  PROVE  /\ Command("update", step) \in CommandMessages /\ Command("load", step) \in CommandMessages
         /\ Append(commands, Command("update", step)) \in Seq(CommandMessages)
         /\ commands' = Append(Append(commands, Command("update", step)), Command("load", step))
         /\ pending' = [pending EXCEPT !["update"] = @ + 1, !["load"] = @ + 1]
         /\ buffer' = step /\ copying' = TRUE
<1> DEFINE x == Command("update", step)
           y == Command("load", step)
<1>1. x \in CommandMessages /\ y \in CommandMessages /\ commands \in Seq(CommandMessages)
  BY Messages DEF TypeOK, Actions
<1>2. /\ commands' = commands \o <<x, y>>
      /\ pending' = [pending EXCEPT !["update"] = @ + 1, !["load"] = @ + 1]
      /\ buffer' = step /\ copying' = TRUE
  BY EmaAssumption DEF Load, CountForLoad, Stage
<1> HIDE DEF x, y
<1>3. commands \o <<x, y>> = Append(Append(commands, x), y)
  BY <1>1
<1>4. Append(commands, x) \in Seq(CommandMessages)
  BY <1>1, AppendProperties
<1> QED
  BY <1>1, <1>2, <1>3, <1>4 DEF x, y

(* A reply received was counted as pending.                                *)
LEMMA ReplyPending ==
  ASSUME TypeOK, Counted, replies # << >>, Head(replies).action \in Actions
  PROVE  pending[Head(replies).action] \in Nat \ {0}
<1> DEFINE a == Head(replies).action
<1>1. Len(replies) \in Nat \ {0} /\ Head(replies) = replies[1]
  BY TakeOccurrence DEF TypeOK
<1>2. pending[a] \in Nat
  BY DEF TypeOK
<1>3. pending[a] # 0
  BY <1>1, NonePending
<1> QED
  BY <1>2, <1>3

(* Where an exception, a close() and a failed wait leave the manager.      *)
Control ==
  /\ pc \in Locations /\ returnTo \in {"train", "exit"} /\ enabled \in BOOLEAN
  /\ trainError \in BOOLEAN /\ closeError \in BOOLEAN

(* An exception leaves through the finally clause, or ends a close().       *)
LEMMA RaiseControl ==
  ASSUME Control, Raise
  PROVE  pc' \in {"closed", "finally"} /\ trainError' \in BOOLEAN /\ closeError' \in BOOLEAN
BY Zenon DEF Control, Raise

(* close_enter is entered only while the worker lives; otherwise the call is over. *)
LEMMA CloseControl ==
  ASSUME Control, NEW c \in {"train", "exit"}, CloseFor(c)
  PROVE  pc' \in {"close_enter", "idle", "closed"} /\ returnTo' = c /\ enabled' \in BOOLEAN
BY Zenon DEF Control, CloseFor

(* A failed wait is a timeout or a dead worker; either way the places stay typed. *)
LEMMA WaitControl ==
  ASSUME Control, NEW b, WaitFails(b)
  PROVE  Control'
<1>1. CASE CloseFor("train") /\ UNCHANGED <<trainError, closeError>>
  BY <1>1, CloseControl DEF Control, Locations, Enters
<1>2. CASE pc' = "force" /\ UNCHANGED <<returnTo, enabled, trainError, closeError>>
  BY <1>2 DEF Control, Locations
<1>3. CASE Raise /\ UNCHANGED <<returnTo, enabled>>
  BY <1>3, RaiseControl DEF Control, Locations
<1> QED
  BY <1>1, <1>2, <1>3 DEF WaitFails

(* Every step leaves the manager at a place of its code.                   *)
LEMMA ControlStep ==
  ASSUME Control, [Next]_vars
  PROVE  Control'
<1>1. CASE \E b \in BOOLEAN : WaitFails(b)
  BY <1>1, WaitControl
<1>2. CASE CloseFor("train") /\ UNCHANGED <<trainError, closeError>>
  BY <1>2, CloseControl DEF Control, Locations, Enters
<1>3. CASE CloseFor("exit") /\ UNCHANGED <<trainError, closeError>>
  BY <1>3, CloseControl DEF Control, Locations, Enters
<1>4. CASE Raise /\ UNCHANGED <<returnTo, enabled>>
  BY <1>4, RaiseControl DEF Control, Locations
<1>5. CASE pc' \in Locations /\ UNCHANGED <<returnTo, enabled, trainError, closeError>>
  BY <1>5 DEF Control
<1>6. CASE pc' \in Locations /\ returnTo' = "exit" /\ UNCHANGED <<enabled, trainError, closeError>>
  BY <1>6 DEF Control
<1>7. CASE pc' \in Locations /\ enabled' = FALSE /\ UNCHANGED <<returnTo, trainError, closeError>>
  BY Zenon, <1>7 DEF Control
<1>a. CASE WaitBegins \/ ReceiveFailed \/ NothingArrives \/ TimesOut
  <2>1. CASE ReceiveFailed \/ NothingArrives \/ TimesOut
    BY <1>1, <2>1, Zenon DEF ReceiveFailed, NothingArrives, TimesOut
  <2>2. CASE WaitBegins
    <3>1. \/ WaitFails(FALSE)
          \/ /\ pc \in Enters
             /\ pc' = [update_enter |-> "update_wait", save_enter |-> "save_wait",
                       close_enter |-> "close_update"][pc]
             /\ UNCHANGED <<returnTo, enabled, trainError, closeError>>
      BY <2>2, Zenon DEF WaitBegins
    <3>2. CASE WaitFails(FALSE)
      BY <1>1, <3>2, Zenon
    <3>3. CASE /\ pc \in Enters
               /\ pc' = [update_enter |-> "update_wait", save_enter |-> "save_wait",
                         close_enter |-> "close_update"][pc]
               /\ UNCHANGED <<returnTo, enabled, trainError, closeError>>
      <4>1. pc' \in Locations
        BY <3>3 DEF Locations, Waits, Enters
      <4> QED
        BY <1>5, <3>3, <4>1
    <3> QED
      BY <3>1, <3>2, <3>3
  <2> QED
    BY <1>a, <2>1, <2>2
<1>b. CASE WorkerNeverStarts \/ StartTimesOut
  BY <1>b, <1>2 DEF WorkerNeverStarts, StartTimesOut
<1>c. CASE TrainerCloses
  BY <1>c, <1>3, <1>6 DEF TrainerCloses, Locations
<1>d. CASE LoadOnDeadWorker \/ NextStep \/ Save \/ RequestSave \/ CloseWaitsForSave
  BY <1>d, <1>4, <1>5
  DEF LoadOnDeadWorker, NextStep, Save, RequestSave, CloseWaitsForSave, Locations, Waits,
      Enters
<1>e. CASE Joined
  BY <1>e, <1>7 DEF Joined, AfterClose, Locations
<1>f. CASE ReceiveDone \/ WorkerStarted \/ Load \/ LoadNothing \/ UpdateEma \/ FinalSaveDone
  BY <1>f, <1>5
  DEF ReceiveDone, WorkerStarted, Load, LoadNothing, UpdateEma, FinalSaveDone, Locations,
      Waits
<1>g. CASE CloseTerminates \/ ForceClose \/ JoinTimesOut
  BY <1>g, <1>5 DEF CloseTerminates, ForceClose, JoinTimesOut, Locations
<1>h. CASE Worker \/ WorkerCannotLoad \/ WorkerDies \/ CopyDone \/ Stopped \/ UNCHANGED vars
  <2>1. UNCHANGED mainVars
    BY <1>h DEF Worker, WorkerStarts, WorkerTakes, WorkerUpdates, WorkerSaves, WorkerLoads,
                WorkerCannotLoad, WorkerDies, CopyDone, Stopped, vars
  <2> QED
    BY <2>1, <1>5 DEF Control, mainVars
<1> QED
  BY <1>a, <1>b, <1>c, <1>d, <1>e, <1>f, <1>g, <1>h DEF Next, Manager, Environment

(* The training step and the EMA's count of it grow together; the bounds   *)
(* hold.                                                                   *)
LEMMA NumbersStep ==
  ASSUME TypeOK, Progress, [Next]_vars
  PROVE  /\ step' \in 0..Steps /\ count' \in 0..(Skip + 1 + Steps) /\ copying' \in BOOLEAN
         /\ timeouts' \in 0..MaxTimeouts /\ deaths' \in 0..MaxDeaths
         /\ loadErrors' \in 0..MaxLoadErrors
<1> DEFINE Counts == step' \in 0..Steps /\ count' \in 0..(Skip + 1 + Steps)
           Bounds == /\ timeouts' \in 0..MaxTimeouts /\ deaths' \in 0..MaxDeaths
                     /\ loadErrors' \in 0..MaxLoadErrors
<1>1. UNCHANGED <<step, count>> => Counts
  BY DEF TypeOK
<1>2. UNCHANGED boundVars => Bounds
  BY DEF TypeOK, boundVars
<1>3. UNCHANGED copying => copying' \in BOOLEAN
  BY DEF TypeOK
<1>4. CASE NextStep
  <2>1. Counts
    BY <1>4, EmaAssumption DEF NextStep, TypeOK, Progress
  <2> QED
    BY <1>2, <1>3, <1>4, <2>1 DEF NextStep, bufferVars
<1>5. CASE Load
  <2>1. Counts
    BY <1>5, EmaAssumption DEF Load, CountForLoad, TypeOK
  <2>2. copying' \in BOOLEAN
    BY <1>5, LoadPuts
  <2> QED
    BY <1>2, <1>5, <2>1, <2>2 DEF Load
<1>6. CASE UpdateEma
  BY <1>1, <1>2, <1>6 DEF UpdateEma, Stage
<1>7. CASE TimesOut \/ StartTimesOut \/ JoinTimesOut \/ WorkerDies \/ WorkerCannotLoad
  <2>1. \/ timeouts < MaxTimeouts /\ timeouts' = timeouts + 1 /\ UNCHANGED <<deaths, loadErrors>>
        \/ deaths < MaxDeaths /\ deaths' = deaths + 1 /\ UNCHANGED <<timeouts, loadErrors>>
        \/ loadErrors < MaxLoadErrors /\ loadErrors' = loadErrors + 1 /\ UNCHANGED <<timeouts, deaths>>
    BY <1>7, Zenon DEF TimesOut, StartTimesOut, JoinTimesOut, WorkerDies, WorkerCannotLoad
  <2>2. UNCHANGED <<step, count, copying>>
    BY <1>7
    DEF TimesOut, StartTimesOut, JoinTimesOut, WorkerDies, WorkerCannotLoad, mainVars,
        bufferVars
  <2>3. /\ MaxTimeouts \in Nat /\ MaxDeaths \in Nat /\ MaxLoadErrors \in Nat
        /\ timeouts \in 0..MaxTimeouts /\ deaths \in 0..MaxDeaths
        /\ loadErrors \in 0..MaxLoadErrors
    BY EmaAssumption DEF TypeOK
  <2>4. timeouts' \in 0..MaxTimeouts
    BY <2>1, <2>3
  <2>5. deaths' \in 0..MaxDeaths
    BY <2>1, <2>3
  <2>6. loadErrors' \in 0..MaxLoadErrors
    BY <2>1, <2>3
  <2> QED
    BY <1>1, <1>3, <2>2, <2>4, <2>5, <2>6
<1>8. CASE WaitBegins \/ ReceiveDone \/ ReceiveFailed \/ NothingArrives \/ WorkerStarted \/ WorkerNeverStarts
  BY <1>1, <1>2, <1>3, <1>8
  DEF WaitBegins, ReceiveDone, ReceiveFailed, NothingArrives, WorkerStarted,
      WorkerNeverStarts, bufferVars
<1>9. CASE LoadNothing \/ LoadOnDeadWorker \/ Save \/ RequestSave \/ FinalSaveDone \/ TrainerCloses
  BY <1>1, <1>2, <1>3, <1>9
  DEF LoadNothing, LoadOnDeadWorker, Save, RequestSave, FinalSaveDone, TrainerCloses,
      bufferVars
<1>10. CASE CloseWaitsForSave \/ CloseTerminates \/ Joined \/ ForceClose
  BY <1>1, <1>2, <1>3, <1>10
  DEF CloseWaitsForSave, CloseTerminates, Joined, ForceClose, bufferVars
<1>11. CASE WorkerStarts \/ WorkerTakes \/ WorkerUpdates \/ WorkerSaves \/ WorkerLoads
  BY <1>1, <1>2, <1>3, <1>11
  DEF WorkerStarts, WorkerTakes, WorkerUpdates, WorkerSaves, WorkerLoads, mainVars,
      bufferVars
<1>12. CASE CopyDone
  BY <1>1, <1>2, <1>12 DEF CopyDone, mainVars
<1>13. CASE Stopped \/ UNCHANGED vars
  BY <1>1, <1>2, <1>3, <1>13 DEF Stopped, vars, mainVars, bufferVars
<1> QED
  BY <1>4, <1>5, <1>6, <1>7, <1>8, <1>9, <1>10, <1>11, <1>12, <1>13
  DEF Next, Manager, Worker, Environment

(* The messages, the buffer and the worker keep their types.               *)
MessagesTyped ==
  /\ pending \in [Actions -> Nat]
  /\ commands \in Seq(CommandMessages) /\ replies \in Seq(ReplyMessages)
  /\ worker \in [cmd: Actions \cup {"none", "gone", "starting"}, step: 0..Steps]
  /\ ema \in 0..Steps \cup {NoEma} /\ buffer \in 0..Steps
  /\ saved \subseteq (0..Steps) \X (0..Steps)

(* Whatever step is taken, the queues and the worker hold well-formed messages. *)
LEMMA MessagesStep ==
  ASSUME TypeOK, Counted, [Next]_vars
  PROVE  MessagesTyped'
<1>a. MessagesTyped /\ step \in 0..Steps /\ Steps \in Nat
  BY EmaAssumption DEF TypeOK, MessagesTyped
<1>b. {"update", "save", "load"} = Actions
  BY DEF Actions
<1>c. Idle \in [cmd: Actions \cup {"none", "gone", "starting"}, step: 0..Steps]
      /\ Gone \in [cmd: Actions \cup {"none", "gone", "starting"}, step: 0..Steps]
  BY EmaAssumption DEF Idle, Gone
<1>1. CASE Quiet
  BY <1>1, <1>a, <1>c DEF Quiet, MessagesTyped
<1>2. CASE ReceiveDone
  <2>1. pending' \in [Actions -> Nat]
    <3>1. CASE Head(replies).action \in Actions
      BY <1>2, <1>a, <3>1, ReplyPending DEF ReceiveDone, Booked, MessagesTyped
    <3>2. CASE Head(replies).action \notin Actions
      BY <1>2, <1>a, <3>2 DEF ReceiveDone, Booked, MessagesTyped
    <3> QED
      BY <3>1, <3>2
  <2> QED
    BY <1>2, <1>a, <2>1, HeadTailProperties
    DEF ReceiveDone, MessagesTyped, bufferVars, workerVars
<1>3. CASE ReceiveFailed \/ WorkerStarted
  <2>1. /\ replies # << >> /\ replies' = Tail(replies)
        /\ UNCHANGED <<pending, commands, worker, ema, buffer, saved>>
    BY <1>3, Zenon DEF ReceiveFailed, WorkerStarted, bufferVars, workerVars
  <2> QED
    BY <1>a, <2>1, HeadTailProperties DEF MessagesTyped
<1>4. CASE Load
  <2>1. commands' \in Seq(CommandMessages)
    BY <1>4, LoadPuts, AppendProperties
  <2>2. pending' \in [Actions -> Nat] /\ buffer' = step
    BY <1>4, <1>a, LoadPuts DEF MessagesTyped, Actions
  <2> QED
    BY <1>4, <1>a, <2>1, <2>2 DEF Load, MessagesTyped, workerVars
<1>5. CASE UpdateEma
  <2>1. commands' \in Seq(CommandMessages)
    BY <1>5, <1>a, <1>b, Messages, AppendProperties DEF UpdateEma, MessagesTyped
  <2>2. pending' \in [Actions -> Nat]
    BY <1>5, <1>a DEF UpdateEma, MessagesTyped, Actions
  <2> QED
    BY <1>5, <1>a, <2>1, <2>2 DEF UpdateEma, Stage, MessagesTyped, workerVars
<1>6. CASE RequestSave
  <2>1. commands' \in Seq(CommandMessages)
    BY <1>6, <1>a, <1>b, Messages, AppendProperties DEF RequestSave, MessagesTyped
  <2>2. pending' \in [Actions -> Nat]
    BY <1>6, <1>a DEF RequestSave, MessagesTyped, Actions
  <2> QED
    BY <1>6, <1>a, <2>1, <2>2 DEF RequestSave, MessagesTyped, bufferVars, workerVars
<1>7. CASE CloseTerminates \/ ForceClose
  <2>1. Command("terminate", 0) \in CommandMessages
    BY <1>a, Messages
  <2>2. commands' \in Seq(CommandMessages)
    <3>1. CASE CloseTerminates
      BY <1>a, <2>1, <3>1, AppendProperties DEF CloseTerminates, MessagesTyped
    <3>2. CASE ForceClose
      BY <2>1, <3>2 DEF ForceClose
    <3> QED
      BY <1>7, <3>1, <3>2
  <2> QED
    BY <1>7, <1>a, <2>2
    DEF CloseTerminates, ForceClose, MessagesTyped, bufferVars, workerVars
<1>8. CASE WorkerTakes
  <2>1. Head(commands) \in CommandMessages /\ Tail(commands) \in Seq(CommandMessages)
    BY <1>8, <1>a, HeadTailProperties DEF WorkerTakes, MessagesTyped
  <2>2. worker' \in [cmd: Actions \cup {"none", "gone", "starting"}, step: 0..Steps]
    BY <1>8, <1>c, <2>1 DEF WorkerTakes, CommandMessages
  <2> QED
    BY <1>8, <1>a, <2>1, <2>2 DEF WorkerTakes, MessagesTyped, mainVars, bufferVars
<1>9. CASE WorkerStarts \/ WorkerUpdates \/ WorkerSaves \/ WorkerLoads \/ WorkerCannotLoad
  <2>1. \E a \in Actions \cup {"started"}, ok \in BOOLEAN : replies' = Append(replies, Reply(a, ok))
    BY <1>9, <1>b
    DEF WorkerStarts, WorkerUpdates, WorkerSaves, WorkerLoads, WorkerCannotLoad, Started
  <2>2. replies' \in Seq(ReplyMessages)
    BY <1>a, <2>1, Messages, AppendProperties DEF MessagesTyped
  <2>3. /\ UNCHANGED <<pending, commands, buffer>> /\ worker' = Idle
        /\ (ema' = ema \/ ema' = buffer)
        /\ \/ saved' = saved
           \/ ema # NoEma /\ saved' = saved \cup {<<worker.step, ema>>}
    <3>1. CASE WorkerStarts \/ WorkerLoads \/ WorkerCannotLoad
      BY <3>1 DEF WorkerStarts, WorkerLoads, WorkerCannotLoad, mainVars, bufferVars
    <3>2. CASE WorkerUpdates
      BY <3>2 DEF WorkerUpdates, mainVars, bufferVars
    <3>3. CASE WorkerSaves
      BY <3>3 DEF WorkerSaves, mainVars, bufferVars
    <3> QED
      BY <1>9, <3>1, <3>2, <3>3
  <2>4. saved' \subseteq (0..Steps) \X (0..Steps)
    BY <1>a, <2>3 DEF MessagesTyped
  <2> QED
    BY <1>a, <1>c, <2>2, <2>3, <2>4 DEF MessagesTyped
<1> QED
  BY <1>1, <1>2, <1>3, <1>4, <1>5, <1>6, <1>7, <1>8, <1>9, StepKinds
  DEF Receives, Puts, Works

(* The variables keep their types.                                         *)
LEMMA TypeStep == ASSUME TypeOK, Counted, Progress, [Next]_vars PROVE TypeOK'
<1>1. Control
  BY DEF TypeOK, Control
<1>2. Control'
  BY <1>1, ControlStep
<1> QED
  BY <1>2, NumbersStep, MessagesStep DEF TypeOK, Control, MessagesTyped

-----------------------------------------------------------------------------
(* The counts                                                              *)

(* What putting a command does to the queue and to its counts.             *)
LEMMA PutCommand ==
  ASSUME NEW q \in Seq(CommandMessages), NEW c \in Actions \cup {"terminate"}, NEW s \in 0..Steps
  PROVE  /\ Append(q, Command(c, s)) \in Seq(CommandMessages)
         /\ Len(q) \in Nat /\ Len(Append(q, Command(c, s))) = Len(q) + 1
         /\ \A i \in 1 .. Len(q) + 1 :
              Append(q, Command(c, s))[i] = IF i <= Len(q) THEN q[i] ELSE Command(c, s)
         /\ \A a : Occurrences(Append(q, Command(c, s)), CommandsOf(a))
                     = Occurrences(q, CommandsOf(a)) + (IF a = c THEN 1 ELSE 0)
<1> DEFINE e == Command(c, s)
<1>1. e \in CommandMessages /\ \A a : e \in CommandsOf(a) <=> a = c
  BY Messages DEF Command, CommandsOf
<1> HIDE DEF e
<1>2. /\ Append(q, e) \in Seq(CommandMessages)
      /\ Len(q) \in Nat /\ Len(Append(q, e)) = Len(q) + 1
      /\ \A i \in 1 .. Len(q) + 1 : Append(q, e)[i] = IF i <= Len(q) THEN q[i] ELSE e
  BY <1>1, PutOccurrence
<1>3. \A a : Occurrences(Append(q, e), CommandsOf(a)) = Occurrences(q, CommandsOf(a)) + (IF a = c THEN 1 ELSE 0)
  BY <1>1, PutOccurrence
<1> QED
  BY <1>2, <1>3 DEF e

(* What taking a command does.                                             *)
LEMMA TakeCommand ==
  ASSUME NEW q \in Seq(CommandMessages), q # << >>
  PROVE  /\ Tail(q) \in Seq(CommandMessages) /\ Len(Tail(q)) = Len(q) - 1 /\ Len(q) \in Nat \ {0}
         /\ Head(q) \in CommandMessages /\ Head(q) = q[1]
         /\ \A i \in 1 .. (Len(q) - 1) : Tail(q)[i] = q[i + 1]
         /\ \A a : Occurrences(q, CommandsOf(a))
                     = Occurrences(Tail(q), CommandsOf(a)) + (IF Head(q).cmd = a THEN 1 ELSE 0)
<1>1. Head(q) \in CommandMessages
  BY TakeOccurrence
<1>2. \A a : Head(q) \in CommandsOf(a) <=> Head(q).cmd = a
  BY <1>1 DEF CommandMessages, CommandsOf
<1> QED
  BY <1>2, TakeOccurrence

(* What a reply put, or taken, does.                                       *)
LEMMA PutReply ==
  ASSUME NEW q \in Seq(ReplyMessages), NEW e \in ReplyMessages
  PROVE  /\ Len(q) \in Nat /\ Len(Append(q, e)) = Len(q) + 1
         /\ \A i \in 1 .. Len(q) + 1 : Append(q, e)[i] = IF i <= Len(q) THEN q[i] ELSE e
         /\ \A a : Occurrences(Append(q, e), RepliesTo(a))
                     = Occurrences(q, RepliesTo(a)) + (IF e.action = a THEN 1 ELSE 0)
<1>1. \A a : e \in RepliesTo(a) <=> e.action = a
  BY DEF RepliesTo, ReplyMessages
<1> QED
  BY <1>1, PutOccurrence

(* What is left of a queue when its first message is taken.                 *)
LEMMA TakeReply ==
  ASSUME NEW q \in Seq(ReplyMessages), q # << >>
  PROVE  /\ Len(Tail(q)) = Len(q) - 1 /\ Len(q) \in Nat \ {0}
         /\ Head(q) \in ReplyMessages /\ Head(q) = q[1]
         /\ \A i \in 1 .. (Len(q) - 1) : Tail(q)[i] = q[i + 1]
         /\ \A a : Occurrences(q, RepliesTo(a))
                     = Occurrences(Tail(q), RepliesTo(a)) + (IF Head(q).action = a THEN 1 ELSE 0)
<1>1. Head(q) \in ReplyMessages
  BY TakeOccurrence
<1>2. \A a : Head(q) \in RepliesTo(a) <=> Head(q).action = a
  BY <1>1 DEF ReplyMessages, RepliesTo
<1> QED
  BY <1>2, TakeOccurrence

(* No message is lost without the manager counting it.                     *)
LEMMA CountedStep == ASSUME TypeOK, Counted, Progress, [Next]_vars PROVE Counted'
<1>a. /\ commands \in Seq(CommandMessages) /\ replies \in Seq(ReplyMessages)
      /\ pending \in [Actions -> Nat] /\ step \in 0..Steps /\ Steps \in Nat
      /\ loadErrors \in Nat
  BY EmaAssumption DEF TypeOK
<1>b. /\ \A a \in Actions : Outstanding(a) <= pending[a]
      /\ Alive /\ pc # "force_join" => \A a \in {"update", "save"} : pending[a] = Outstanding(a)
      /\ FailuresKnown
  BY DEF Counted
<1>c. \A a : /\ Occurrences(commands, CommandsOf(a)) \in Nat
             /\ Occurrences(replies, RepliesTo(a)) \in Nat
  BY Numbers
<1>d. /\ Actions = {"update", "save", "load"} /\ step \in 0..Steps /\ 0 \in 0..Steps
      /\ \A c \in {"update", "save", "load", "terminate"} : c \in Actions \cup {"terminate"}
  BY <1>a DEF Actions
<1>e. \A a \in Actions : Outstanding(a) \in Nat /\ pending[a] \in Nat
  BY <1>a, Numbers
(* An action keeps its balance when pending and outstanding change alike.  *)
<1>f. ASSUME FailuresKnown',
             Alive' /\ pc' # "force_join" => Alive /\ pc # "force_join",
             \A a \in Actions : \E d \in {-1, 0, 1} :
               /\ Outstanding(a)' \in Int /\ Outstanding(a)' <= Outstanding(a) + d
               /\ pending'[a] = pending[a] + d
               /\ a # "load" /\ Alive' /\ pc' # "force_join" => Outstanding(a)' = Outstanding(a) + d
      PROVE  Counted'
  <2>1. ASSUME NEW a \in Actions PROVE Outstanding(a)' <= pending'[a]
    BY <1>b, <1>e, <1>f
  <2>2. ASSUME NEW a \in {"update", "save"}, Alive', pc' # "force_join"
        PROVE  pending'[a] = Outstanding(a)'
    <3>1. a \in Actions /\ a # "load"
      BY <1>d
    <3> QED
      BY <1>b, <1>e, <1>f, <2>2, <3>1
  <2> QED
    BY <1>f, <2>1, <2>2 DEF Counted
<1>1. CASE Quiet
  <2>1. /\ UNCHANGED <<pending, commands, replies, loadErrors>>
        /\ worker' = worker \/ worker' = Gone
        /\ pc = "force_join" /\ Alive' => pc' = "force_join"
    BY <1>1 DEF Quiet
  <2>2. FailuresKnown'
    BY <1>b, <2>1 DEF FailuresKnown
  <2>3. ASSUME NEW a \in Actions
        PROVE  /\ Outstanding(a)' \in Int /\ Outstanding(a)' <= Outstanding(a)
               /\ Alive' => Outstanding(a)' = Outstanding(a)
    BY <1>c, <1>d, <2>1 DEF Outstanding, Gone, Alive
  <2>4. Alive' => Alive
    BY <2>1 DEF Alive
  <2> QED
    BY <1>e, <1>f, <2>1, <2>2, <2>3, <2>4
<1>2. CASE Receives
  <2>1. /\ replies # << >> /\ replies' = Tail(replies)
        /\ UNCHANGED <<commands, worker>> /\ loadErrors' = loadErrors
        /\ pc # "force_join"
    BY <1>2, Zenon
    DEF Receives, ReceiveDone, ReceiveFailed, WorkerStarted, Waits, workerVars, boundVars
  <2>2. /\ Head(replies) = replies[1] /\ Len(replies) \in Nat \ {0} /\ Len(replies') = Len(replies) - 1
        /\ Head(replies) \in ReplyMessages
        /\ \A i \in 1 .. (Len(replies) - 1) : replies'[i] = replies[i + 1]
        /\ \A a : Occurrences(replies, RepliesTo(a))
                    = Occurrences(replies', RepliesTo(a)) + (IF Head(replies).action = a THEN 1 ELSE 0)
        /\ \A a : Occurrences(replies', RepliesTo(a)) \in Nat
    BY <1>a, <2>1, TakeReply, HeadTailProperties, OccurrencesFinite
  <2>3. FailuresKnown'
    BY <1>b, <2>1, <2>2 DEF FailuresKnown
  <2>4. ASSUME NEW a
        PROVE  /\ Outstanding(a) = Outstanding(a)' + (IF Head(replies).action = a THEN 1 ELSE 0)
               /\ Outstanding(a)' \in Nat
    <3>1. /\ Occurrences(commands, CommandsOf(a)) \in Nat /\ commands' = commands /\ worker' = worker
          /\ Occurrences(replies', RepliesTo(a)) \in Nat
          /\ Occurrences(replies, RepliesTo(a))
               = Occurrences(replies', RepliesTo(a)) + (IF Head(replies).action = a THEN 1 ELSE 0)
      BY <1>c, <2>1, <2>2
    <3> QED
      BY <3>1 DEF Outstanding
  <2>5. Alive' => Alive
    BY <2>1 DEF Alive
  <2>6. CASE ReceiveDone
    <3>1. \A a \in Actions : pending'[a] = pending[a] - (IF Head(replies).action = a THEN 1 ELSE 0)
      BY <1>a, <1>e, <2>6 DEF ReceiveDone, Booked
    <3> QED
      BY <1>e, <1>f, <2>1, <2>3, <2>4, <2>5, <3>1
  <2>7. CASE ReceiveFailed \/ WorkerStarted
    <3>1. pending' = pending
      BY <2>7, Zenon DEF ReceiveFailed, WorkerStarted
    <3>2. Head(replies).action \notin {"update", "save"}
      <4>1. CASE ReceiveFailed
        <5>1. ~Head(replies).done
          BY <4>1, Zenon DEF ReceiveFailed
        <5> QED
          BY <1>b, <2>2, <5>1 DEF FailuresKnown
      <4>2. CASE WorkerStarted
        <5>1. pending["update"] = 0 /\ pending["save"] = 0
          BY <4>2, <1>d DEF WorkerStarted, Progress
        <5>2. \A a \in {"update", "save"} : \A i \in 1 .. Len(replies) : replies[i].action # a
          BY <5>1, <1>d, NonePending
        <5> QED
          BY <5>2, <2>2
      <4> QED
        BY <2>7, <4>1, <4>2
    <3>3. \A a \in Actions : /\ Outstanding(a)' \in Int /\ Outstanding(a)' <= Outstanding(a)
                             /\ a # "load" => Outstanding(a)' = Outstanding(a)
      BY <1>d, <2>4, <3>2
    <3> QED
      BY <1>e, <1>f, <2>1, <2>3, <2>5, <3>1, <3>3
  <2> QED
    BY <1>2, <2>6, <2>7 DEF Receives
<1>3. CASE Load
  <2>1. /\ commands' = Append(Append(commands, Command("update", step)), Command("load", step))
        /\ Append(commands, Command("update", step)) \in Seq(CommandMessages)
        /\ pending' = [pending EXCEPT !["update"] = @ + 1, !["load"] = @ + 1]
        /\ UNCHANGED <<replies, worker, loadErrors>> /\ pc # "force_join"
    BY <1>3, LoadPuts DEF Load, workerVars, boundVars
  <2>2. \A a : Occurrences(commands', CommandsOf(a)) = Occurrences(commands, CommandsOf(a))
                 + (IF a = "update" THEN 1 ELSE 0) + (IF a = "load" THEN 1 ELSE 0)
    <3> DEFINE q == Append(commands, Command("update", step))
    <3>1. \A a : Occurrences(q, CommandsOf(a)) = Occurrences(commands, CommandsOf(a))
                   + (IF a = "update" THEN 1 ELSE 0)
      BY <1>a, <1>d, PutCommand
    <3> HIDE DEF q
    <3>2. \A a : Occurrences(Append(q, Command("load", step)), CommandsOf(a)) = Occurrences(q, CommandsOf(a))
                   + (IF a = "load" THEN 1 ELSE 0)
      BY <1>d, <2>1, PutCommand DEF q
    <3> QED
      BY <2>1, <3>1, <3>2, <1>c DEF q
  <2> DEFINE d(a) == IF a = "save" THEN 0 ELSE 1
  <2>3. ASSUME NEW a \in Actions
        PROVE  Outstanding(a)' = Outstanding(a) + d(a) /\ pending'[a] = pending[a] + d(a)
    <3>1. Occurrences(commands', CommandsOf(a)) = Occurrences(commands, CommandsOf(a)) + d(a)
      BY <1>c, <1>d, <2>2
    <3>2. pending'[a] = pending[a] + d(a)
      BY <1>a, <1>d, <1>e, <2>1
    <3> QED
      BY <1>c, <2>1, <3>1, <3>2 DEF Outstanding
  <2>4. FailuresKnown' /\ (Alive' => Alive)
    BY <1>b, <2>1 DEF FailuresKnown, Alive
  <2> HIDE DEF d
  <2>5. \A a \in Actions : Outstanding(a)' \in Int /\ d(a) \in {-1, 0, 1}
    BY <1>e, <2>3 DEF d
  <2>6. \A a \in Actions : \E k \in {-1, 0, 1} :
          /\ Outstanding(a)' \in Int /\ Outstanding(a)' <= Outstanding(a) + k
          /\ pending'[a] = pending[a] + k
          /\ Outstanding(a)' = Outstanding(a) + k
    BY <1>e, <2>3, <2>5
  <2> QED
    BY <1>f, <2>1, <2>4, <2>6
<1>4. CASE UpdateEma \/ RequestSave
  <2>1. PICK c \in {"update", "save"} :
          /\ commands' = Append(commands, Command(c, step))
          /\ pending' = [pending EXCEPT ![c] = @ + 1]
          /\ UNCHANGED <<replies, worker, loadErrors>> /\ pc # "force_join"
    BY <1>4 DEF UpdateEma, RequestSave, workerVars, boundVars
  <2>2. c \in Actions \cup {"terminate"}
    BY <1>d
  <2>3. \A a : Occurrences(commands', CommandsOf(a))
                 = Occurrences(commands, CommandsOf(a)) + (IF a = c THEN 1 ELSE 0)
    <3>1. commands \in Seq(CommandMessages) /\ step \in 0..Steps
      BY <1>a, <1>d
    <3>2. \A a : Occurrences(Append(commands, Command(c, step)), CommandsOf(a))
                   = Occurrences(commands, CommandsOf(a)) + (IF a = c THEN 1 ELSE 0)
      BY <2>2, <3>1, PutCommand
    <3> QED
      BY <2>1, <3>2
  <2>4. \A a \in Actions : /\ Outstanding(a)' = Outstanding(a) + (IF a = c THEN 1 ELSE 0)
                           /\ pending'[a] = pending[a] + (IF a = c THEN 1 ELSE 0)
    BY <1>a, <1>c, <1>e, <2>1, <2>3 DEF Outstanding
  <2> QED
    BY <1>b, <1>e, <1>f, <2>1, <2>4 DEF FailuresKnown, Alive
<1>5. CASE CloseTerminates
  <2>1. /\ commands' = Append(commands, Command("terminate", 0))
        /\ UNCHANGED <<pending, replies, worker, loadErrors>> /\ pc # "force_join"
    BY <1>5 DEF CloseTerminates, workerVars, boundVars
  <2>2. \A a \in Actions : Occurrences(commands', CommandsOf(a)) = Occurrences(commands, CommandsOf(a))
    <3>1. \A a : Occurrences(commands', CommandsOf(a))
                   = Occurrences(commands, CommandsOf(a)) + (IF a = "terminate" THEN 1 ELSE 0)
      BY <1>a, <1>d, <2>1, PutCommand
    <3> QED
      BY <1>c, <1>d, <3>1
  <2>3. \A a \in Actions : Outstanding(a)' = Outstanding(a)
    BY <2>1, <2>2 DEF Outstanding
  <2> QED
    BY <1>b, <1>e, <1>f, <2>1, <2>3 DEF FailuresKnown, Alive
<1>6. CASE ForceClose
  <2>1. /\ commands' = Append(<< >>, Command("terminate", 0))
        /\ UNCHANGED <<pending, replies, worker, loadErrors>> /\ pc' = "force_join"
    BY <1>6 DEF ForceClose, workerVars, boundVars
  <2>2. << >> \in Seq(CommandMessages) /\ \A a : Occurrences(<< >>, CommandsOf(a)) = 0
    BY EmptyOccurrence
  <2>3. \A a \in Actions : Occurrences(commands', CommandsOf(a)) = 0
    <3> DEFINE q == << >>
    <3>1. q \in Seq(CommandMessages) /\ commands' = Append(q, Command("terminate", 0))
      BY <2>1, <2>2
    <3> HIDE DEF q
    <3>2. \A a : Occurrences(commands', CommandsOf(a))
                   = Occurrences(q, CommandsOf(a)) + (IF a = "terminate" THEN 1 ELSE 0)
      BY <1>d, <3>1, PutCommand
    <3> QED
      BY <1>d, <2>2, <3>2 DEF q
  <2>4. \A a \in Actions : Outstanding(a)' \in Int /\ Outstanding(a)' <= Outstanding(a)
    BY <1>c, <2>1, <2>3 DEF Outstanding
  <2> QED
    BY <1>b, <1>e, <1>f, <2>1, <2>4 DEF FailuresKnown
<1>7. CASE WorkerTakes
  <2>1. /\ worker = Idle /\ commands # << >> /\ commands' = Tail(commands)
        /\ worker' = Gone \/ worker' = Head(commands)
        /\ UNCHANGED <<pc, pending, replies, loadErrors>>
    BY <1>7 DEF WorkerTakes, mainVars, boundVars
  <2>2. /\ Head(commands) \in CommandMessages
        /\ \A a : Occurrences(commands, CommandsOf(a)) = Occurrences(commands', CommandsOf(a))
                    + (IF Head(commands).cmd = a THEN 1 ELSE 0)
        /\ \A a : Occurrences(commands', CommandsOf(a)) \in Nat
    BY <1>a, <2>1, TakeCommand, OccurrencesFinite
  <2>3. Alive /\ \A a \in Actions : worker.cmd # a /\ Gone.cmd # a
    BY <1>d, <2>1 DEF Idle, Gone, Alive
  <2>4. Alive' => worker' = Head(commands)
    BY <2>1 DEF Alive
  <2>5. ASSUME NEW a \in Actions
        PROVE  /\ Outstanding(a)' \in Int /\ Outstanding(a)' <= Outstanding(a)
               /\ Alive' => Outstanding(a)' = Outstanding(a)
    BY <1>c, <2>1, <2>2, <2>3, <2>4 DEF Outstanding
  <2> QED
    BY <1>b, <1>e, <1>f, <2>1, <2>3, <2>5 DEF FailuresKnown
<1>8. CASE WorkerStarts \/ WorkerUpdates \/ WorkerSaves \/ WorkerLoads \/ WorkerCannotLoad
  <2>1. PICK e \in ReplyMessages :
          /\ replies' = Append(replies, e) /\ worker' = Idle
          /\ UNCHANGED <<pc, pending, commands>>
          /\ e.action = (IF worker.cmd = "starting" THEN "started" ELSE worker.cmd)
          /\ worker.cmd \in {"starting", "update", "save", "load"}
          /\ loadErrors' = loadErrors \/ loadErrors' = loadErrors + 1
          /\ ~e.done => e.action = "load" /\ loadErrors' = loadErrors + 1
    <3>1. CASE WorkerStarts
      <4>1. Started \in ReplyMessages
        BY Messages DEF Started
      <4>2. Started.action = "started" /\ Started.done
        BY DEF Started, Reply
      <4> QED
        BY <3>1, <4>1, <4>2 DEF WorkerStarts, mainVars, boundVars
    <3>2. CASE WorkerUpdates \/ WorkerSaves \/ WorkerLoads
      <4>1. PICK a \in {"update", "save", "load"} : worker.cmd = a /\ replies' = Append(replies, Reply(a, TRUE))
        BY <3>2 DEF WorkerUpdates, WorkerSaves, WorkerLoads
      <4>2. Reply(a, TRUE) \in ReplyMessages
        BY <1>d, Messages
      <4>3. Reply(a, TRUE).action = a /\ Reply(a, TRUE).done
        BY DEF Reply
      <4>4. UNCHANGED <<pc, pending, commands, loadErrors>> /\ worker' = Idle
        BY <3>2 DEF WorkerUpdates, WorkerSaves, WorkerLoads, mainVars, boundVars
      <4> QED
        BY <4>1, <4>2, <4>3, <4>4
    <3>3. CASE WorkerCannotLoad
      <4>1. Reply("load", FALSE) \in ReplyMessages
        BY <1>d, Messages
      <4>2. Reply("load", FALSE).action = "load"
        BY DEF Reply
      <4> QED
        BY <3>3, <4>1, <4>2 DEF WorkerCannotLoad, mainVars
    <3> QED
      BY <1>8, <3>1, <3>2, <3>3
  <2>2. /\ \A a : Occurrences(replies', RepliesTo(a))
                    = Occurrences(replies, RepliesTo(a)) + (IF e.action = a THEN 1 ELSE 0)
        /\ Len(replies) \in Nat /\ Len(replies') = Len(replies) + 1
        /\ \A i \in 1 .. Len(replies) + 1 : replies'[i] = IF i <= Len(replies) THEN replies[i] ELSE e
    BY <1>a, <2>1, PutReply
  <2>3. FailuresKnown'
    <3> SUFFICES ASSUME NEW i \in 1 .. Len(replies) + 1, ~replies'[i].done
                 PROVE  replies'[i].action = "load" /\ loadErrors' > 0
      BY <2>2 DEF FailuresKnown
    <3>1. CASE i <= Len(replies)
      BY <1>a, <1>b, <2>1, <2>2, <3>1 DEF FailuresKnown
    <3>2. CASE ~(i <= Len(replies))
      BY <1>a, <2>1, <2>2, <3>2
    <3> QED
      BY <3>1, <3>2
  <2>4. Alive
    BY <2>1 DEF Alive, Gone
  <2>5. \A a \in Actions : Outstanding(a)' = Outstanding(a)
    BY <1>c, <1>d, <2>1, <2>2 DEF Outstanding, Idle
  <2> QED
    BY <1>e, <1>f, <2>1, <2>3, <2>4, <2>5
<1> QED
  BY <1>1, <1>2, <1>3, <1>4, <1>5, <1>6, <1>7, <1>8, StepKinds DEF Puts, Works

-----------------------------------------------------------------------------
(* The manager's progress                                                  *)

(* A worker that is gone stays gone.                                       *)
LEMMA AliveStep == ASSUME [Next]_vars PROVE Alive' => Alive
<1>1. CASE Quiet
  BY <1>1 DEF Quiet, Alive
<1>2. CASE Receives \/ Puts
  <2>1. worker' = worker
    BY <1>2, Zenon
    DEF Receives, Puts, ReceiveDone, ReceiveFailed, WorkerStarted, Load, UpdateEma,
      RequestSave, CloseTerminates, ForceClose, workerVars
  <2> QED
    BY <2>1 DEF Alive
<1>3. CASE Works
  <2>1. worker.cmd \in {"starting", "none", "update", "save", "load"}
    <3>1. CASE WorkerTakes
      BY <3>1 DEF WorkerTakes, Idle
    <3>2. CASE ~WorkerTakes
      BY <1>3, <3>2
      DEF Works, WorkerStarts, WorkerUpdates, WorkerSaves, WorkerLoads, WorkerCannotLoad
    <3> QED
      BY <3>1, <3>2
  <2> QED
    BY <2>1 DEF Alive, Gone
<1> QED
  BY <1>1, <1>2, <1>3, StepKinds

(* Where the manager goes when it raises, closes or fails in a wait.       *)
LEMMA RaiseMoves ==
  ASSUME Raise
  PROVE  /\ pc' \in {"closed", "finally"} /\ (pc' = "closed" => closeError')
         /\ (closeError => closeError') /\ (trainError => trainError')
         /\ (pc' = "closed" \/ trainError')
<1>1. CASE closeError' = TRUE /\ pc' = "closed" /\ UNCHANGED trainError
  BY <1>1
<1>2. CASE trainError' = TRUE /\ pc' = "finally" /\ UNCHANGED closeError
  BY <1>2
<1> QED
  BY <1>1, <1>2 DEF Raise

(* Where a close() goes, and that it never switches the checkpointer on.    *)
LEMMA CloseMoves ==
  ASSUME NEW c \in {"train", "exit"}, CloseFor(c)
  PROVE  /\ pc' \in {"close_enter", "idle", "closed"}
         /\ pc' # "close_enter" => ~Alive
         /\ Alive => enabled' = enabled /\ pc' = "close_enter"
         /\ enabled' => enabled
         /\ c = "train" => pc' # "closed"
BY Zenon DEF CloseFor

(* Where a failed wait goes, and that it never switches the checkpointer on. *)
LEMMA WaitMoves ==
  ASSUME NEW b, WaitFails(b)
  PROVE  /\ pc' \in {"close_enter", "idle", "closed", "force", "finally"}
         /\ Alive => enabled' = enabled
         /\ enabled' => enabled
         /\ pc' = "closed" => closeError'
         /\ closeError => closeError'
         /\ trainError => trainError'
<1>1. CASE CloseFor("train") /\ UNCHANGED <<trainError, closeError>>
  BY <1>1, CloseMoves
<1>2. CASE pc' = "force" /\ UNCHANGED <<returnTo, enabled, trainError, closeError>>
  BY <1>2
<1>3. CASE Raise /\ UNCHANGED <<returnTo, enabled>>
  BY <1>3, RaiseMoves
<1> QED
  BY <1>1, <1>2, <1>3 DEF WaitFails

(* The manager counts the steps it trains, and turns the EMA off, or is     *)
(* closed, only over a worker that is gone.                                *)
LEMMA ProgressStep ==
  ASSUME TypeOK, Progress, [Next]_vars
  PROVE  Progress'
<1>a. /\ step \in 0..Steps /\ count \in 0..(Skip + 1 + Steps) /\ Steps \in Nat /\ Skip \in Nat
      /\ pc \in {"init", "load"} =>
           /\ step = 0 /\ count = 0 /\ enabled
           /\ commands = << >> /\ pending = [a \in Actions |-> 0]
      /\ count <= step + Skip + 1
      /\ pc \in Stepping \cup {"force_wait"} => step >= 1
      /\ ~enabled => ~Alive
      /\ pc = "closed" /\ ~closeError => ~Alive
      /\ Alive' => Alive
  BY AliveStep, EmaAssumption DEF TypeOK, Progress
<1> DEFINE Same == step' = step /\ count' = count
           NotEarly == pc' \notin {"init", "load"}
           NotIn == pc' \in Stepping \cup {"force_wait"} => pc \in Stepping \cup {"force_wait"}
           Off == ~enabled' => ~enabled \/ ~Alive
           End == pc' = "closed" /\ ~closeError' => ~Alive
(* A step that leaves the numbers alone and enters no training step.       *)
<1>b. ASSUME Same, NotEarly, NotIn, Off, End PROVE Progress'
  BY <1>a, <1>b DEF Progress
<1>1. CASE ReceiveFailed \/ NothingArrives \/ TimesOut
  <2>1. PICK b \in BOOLEAN : WaitFails(b) /\ Same
    BY <1>1, Zenon DEF ReceiveFailed, NothingArrives, TimesOut
  <2> QED
    BY <1>b, <2>1, WaitMoves DEF Stepping
<1>2. CASE WaitBegins
  <2>1. CASE WaitFails(FALSE)
    <3>1. Same
      BY <1>2, Zenon DEF WaitBegins
    <3> QED
      BY <1>b, <2>1, <3>1, WaitMoves DEF Stepping
  <2>2. CASE /\ pc' = [update_enter |-> "update_wait", save_enter |-> "save_wait",
                      close_enter |-> "close_update"][pc]
             /\ UNCHANGED <<returnTo, enabled, trainError, closeError>>
    <3>1. Same /\ pc \in Enters
      BY <1>2, Zenon DEF WaitBegins
    <3>2. NotEarly /\ NotIn /\ pc' # "closed"
      BY <2>2, <3>1 DEF Enters, Stepping
    <3> QED
      BY <1>b, <2>2, <3>1, <3>2
  <2> QED
    BY <1>2, <2>1, <2>2, Zenon DEF WaitBegins
<1>3. CASE WorkerNeverStarts \/ StartTimesOut
  <2>1. CloseFor("train") /\ Same /\ pc = "init"
    BY <1>3 DEF WorkerNeverStarts, StartTimesOut
  <2> QED
    BY <1>b, <2>1, CloseMoves DEF Stepping
<1>4. CASE TrainerCloses
  <2>1. CASE CloseFor("exit")
    BY <1>4, <1>b, <2>1, CloseMoves DEF TrainerCloses, Stepping
  <2>2. CASE ~enabled /\ pc' = "closed" /\ UNCHANGED enabled
    BY <1>4, <1>a, <1>b, <2>2 DEF TrainerCloses, Stepping
  <2> QED
    BY <1>4, <2>1, <2>2 DEF TrainerCloses
<1>5. CASE LoadOnDeadWorker \/ Save \/ RequestSave \/ CloseWaitsForSave
  <2>1. Same /\ enabled' = enabled
    BY <1>5 DEF LoadOnDeadWorker, Save, RequestSave, CloseWaitsForSave
  <2>2. CASE Raise
    BY <1>b, <2>1, <2>2, RaiseMoves DEF Stepping
  <2>3. CASE ~Raise
    <3>1. NotEarly /\ NotIn /\ pc' # "closed"
      BY <1>5, <2>3 DEF LoadOnDeadWorker, Save, RequestSave, CloseWaitsForSave, Stepping
    <3> QED
      BY <1>b, <2>1, <3>1
  <2> QED
    BY <2>2, <2>3
<1>6. CASE NextStep
  <2>1. step' = step + 1 /\ pc = "idle" /\ enabled' = enabled
    BY <1>6 DEF NextStep
  <2>2. CASE Raise
    <3>1. count' = count
      BY <1>6, <1>a, <2>2, RaiseMoves DEF NextStep
    <3> QED
      BY <1>a, <2>1, <2>2, <3>1, RaiseMoves DEF Progress, Stepping
  <2>3. CASE ~Raise
    <3>1. /\ count' \in {count, count + 1} /\ pc' \in {"save", "update_enter"}
          /\ closeError' = closeError
      BY <1>6, <2>3 DEF NextStep
    <3> QED
      BY <1>a, <2>1, <3>1 DEF Progress, Stepping
  <2> QED
    BY <2>2, <2>3
<1>7. CASE Load
  BY <1>7, <1>a DEF Load, CountForLoad, Progress, Stepping
<1>8. CASE WorkerStarted
  <2>1. /\ pc = "init" /\ pc' = "load"
        /\ UNCHANGED <<step, count, enabled, commands, pending, closeError>>
    BY <1>8 DEF WorkerStarted
  <2> QED
    BY <1>a, <2>1 DEF Progress, Stepping
<1>9. CASE LoadNothing \/ ReceiveDone \/ UpdateEma \/ FinalSaveDone \/ CloseTerminates \/ ForceClose \/ JoinTimesOut
  <2>1. /\ Same /\ enabled' = enabled /\ NotEarly /\ NotIn
        /\ pc' # "closed"
    BY <1>9
    DEF LoadNothing, ReceiveDone, UpdateEma, FinalSaveDone, CloseTerminates, ForceClose,
                JoinTimesOut, Waits, Stepping
  <2> QED
    BY <1>b, <2>1
<1>10. CASE Joined
  BY <1>10, <1>b DEF Joined, AfterClose, Stepping
<1>11. CASE Worker \/ WorkerCannotLoad \/ WorkerDies \/ CopyDone \/ Stopped \/ UNCHANGED vars
  <2>1. UNCHANGED mainVars
    BY <1>11 DEF Worker, WorkerStarts, WorkerTakes, WorkerUpdates, WorkerSaves, WorkerLoads,
                 WorkerCannotLoad, WorkerDies, CopyDone, Stopped, vars
  <2>2. commands = << >> => commands' = << >>
    BY <1>11 DEF Worker, WorkerStarts, WorkerTakes, WorkerUpdates, WorkerSaves, WorkerLoads,
                 WorkerCannotLoad, WorkerDies, CopyDone, Stopped, vars
  <2> QED
    BY <1>a, <2>1, <2>2 DEF Progress, mainVars
<1> QED
  BY <1>1, <1>2, <1>3, <1>4, <1>5, <1>6, <1>7, <1>8, <1>9, <1>10, <1>11
  DEF Next, Manager, Environment

-----------------------------------------------------------------------------
(* The updates and the saves                                               *)

(* What a step does to the queue of commands, the buffer and the worker.   *)
Apart == UNCHANGED <<commands, buffer, ema, saved>> /\ worker' \in {worker, Gone}

Answers ==
  /\ UNCHANGED <<commands, buffer, pc, count, step, enabled>> /\ worker' = Idle
  /\ worker.cmd \in {"starting", "update", "save", "load"}
  /\ ema' = IF worker.cmd = "update" THEN buffer ELSE ema
  /\ saved' = IF worker.cmd = "save" /\ ema # NoEma THEN saved \cup {<<worker.step, ema>>} ELSE saved

(* The steps that touch a queue, the buffer or the worker; all others are Apart. *)
LEMMA QueueSteps ==
  [Next]_vars =>
    \/ Apart \/ Load \/ UpdateEma \/ RequestSave \/ CloseTerminates \/ ForceClose
    \/ WorkerTakes \/ Answers
<1> SUFFICES ASSUME [Next]_vars
             PROVE  \/ Apart \/ Load \/ UpdateEma \/ RequestSave \/ CloseTerminates \/ ForceClose
                    \/ WorkerTakes \/ Answers
  OBVIOUS
<1>1. CASE Quiet
  BY <1>1 DEF Quiet, Apart
<1>2. CASE Receives
  <2>1. UNCHANGED <<commands, buffer, worker, ema, saved>>
    BY <1>2, Zenon
    DEF Receives, ReceiveDone, ReceiveFailed, WorkerStarted, bufferVars, workerVars
  <2> QED
    BY <2>1 DEF Apart
<1>3. CASE WorkerStarts \/ WorkerLoads \/ WorkerCannotLoad
  BY <1>3 DEF WorkerStarts, WorkerLoads, WorkerCannotLoad, Answers, mainVars, bufferVars
<1>4. CASE WorkerUpdates
  BY <1>4 DEF WorkerUpdates, Answers, mainVars, bufferVars
<1>5. CASE WorkerSaves
  BY <1>5 DEF WorkerSaves, Answers, mainVars, bufferVars
<1> QED
  BY <1>1, <1>2, <1>3, <1>4, <1>5, StepKinds DEF Puts, Works

(* An update is staged when none is outstanding.                           *)
LEMMA FreshStep ==
  ASSUME TypeOK, Counted, Progress, Fresh, [Next]_vars
  PROVE  Fresh'
<1>a. /\ commands \in Seq(CommandMessages) /\ step \in 0..Steps /\ Steps \in Nat
      /\ worker.cmd = "update" => worker.step = buffer
      /\ \A i \in 1..Len(commands) : commands[i].cmd = "update" => commands[i].step = buffer
  BY EmaAssumption DEF TypeOK, Fresh
<1>b. \A c \in {"update", "save", "load", "terminate"} :
        c \in Actions \cup {"terminate"} /\ \A s : Command(c, s).cmd = c /\ Command(c, s).step = s
  BY DEF Actions, Command
<1>1. CASE Apart
  BY <1>1, <1>a DEF Apart, Fresh, Gone
<1>2. CASE Load
  <2> DEFINE q == Append(commands, Command("update", step))
  <2>1. /\ commands' = Append(q, Command("load", step)) /\ buffer' = step
        /\ q \in Seq(CommandMessages)
    BY <1>2, LoadPuts
  <2>2. /\ Len(commands) = 0 /\ worker.cmd # "update" /\ worker' = worker
    <3>1. pending["update"] = 0 /\ commands = << >> /\ worker' = worker
      BY <1>2 DEF Load, Progress, Actions, workerVars
    <3> QED
      BY <3>1, NonePending, EmptySeq DEF Actions
  <2>3. Len(q) = 1 /\ q[1] = Command("update", step)
    BY <1>a, <1>b, <2>2, PutCommand
  <2> HIDE DEF q
  <2>4. /\ Len(commands') = 2 /\ commands'[1] = Command("update", step)
        /\ commands'[2] = Command("load", step)
    <3>1. /\ Len(commands') = Len(q) + 1
          /\ \A i \in 1 .. Len(q) + 1 : commands'[i] = IF i <= Len(q) THEN q[i] ELSE Command("load", step)
      BY <1>a, <1>b, <2>1, PutCommand
    <3> QED
      BY <2>3, <3>1
  <2> QED
    BY <1>b, <2>1, <2>2, <2>4 DEF Fresh
<1>3. CASE UpdateEma
  <2>1. /\ commands' = Append(commands, Command("update", step)) /\ buffer' = step
        /\ worker' = worker /\ pending["update"] = 0
    BY <1>3 DEF UpdateEma, Stage, Drained, Awaited, workerVars
  <2>2. worker.cmd # "update" /\ \A i \in 1..Len(commands) : commands[i].cmd # "update"
    BY <2>1, NonePending DEF Actions
  <2>3. /\ Len(commands) \in Nat /\ Len(commands') = Len(commands) + 1
        /\ \A i \in 1 .. Len(commands) + 1 :
             commands'[i] = IF i <= Len(commands) THEN commands[i] ELSE Command("update", step)
    BY <1>a, <1>b, <2>1, PutCommand
  <2> QED
    BY <1>b, <2>1, <2>2, <2>3 DEF Fresh
<1>4. CASE RequestSave \/ CloseTerminates
  <2>1. PICK c \in {"save", "terminate"}, s \in 0..Steps : commands' = Append(commands, Command(c, s))
    BY <1>4, <1>a DEF RequestSave, CloseTerminates
  <2>2. UNCHANGED <<buffer, worker>>
    BY <1>4 DEF RequestSave, CloseTerminates, bufferVars, workerVars
  <2>3. /\ Len(commands) \in Nat /\ Len(commands') = Len(commands) + 1
        /\ \A i \in 1 .. Len(commands) + 1 :
             commands'[i] = IF i <= Len(commands) THEN commands[i] ELSE Command(c, s)
    BY <1>a, <1>b, <2>1, PutCommand
  <2> QED
    BY <1>a, <1>b, <2>1, <2>2, <2>3 DEF Fresh
<1>5. CASE ForceClose
  BY <1>5, <1>a, <1>b DEF ForceClose, Fresh, bufferVars, workerVars
<1>6. CASE WorkerTakes
  <2>1. /\ commands # << >> /\ commands' = Tail(commands) /\ buffer' = buffer
        /\ worker' = Gone \/ worker' = Head(commands)
    BY <1>6 DEF WorkerTakes, bufferVars
  <2>2. /\ Len(commands') = Len(commands) - 1 /\ Len(commands) \in Nat \ {0}
        /\ Head(commands) = commands[1]
        /\ \A i \in 1 .. (Len(commands) - 1) : commands'[i] = commands[i + 1]
    BY <1>a, <2>1, TakeCommand
  <2> QED
    BY <1>a, <2>1, <2>2 DEF Fresh, Gone
<1>7. CASE Answers
  BY <1>7, <1>a DEF Answers, Fresh, Idle
<1> QED
  BY <1>1, <1>2, <1>3, <1>4, <1>5, <1>6, <1>7, QueueSteps

(* save() is entered from update_ema, or by a step that needs no update.   *)
LEMMA SaveEntered ==
  ASSUME [Next]_vars, ~NextStep, ~UpdateEma, pc' \in InSave
  PROVE  /\ pc \in InSave /\ UNCHANGED <<step, count, enabled>>
         /\ pc' = pc \/ pc = "save_enter" \/ Save
<1>1. CASE ReceiveFailed \/ NothingArrives \/ TimesOut
  <2>1. \E b \in BOOLEAN : WaitFails(b)
    BY <1>1, Zenon DEF ReceiveFailed, NothingArrives, TimesOut
  <2> QED
    BY <2>1, WaitMoves DEF InSave
<1>2. CASE WaitBegins
  <2>1. ~WaitFails(FALSE)
    BY WaitMoves DEF InSave
  <2>2. /\ pc \in Enters /\ UNCHANGED <<step, count, enabled>>
        /\ pc' = [update_enter |-> "update_wait", save_enter |-> "save_wait",
                  close_enter |-> "close_update"][pc]
    BY <1>2, <2>1, Zenon DEF WaitBegins
  <2> QED
    BY <2>2 DEF Enters, InSave
<1>3. CASE WorkerNeverStarts \/ StartTimesOut \/ TrainerCloses
  <2>1. \/ \E c \in {"train", "exit"} : CloseFor(c)
        \/ pc' = "closed"
    BY <1>3 DEF WorkerNeverStarts, StartTimesOut, TrainerCloses
  <2> QED
    BY <2>1, CloseMoves DEF InSave
<1>4. CASE LoadOnDeadWorker \/ Save \/ RequestSave \/ CloseWaitsForSave
  <2>1. ~Raise
    BY RaiseMoves DEF InSave
  <2> QED
    BY <1>4, <2>1 DEF LoadOnDeadWorker, Save, RequestSave, CloseWaitsForSave, InSave
<1>5. CASE ReceiveDone
  BY <1>5 DEF ReceiveDone
<1>6. CASE \/ WorkerStarted \/ Load \/ LoadNothing \/ FinalSaveDone
           \/ CloseTerminates \/ ForceClose \/ Joined
  BY <1>6
  DEF WorkerStarted, Load, LoadNothing, FinalSaveDone, CloseTerminates, ForceClose, Joined,
      AfterClose, InSave
<1>7. CASE JoinTimesOut
  BY <1>7 DEF JoinTimesOut, InSave
<1>8. CASE Worker \/ WorkerCannotLoad \/ WorkerDies \/ CopyDone \/ Stopped \/ UNCHANGED vars
  <2>1. UNCHANGED mainVars
    BY <1>8 DEF Worker, WorkerStarts, WorkerTakes, WorkerUpdates, WorkerSaves, WorkerLoads,
                WorkerCannotLoad, WorkerDies, CopyDone, Stopped, vars
  <2> QED
    BY <2>1 DEF mainVars
<1> QED
  BY <1>1, <1>2, <1>3, <1>4, <1>5, <1>6, <1>7, <1>8 DEF Next, Manager, Environment

(* save() waits for an update only at a step that is due and warmed up.    *)
LEMMA SaveCalledStep == ASSUME SaveCalled, [Next]_vars PROVE SaveCalled'
<1> SUFFICES ASSUME pc' \in {"save_enter", "save_wait"} PROVE ShouldSave' /\ WarmupFinished'
  BY DEF SaveCalled
<1>1. ~NextStep /\ ~UpdateEma
  BY RaiseMoves DEF NextStep, UpdateEma
<1>2. /\ pc \in InSave /\ UNCHANGED <<step, count>>
      /\ pc' = pc \/ pc = "save_enter" \/ Save
  BY <1>1, SaveEntered DEF InSave
<1>3. CASE Save
  <2>1. ~Raise
    BY RaiseMoves
  <2> QED
    BY <1>2, <1>3, <2>1 DEF Save, ShouldSave, WarmupFinished
<1>4. CASE ~Save
  BY <1>2, <1>4 DEF SaveCalled, ShouldSave, WarmupFinished
<1> QED
  BY <1>3, <1>4

(* An update is not lost between the queue and the EMA state.              *)
LEMMA UpdatedStep ==
  ASSUME TypeOK, Updated, [Next]_vars
  PROVE  Updated'
<1>a. /\ commands \in Seq(CommandMessages) /\ step \in 0..Steps
      /\ \A s : Command("update", s).cmd = "update"
      /\ "update" \in Actions \cup {"terminate"}
      /\ Alive' => Alive
  BY AliveStep DEF TypeOK, Command, Actions
<1> SUFFICES ASSUME Alive', enabled', Skip <= count', pc' \in InSave
             PROVE  buffer' = step' /\ (ema' = step' \/ Updating')
  BY DEF Updated
<1>1. CASE NextStep
  <2>1. ~Raise
    BY RaiseMoves DEF InSave
  <2>2. (~enabled /\ enabled' = enabled) \/ pc' = "update_enter" \/ ~(Skip <= count')
    BY <1>1, <2>1 DEF NextStep
  <2> QED
    BY <2>2 DEF InSave
<1>2. CASE UpdateEma
  <2>1. buffer' = step /\ step' = step /\ commands' = Append(commands, Command("update", step))
    BY <1>2 DEF UpdateEma, Stage
  <2>2. /\ Len(commands) \in Nat /\ Len(commands') = Len(commands) + 1
        /\ commands'[Len(commands) + 1] = Command("update", step)
    BY <1>a, <2>1, PutCommand
  <2>3. Updating'
    BY <1>a, <2>2 DEF Updating
  <2> QED
    BY <2>1, <2>3
<1>3. CASE ~NextStep /\ ~UpdateEma
  <2>1. pc \in InSave /\ UNCHANGED <<step, count, enabled>>
    BY <1>3, SaveEntered
  <2>2. buffer = step /\ (ema = step \/ Updating)
    BY <1>a, <2>1 DEF Updated
  <2>3. CASE Apart
    BY <2>1, <2>2, <2>3 DEF Apart, Updating, Alive
  <2>4. CASE RequestSave
    <3>1. ~Raise
      BY RaiseMoves DEF InSave
    <3> QED
      BY <2>4, <3>1 DEF RequestSave, InSave
  <2>5. CASE Load \/ CloseTerminates \/ ForceClose
    BY <2>5 DEF Load, CloseTerminates, ForceClose, InSave
  <2>6. CASE WorkerTakes
    <3>1. /\ commands # << >> /\ commands' = Tail(commands) /\ UNCHANGED <<buffer, ema>>
          /\ worker' = Head(commands) /\ worker = Idle
      BY <2>6 DEF WorkerTakes, bufferVars, Alive
    <3>2. /\ Len(commands') = Len(commands) - 1 /\ Len(commands) \in Nat \ {0}
          /\ Head(commands) = commands[1]
          /\ \A i \in 1 .. (Len(commands) - 1) : commands'[i] = commands[i + 1]
      BY <1>a, <3>1, TakeCommand
    <3>3. Updating => Updating'
      <4> SUFFICES ASSUME Updating PROVE Updating'
        OBVIOUS
      <4>1. PICK i \in 1..Len(commands) : commands[i].cmd = "update"
        BY <3>1 DEF Updating, Idle
      <4>2. CASE i = 1
        BY <3>1, <3>2, <4>1, <4>2 DEF Updating
      <4>3. CASE i # 1
        <5>1. i - 1 \in 1..Len(commands') /\ commands'[i - 1] = commands[i]
          BY <3>2, <4>3
        <5> QED
          BY <4>1, <5>1 DEF Updating
      <4> QED
        BY <4>2, <4>3
    <3> QED
      BY <2>1, <2>2, <3>1, <3>3
  <2>7. CASE Answers
    BY <2>1, <2>2, <2>7 DEF Answers, Updating
  <2> QED
    BY <1>3, <2>3, <2>4, <2>5, <2>6, <2>7, QueueSteps
<1> QED
  BY <1>1, <1>2, <1>3

(* A save is asked for when its update is answered, and the next update    *)
(* comes behind it in the queue.                                           *)
LEMMA QueueOrderStep ==
  ASSUME TypeOK, Counted, Progress, SaveCalled, Updated, QueueOrder, [Next]_vars
  PROVE  QueueOrder'
<1> SUFFICES ASSUME Alive' PROVE QueueOrder'
  BY DEF QueueOrder
<1>a. /\ commands \in Seq(CommandMessages) /\ step \in 0..Steps /\ Steps \in Nat
      /\ Alive /\ enabled
      /\ \A c \in {"update", "save", "load", "terminate"} :
           c \in Actions \cup {"terminate"} /\ \A s : Command(c, s).cmd = c /\ Command(c, s).step = s
  BY AliveStep, EmaAssumption DEF TypeOK, Progress, Actions, Command
<1> DEFINE LoadReady(i) ==
             commands[i].cmd = "load" =>
               \/ ema # NoEma \/ worker.cmd = "update"
               \/ \E j \in 1..(i - 1) : commands[j].cmd = "update"
           SaveReady(i) ==
             commands[i].cmd = "save" =>
               /\ ema = commands[i].step /\ worker.cmd # "update"
               /\ \A j \in 1..(i - 1) : commands[j].cmd # "update"
<1>b. /\ worker.cmd = "save" => ema = worker.step
      /\ \A i \in 1..Len(commands) : LoadReady(i) /\ SaveReady(i)
  BY <1>a DEF QueueOrder
<1>1. CASE Apart
  BY <1>1, <1>b DEF Apart, QueueOrder, Alive
<1>2. CASE Load
  <2> DEFINE q == Append(commands, Command("update", step))
  <2>1. /\ commands' = Append(q, Command("load", step)) /\ q \in Seq(CommandMessages)
        /\ UNCHANGED <<worker, ema>> /\ Len(commands) = 0
    BY <1>2, LoadPuts, EmptySeq DEF Load, Progress, workerVars
  <2>2. Len(q) = 1 /\ q[1] = Command("update", step)
    BY <1>a, <2>1, PutCommand
  <2> HIDE DEF q
  <2>3. /\ Len(commands') = 2 /\ commands'[1] = Command("update", step)
        /\ commands'[2] = Command("load", step)
    <3>1. /\ Len(commands') = Len(q) + 1
          /\ \A i \in 1 .. Len(q) + 1 : commands'[i] = IF i <= Len(q) THEN q[i] ELSE Command("load", step)
      BY <1>a, <2>1, PutCommand
    <3> QED
      BY <2>2, <3>1
  <2> QED
    BY <1>a, <1>b, <2>1, <2>3 DEF QueueOrder
<1>3. CASE UpdateEma \/ CloseTerminates
  <2>1. PICK c \in {"update", "terminate"}, s \in 0..Steps : commands' = Append(commands, Command(c, s))
    <3>1. 0 \in 0..Steps
      BY <1>a
    <3> QED
      BY <1>3, <1>a, <3>1 DEF UpdateEma, CloseTerminates
  <2>2. UNCHANGED <<ema, worker>>
    BY <1>3 DEF UpdateEma, CloseTerminates, workerVars
  <2>3. /\ Len(commands) \in Nat /\ Len(commands') = Len(commands) + 1
        /\ \A i \in 1 .. Len(commands) + 1 :
             commands'[i] = IF i <= Len(commands) THEN commands[i] ELSE Command(c, s)
    BY <1>a, <2>1, PutCommand
  <2>4. ASSUME NEW i \in 1 .. Len(commands')
        PROVE  LoadReady(i)' /\ SaveReady(i)'
    BY <1>a, <1>b, <2>2, <2>3
  <2> QED
    BY <1>b, <2>2, <2>4 DEF QueueOrder
<1>4. CASE RequestSave
  <2>1. /\ commands' = Append(commands, Command("save", step)) /\ UNCHANGED <<ema, worker>>
        /\ pc = "save_wait" /\ pending["update"] = 0
    BY <1>4 DEF RequestSave, Drained, Awaited, workerVars
  <2>2. /\ Len(commands) \in Nat /\ Len(commands') = Len(commands) + 1
        /\ \A i \in 1 .. Len(commands) + 1 :
             commands'[i] = IF i <= Len(commands) THEN commands[i] ELSE Command("save", step)
    BY <1>a, <2>1, PutCommand
  <2>3. worker.cmd # "update" /\ \A i \in 1..Len(commands) : commands[i].cmd # "update"
    BY <2>1, NonePending DEF Actions
  <2>4. ema = step
    BY <1>a, <2>1, <2>3 DEF SaveCalled, WarmupFinished, Updated, Updating, InSave
  <2>5. ASSUME NEW i \in 1 .. Len(commands')
        PROVE  LoadReady(i)' /\ SaveReady(i)'
    BY <1>a, <1>b, <2>1, <2>2, <2>3, <2>4
  <2> QED
    BY <1>b, <2>1, <2>5 DEF QueueOrder
<1>5. CASE ForceClose
  BY <1>5, <1>a, <1>b DEF ForceClose, QueueOrder, workerVars
<1>6. CASE WorkerTakes
  <2>1. /\ commands # << >> /\ commands' = Tail(commands) /\ ema' = ema
        /\ worker' = Head(commands) /\ worker = Idle
    BY <1>6 DEF WorkerTakes, Alive
  <2>2. /\ Len(commands') = Len(commands) - 1 /\ Len(commands) \in Nat \ {0}
        /\ worker' = commands[1]
        /\ \A i \in 1 .. (Len(commands) - 1) : commands'[i] = commands[i + 1]
    BY <1>a, <2>1, TakeCommand
  <2>3. LoadReady(1) /\ SaveReady(1)
    BY <1>b, <2>2
  <2>4. ASSUME NEW i \in 1 .. Len(commands')
        PROVE  LoadReady(i)' /\ SaveReady(i)'
    <3>1. i + 1 \in 1..Len(commands) /\ LoadReady(i + 1) /\ SaveReady(i + 1) /\ commands'[i] = commands[i + 1]
      BY <1>b, <2>2
    <3>2. ASSUME NEW j \in 1..i, commands[j].cmd = "update"
          PROVE  worker'.cmd = "update" \/ \E k \in 1..(i - 1) : commands'[k].cmd = "update"
      <4>1. CASE j = 1
        BY <2>2, <3>2, <4>1
      <4>2. CASE j # 1
        <5>1. j - 1 \in 1..(i - 1) /\ commands'[j - 1] = commands[j]
          BY <2>2, <4>2
        <5> QED
          BY <3>2, <5>1
      <4> QED
        BY <4>1, <4>2
    <3>3. LoadReady(i)'
      BY <2>1, <3>1, <3>2 DEF Idle
    <3>4. SaveReady(i)'
      BY <2>1, <2>2, <3>1
    <3> QED
      BY <3>3, <3>4
  <2> QED
    BY <2>1, <2>2, <2>3, <2>4 DEF QueueOrder
<1>7. CASE Answers
  <2>1. commands' = commands /\ worker' = Idle
    BY <1>7 DEF Answers
  <2>2. CASE worker.cmd = "update"
    <3>1. ema' = buffer /\ buffer # NoEma
      BY <1>7, <2>2 DEF Answers, TypeOK, NoEma
    <3> QED
      BY <1>b, <2>1, <2>2, <3>1 DEF QueueOrder, Idle
  <2>3. CASE worker.cmd # "update"
    BY <1>7, <1>b, <2>1, <2>3 DEF Answers, QueueOrder, Idle
  <2> QED
    BY <2>2, <2>3
<1> QED
  BY <1>1, <1>2, <1>3, <1>4, <1>5, <1>6, <1>7, QueueSteps

-----------------------------------------------------------------------------
(* Clean runs                                                              *)

(* The steps of a clean run that put no command and train no step.         *)
Walks ==
  /\ UNCHANGED <<returnTo, step, count, enabled, commands, worker, saved>>
  /\ \/ pc' = pc /\ (pc \in {"join", "closed"} => pending' = pending)
     \/ <<pc, pc'>> \in {<<"init", "load">>, <<"update_enter", "update_wait">>,
                         <<"save", "save_enter">>, <<"save_enter", "save_wait">>,
                         <<"force_wait", "idle">>, <<"close_enter", "close_update">>,
                         <<"close_update", "close_save">>}
     \/ pc = "load" /\ pc' = "idle" /\ ~Resumed
     \/ pc = "save" /\ pc' = "idle" /\ ~(ShouldSave /\ WarmupFinished)

Trains ==
  /\ pc = "idle" /\ pc' \in {"save", "update_enter"}
  /\ step' = step + 1 /\ count' = count + 1
  /\ UNCHANGED <<returnTo, enabled, commands, worker, saved>>

Requests ==
  /\ pc = "save_wait" /\ pc' \in {"idle", "force_wait"}
  /\ commands' = Append(commands, Command("save", step))
  /\ UNCHANGED <<returnTo, step, count, enabled, worker, saved>>

Closes ==
  /\ pc = "idle" /\ step = Steps /\ pc' = "close_enter" /\ returnTo' = "exit"
  /\ UNCHANGED <<step, count, enabled, commands, worker, saved>>

(* What spoils a run is on record and stays there.                         *)
LEMMA CleanBefore ==
  ASSUME TypeOK, [Next]_vars, Clean'
  PROVE  /\ Clean /\ UNCHANGED boundVars
         /\ ~TimesOut /\ ~StartTimesOut /\ ~JoinTimesOut /\ ~WorkerDies /\ ~WorkerCannotLoad
<1>a. timeouts \in Nat /\ deaths \in Nat /\ loadErrors \in Nat
  BY EmaAssumption DEF TypeOK
<1>b. ~trainError' /\ timeouts' = 0 /\ deaths' = 0 /\ loadErrors' = 0
  BY DEF Clean
<1>1. ~TimesOut /\ ~StartTimesOut /\ ~JoinTimesOut /\ ~WorkerDies /\ ~WorkerCannotLoad
  <2>1. TimesOut \/ StartTimesOut \/ JoinTimesOut => timeouts' = timeouts + 1
    BY Zenon DEF TimesOut, StartTimesOut, JoinTimesOut
  <2>2. (WorkerDies => deaths' = deaths + 1) /\ (WorkerCannotLoad => loadErrors' = loadErrors + 1)
    BY Zenon DEF WorkerDies, WorkerCannotLoad
  <2> QED
    BY <1>a, <1>b, <2>1, <2>2
<1>2. UNCHANGED boundVars
  BY <1>1, Zenon
  DEF Next, Manager, Worker, Environment, WaitBegins, ReceiveDone, ReceiveFailed,
      NothingArrives,
      WorkerStarted, WorkerNeverStarts, Load, LoadNothing, LoadOnDeadWorker, NextStep, UpdateEma,
      Save, RequestSave, FinalSaveDone, TrainerCloses, CloseWaitsForSave, CloseTerminates, Joined,
      ForceClose, WorkerStarts, WorkerTakes, WorkerUpdates, WorkerSaves, WorkerLoads, CopyDone,
      Stopped, vars
<1>3. trainError => trainError'
  <2>1. CASE WaitBegins \/ ReceiveFailed \/ NothingArrives
    <3>1. (\E b \in BOOLEAN : WaitFails(b)) \/ trainError' = trainError
      BY <2>1, Zenon DEF WaitBegins, ReceiveFailed, NothingArrives
    <3> QED
      BY <3>1, WaitMoves
  <2>2. CASE LoadOnDeadWorker \/ NextStep \/ Save \/ RequestSave \/ CloseWaitsForSave
    <3>1. Raise \/ trainError' = trainError
      BY <2>2, Zenon DEF LoadOnDeadWorker, NextStep, Save, RequestSave, CloseWaitsForSave
    <3> QED
      BY <3>1, RaiseMoves
  <2>3. CASE ~(WaitBegins \/ ReceiveFailed \/ NothingArrives) /\
             ~(LoadOnDeadWorker \/ NextStep \/ Save \/ RequestSave \/ CloseWaitsForSave)
    <3>1. trainError' = trainError
      BY <1>1, <2>3, Zenon
      DEF Next, Manager, Worker, Environment, ReceiveDone, WorkerStarted,
          WorkerNeverStarts, Load,
          LoadNothing, UpdateEma, FinalSaveDone, TrainerCloses, CloseTerminates, Joined, ForceClose,
          WorkerStarts, WorkerTakes, WorkerUpdates, WorkerSaves, WorkerLoads, CopyDone, Stopped,
          vars, mainVars
    <3> QED
      BY <3>1
  <2> QED
    BY <2>1, <2>2, <2>3
<1> QED
  BY <1>b, <1>1, <1>2, <1>3 DEF Clean, boundVars

(* While the run is clean no wait fails and nothing is raised.             *)
LEMMA CleanSteps ==
  ASSUME TypeOK, Counted, Progress, OnCourse, Clean', [Next]_vars
  PROVE  /\ Clean
         /\ \/ Walks \/ Trains \/ Load \/ UpdateEma \/ Requests \/ Closes \/ CloseTerminates
            \/ WorkerTakes \/ (Joined /\ pc = "join") \/ (Answers /\ UNCHANGED <<returnTo, pending>>)
<1>1. Clean /\ UNCHANGED boundVars
  BY CleanBefore
<1>2. /\ pc \notin {"force", "force_join", "finally"}
      /\ ~Alive => pc \in {"join", "closed"}
      /\ pc # "closed" => enabled
  BY <1>1 DEF OnCourse
<1>3. replies # << >> => Head(replies).done
  <2>1. replies # << >> => Head(replies) = replies[1] /\ Len(replies) \in Nat \ {0}
    BY TakeReply DEF TypeOK
  <2> QED
    BY <1>1, <2>1 DEF Counted, FailuresKnown, Clean
<1>4. ~TimesOut /\ ~StartTimesOut /\ ~JoinTimesOut /\ ~WorkerDies /\ ~WorkerCannotLoad
  BY CleanBefore
<1>5. ~ReceiveFailed
  BY <1>3, Zenon DEF ReceiveFailed
<1>6. ~NothingArrives /\ ~WorkerNeverStarts /\ ~LoadOnDeadWorker /\ ~ForceClose
  BY <1>2 DEF NothingArrives, Waits, WorkerNeverStarts, LoadOnDeadWorker, ForceClose
<1>7. CASE WaitBegins
  <2>1. pc \in Enters
    BY <1>7, Zenon DEF WaitBegins
  <2>2. Alive
    BY <1>2, <2>1 DEF Enters
  <2>3. /\ pc' = [update_enter |-> "update_wait", save_enter |-> "save_wait",
                  close_enter |-> "close_update"][pc]
        /\ UNCHANGED <<returnTo, enabled, step, count, commands, worker, saved>>
    BY <1>7, <2>2, Zenon DEF WaitBegins, workerVars
  <2>4. Walks
    BY <2>1, <2>3 DEF Enters, Walks
  <2> QED
    BY <1>1, <2>4
<1>8. CASE ReceiveDone \/ WorkerStarted \/ LoadNothing \/ FinalSaveDone
  BY <1>8, <1>1
  DEF ReceiveDone, WorkerStarted, LoadNothing, FinalSaveDone, Walks, Waits, workerVars
<1>9. CASE NextStep
  <2>1. enabled /\ Alive
    BY <1>9, <1>2 DEF NextStep
  <2>2. Trains
    BY <1>9, <2>1 DEF NextStep, Trains, workerVars
  <2> QED
    BY <1>1, <2>2
<1>10. CASE Save
  <2>1. enabled /\ Alive
    BY <1>10, <1>2 DEF Save
  <2>2. Walks
    BY <1>10, <2>1 DEF Save, Walks, workerVars
  <2> QED
    BY <1>1, <2>2
<1>11. CASE RequestSave
  <2>1. Alive
    BY <1>11, <1>2 DEF RequestSave
  <2>2. Requests
    BY <1>11, <2>1 DEF RequestSave, Requests, workerVars
  <2> QED
    BY <1>1, <2>2
<1>12. CASE TrainerCloses
  <2>1. enabled /\ Alive /\ pc = "idle" /\ step = Steps
    BY <1>12, <1>2 DEF TrainerCloses
  <2>2. Closes
    BY <1>12, <2>1 DEF TrainerCloses, CloseFor, Closes, workerVars
  <2> QED
    BY <1>1, <2>2
<1>13. CASE CloseWaitsForSave
  <2>1. Alive
    BY <1>13, <1>2 DEF CloseWaitsForSave
  <2>2. Walks
    BY <1>13, <2>1 DEF CloseWaitsForSave, Walks, workerVars
  <2> QED
    BY <1>1, <2>2
<1>14. CASE Joined
  BY <1>14, <1>1, <1>2 DEF Joined
<1>15. CASE CopyDone \/ Stopped \/ UNCHANGED vars
  BY <1>15, <1>1 DEF CopyDone, Stopped, Walks, vars, mainVars, workerVars
<1>16. CASE WorkerStarts \/ WorkerUpdates \/ WorkerSaves \/ WorkerLoads
  <2>1. Answers
    BY <1>16
    DEF WorkerStarts, WorkerUpdates, WorkerSaves, WorkerLoads, Answers, mainVars, bufferVars
  <2>2. UNCHANGED <<returnTo, pending>>
    BY <1>16 DEF WorkerStarts, WorkerUpdates, WorkerSaves, WorkerLoads, mainVars
  <2> QED
    BY <1>1, <2>1, <2>2
<1>17. CASE Load \/ UpdateEma \/ CloseTerminates \/ WorkerTakes
  BY <1>1, <1>17
<1> QED
  BY <1>4, <1>5, <1>6, <1>7, <1>8, <1>9, <1>10, <1>11, <1>12, <1>13, <1>14, <1>15, <1>16,
     <1>17, Zenon
  DEF Next, Manager, Worker, Environment

(* The clean run's saves have a step that is due.                          *)
LEMMA DueStep ==
  ASSUME TypeOK, SavesDue, Clean, NEW s, Saving(s)
  PROVE  s \in 1..Steps /\ s \in Due /\ s <= Passed
<1>1. s \in 0..Steps
  <2>1. CASE worker = Command("save", s)
    <3>1. worker.step = s
      BY <2>1 DEF Command
    <3> QED
      BY <3>1 DEF TypeOK
  <2>2. CASE \E i \in 1..Len(commands) : commands[i] = Command("save", s)
    <3>1. PICK i \in 1..Len(commands) : commands[i] = Command("save", s)
      BY <2>2
    <3>2. commands[i] \in CommandMessages
      BY ElementOfSeq DEF TypeOK
    <3> QED
      BY <3>1, <3>2 DEF CommandMessages, Command
  <2> QED
    BY <2>1, <2>2 DEF Saving
<1>2. s \in Due /\ s <= Passed
  BY <1>1 DEF SavesDue
<1> QED
  BY <1>2 DEF Due

(* The checkpoint to resume from does not appear during the run.           *)
LEMMA ResumedStep ==
  ASSUME TypeOK, Counted, Progress, OnCourse, SavesDue, Clean', [Next]_vars
  PROVE  Resumed' = Resumed /\ Due' = Due
<1>1. Clean
  BY CleanBefore
<1>2. CASE saved' = saved
  BY <1>2 DEF Resumed, Due
<1>3. CASE worker.cmd = "save" /\ saved' = saved \cup {<<worker.step, ema>>}
  <2>1. worker = Command("save", worker.step)
    BY <1>3 DEF TypeOK, Command
  <2>2. worker.step \in 1..Steps
    BY <1>1, <2>1, DueStep DEF Saving
  <2>3. Resumed' = Resumed
    BY <1>3, <2>2 DEF Resumed
  <2> QED
    BY <2>3 DEF Due
<1>4. \/ saved' = saved
      \/ worker.cmd = "save" /\ saved' = saved \cup {<<worker.step, ema>>}
  BY QueueSteps
  DEF Apart, Load, UpdateEma, RequestSave, CloseTerminates, ForceClose, WorkerTakes,
      Answers,
      workerVars
<1> QED
  BY <1>2, <1>3, <1>4

(* A clean run stays on its course.                                        *)
LEMMA OnCourseStep ==
  ASSUME TypeOK, Counted, Progress, QueueOrder, OnCourse, SavesDue, [Next]_vars
  PROVE  OnCourse'
<1> SUFFICES ASSUME Clean' PROVE OnCourse'
  BY DEF OnCourse
<1>a. /\ Clean /\ commands \in Seq(CommandMessages) /\ Steps \in Nat /\ Resumed' = Resumed
      /\ step \in 0..Steps /\ count \in Nat /\ Skip \in Nat
      /\ \A c, s : Command(c, s).cmd = c
  BY CleanBefore, ResumedStep, EmaAssumption DEF TypeOK, Command
<1>b. /\ pc \notin {"force", "force_join", "finally"}
      /\ ~Alive => pc \in {"join", "closed"}
      /\ (\E i \in 1..Len(commands) : commands[i].cmd = "terminate") => pc \in {"join", "closed"}
      /\ pc \in Closing \cup {"join", "closed"} => returnTo = "exit" /\ step = Steps
      /\ pc \in {"join", "closed"} => pending["save"] = 0
      /\ pc # "closed" => enabled
      /\ count = IF pc \notin {"init", "load"} /\ Resumed THEN step + Skip + 1 ELSE step
  BY <1>a DEF OnCourse
<1>1. CASE Walks
  <2>1. UNCHANGED <<returnTo, step, count, enabled, commands, worker>>
    BY <1>1 DEF Walks
  <2>2. Alive' = Alive
    BY <2>1 DEF Alive
  <2>3. /\ pc' \notin {"force", "force_join", "finally"}
        /\ pc \in {"join", "closed"} <=> pc' \in {"join", "closed"}
        /\ pc' \in {"join", "closed"} => pending' = pending
        /\ pc' \in Closing => pc \in Closing
        /\ pc' # "closed" => pc # "closed"
        /\ Resumed => (pc' \in {"init", "load"} <=> pc \in {"init", "load"})
    BY <1>1, <1>b DEF Walks, Closing
  <2> QED
    BY <1>a, <1>b, <2>1, <2>2, <2>3 DEF OnCourse
<1>2. CASE Trains
  <2>1. /\ step' = step + 1 /\ count' = count + 1 /\ pc = "idle" /\ pc' \in {"save", "update_enter"}
        /\ UNCHANGED <<returnTo, enabled, commands, worker>>
    BY <1>2 DEF Trains
  <2> QED
    BY <1>a, <1>b, <2>1 DEF OnCourse, Alive, Closing
<1>3. CASE Load
  <2>1. /\ pc = "load" /\ pc' = "idle" /\ Alive /\ worker' = worker /\ enabled' = enabled
        /\ step = 0 /\ step' = step /\ count' = Skip + 1 /\ Resumed /\ Len(commands) = 0
    BY <1>3, EmptySeq DEF Load, CountForLoad, Progress, workerVars
  <2>2. \A i \in 1..Len(commands') : commands'[i].cmd # "terminate"
    <3> DEFINE q == Append(commands, Command("update", step))
    <3>1. commands' = Append(q, Command("load", step)) /\ q \in Seq(CommandMessages)
      BY <1>3, LoadPuts
    <3>2. {"update", "load"} \subseteq Actions \cup {"terminate"}
      BY DEF Actions
    <3>3. Len(q) = 1 /\ q[1].cmd = "update"
      BY <1>a, <2>1, <3>2, PutCommand
    <3> HIDE DEF q
    <3>4. /\ Len(commands') = Len(q) + 1
          /\ \A i \in 1 .. Len(q) + 1 : commands'[i] = IF i <= Len(q) THEN q[i] ELSE Command("load", step)
      BY <1>a, <3>1, <3>2, PutCommand
    <3> QED
      BY <1>a, <3>3, <3>4
  <2> QED
    BY <1>a, <1>b, <2>1, <2>2 DEF OnCourse, Alive, Closing
<1>4. CASE UpdateEma \/ Requests
  <2>1. PICK c \in {"update", "save"} : commands' = Append(commands, Command(c, step))
    BY <1>4 DEF UpdateEma, Requests
  <2>2. /\ pc \in {"update_wait", "save_wait"} /\ pc' \in {"save", "idle", "force_wait"}
        /\ UNCHANGED <<returnTo, step, count, enabled, worker>>
    BY <1>4 DEF UpdateEma, Requests, workerVars
  <2>3. /\ Len(commands) \in Nat /\ Len(commands') = Len(commands) + 1
        /\ \A i \in 1 .. Len(commands) + 1 :
             commands'[i] = IF i <= Len(commands) THEN commands[i] ELSE Command(c, step)
    <3>1. c \in Actions \cup {"terminate"}
      BY DEF Actions
    <3> QED
      BY <1>a, <2>1, <3>1, PutCommand
  <2>4. \A i \in 1..Len(commands') : commands'[i].cmd # "terminate"
    BY <1>a, <1>b, <2>2, <2>3
  <2> QED
    BY <1>a, <1>b, <2>2, <2>4 DEF OnCourse, Alive, Closing
<1>5. CASE Closes
  BY <1>5, <1>a, <1>b DEF Closes, OnCourse, Alive, Closing
<1>6. CASE CloseTerminates
  <2>1. /\ pc = "close_save" /\ pc' = "join" /\ pending["save"] = 0
        /\ UNCHANGED <<returnTo, step, count, enabled, pending, worker>>
    BY <1>6 DEF CloseTerminates, Drained, Awaited, workerVars
  <2> QED
    BY <1>a, <1>b, <2>1 DEF OnCourse, Alive, Closing
<1>7. CASE Joined /\ pc = "join"
  <2>1. /\ pc = "join" /\ pc' = "closed" /\ ~Alive
        /\ UNCHANGED <<returnTo, step, count, pending, worker, commands>>
    BY <1>7, <1>b DEF Joined, AfterClose, workerVars
  <2> QED
    BY <1>a, <1>b, <2>1 DEF OnCourse, Alive, Closing
<1>8. CASE WorkerTakes
  <2>1. /\ worker = Idle /\ commands # << >> /\ commands' = Tail(commands)
        /\ UNCHANGED <<pc, returnTo, step, count, enabled, pending>>
        /\ worker' = IF Head(commands).cmd = "terminate" \/ (Head(commands).cmd = "load" /\ ema = NoEma)
                     THEN Gone ELSE Head(commands)
    BY <1>8 DEF WorkerTakes, mainVars
  <2>2. /\ Len(commands') = Len(commands) - 1 /\ Len(commands) \in Nat \ {0}
        /\ Head(commands) = commands[1] /\ Head(commands) \in CommandMessages
        /\ \A i \in 1 .. (Len(commands) - 1) : commands'[i] = commands[i + 1]
    BY <1>a, <2>1, TakeCommand
  <2>3. Alive
    BY <2>1 DEF Alive, Idle, Gone
  <2>4. ~(Head(commands).cmd = "load" /\ ema = NoEma)
    BY <2>1, <2>2, <2>3 DEF QueueOrder, Idle
  <2>5. Head(commands) # Gone
    BY <2>2 DEF CommandMessages, Gone, Actions
  <2>6. ~Alive' => pc \in {"join", "closed"}
    BY <1>b, <2>1, <2>2, <2>4, <2>5 DEF Alive
  <2>7. (\E i \in 1..Len(commands') : commands'[i].cmd = "terminate") => pc \in {"join", "closed"}
    BY <1>b, <2>2
  <2> QED
    BY <1>a, <1>b, <2>1, <2>6, <2>7 DEF OnCourse
<1>9. CASE Answers /\ UNCHANGED <<returnTo, pending>>
  <2>1. Alive'
    BY <1>9 DEF Answers, Alive, Idle, Gone
  <2> QED
    BY <1>9, <1>a, <1>b, <2>1 DEF Answers, OnCourse
<1> QED
  BY <1>1, <1>2, <1>3, <1>4, <1>5, <1>6, <1>7, <1>8, <1>9, CleanSteps

(* What is due by now is on disk, in the worker or in the queue.           *)
LEMMA SavesDueStep ==
  ASSUME TypeOK, Counted, Progress, SaveCalled, QueueOrder, OnCourse, SavesDue, [Next]_vars
  PROVE  SavesDue'
<1> SUFFICES ASSUME Clean' PROVE SavesDue'
  BY DEF SavesDue
<1>a. /\ Clean /\ Due' = Due /\ commands \in Seq(CommandMessages) /\ Steps \in Nat
      /\ step \in 0..Steps /\ count \in Nat /\ Skip \in Nat /\ Due \subseteq 1..Steps
  BY CleanBefore, ResumedStep, EmaAssumption DEF TypeOK, Due
<1>b. /\ \A s \in Due : s <= Passed => <<s, s>> \in saved \/ Saving(s)
      /\ \A s \in 0..Steps : Saving(s) => s \in Due /\ s <= Passed
      /\ \A p \in saved \ {<<0, 0>>} : \E s \in Due : s <= Passed /\ p = <<s, s>>
  BY <1>a DEF SavesDue
<1>c. ShouldSave /\ WarmupFinished /\ pc \in InSave => step \in Due
  <2> SUFFICES ASSUME ShouldSave, WarmupFinished, pc \in InSave PROVE step \in Due
    OBVIOUS
  <2>1. step \in 1..Steps
    BY <1>a DEF Progress, InSave, Stepping
  <2>2. Resumed \/ step >= Skip
    BY <1>a DEF OnCourse, WarmupFinished, InSave
  <2> QED
    BY <2>1, <2>2 DEF ShouldSave, Due
<1>d. Passed \in Int /\ Passed \in {step - 1, step}
  BY <1>a DEF Passed
(* A step that moves neither the saves nor what is due.                    *)
<1>e. ASSUME Passed' = Passed, saved' = saved, \A s \in 0..Steps : Saving(s)' <=> Saving(s)
      PROVE  SavesDue'
  BY <1>a, <1>b, <1>e DEF SavesDue
<1>f. ASSUME NEW c \in {"update", "save", "load", "terminate"}, NEW s \in 0..Steps,
             commands' = Append(commands, Command(c, s)), worker' = worker
      PROVE  \A t \in 0..Steps : Saving(t)' <=> Saving(t) \/ (c = "save" /\ t = s)
  <2>1. c \in Actions \cup {"terminate"}
    BY DEF Actions
  <2>2. /\ Len(commands) \in Nat /\ Len(commands') = Len(commands) + 1
        /\ \A i \in 1 .. Len(commands) + 1 :
             commands'[i] = IF i <= Len(commands) THEN commands[i] ELSE Command(c, s)
    BY <1>a, <1>f, <2>1, PutCommand
  <2>3. \A t : Command(c, s) = Command("save", t) <=> c = "save" /\ t = s
    BY DEF Command
  <2>4. \A t : (\E i \in 1..Len(commands') : commands'[i] = Command("save", t))
                 <=> (\E i \in 1..Len(commands) : commands[i] = Command("save", t))
                       \/ Command(c, s) = Command("save", t)
    BY <2>2
  <2> QED
    BY <1>f, <2>3, <2>4 DEF Saving
<1>1. CASE Walks
  <2>1. UNCHANGED <<step, commands, worker, saved>>
    BY <1>1 DEF Walks
  <2>2. \A s \in 0..Steps : Saving(s)' <=> Saving(s)
    BY <2>1 DEF Saving
  <2>3. CASE pc = "save" /\ pc' = "idle" /\ ~(ShouldSave /\ WarmupFinished)
    <3>1. Passed = step - 1 /\ Passed' = step
      BY <2>1, <2>3 DEF Passed, Stepping
    <3>2. step \notin Due
      BY <1>a, <2>3 DEF OnCourse, ShouldSave, WarmupFinished, Due
    <3> QED
      BY <1>a, <1>b, <2>1, <2>2, <3>1, <3>2 DEF SavesDue
  <2>4. CASE ~(pc = "save" /\ pc' = "idle" /\ ~(ShouldSave /\ WarmupFinished))
    <3>1. pc' \in Stepping <=> pc \in Stepping
      BY <1>1, <2>4 DEF Walks, Stepping
    <3>2. Passed' = Passed
      BY <2>1, <3>1 DEF Passed
    <3> QED
      BY <1>e, <2>1, <2>2, <3>2
  <2> QED
    BY <2>3, <2>4
<1>2. CASE Trains
  <2>1. UNCHANGED <<commands, worker, saved>> /\ step' = step + 1
    BY <1>2 DEF Trains
  <2>2. Passed' = Passed
    BY <1>2, <1>a, <2>1 DEF Trains, Passed, Stepping
  <2> QED
    BY <1>e, <2>1, <2>2 DEF Saving
<1>3. CASE Load
  <2> DEFINE q == Append(commands, Command("update", step))
  <2>1. /\ commands' = Append(q, Command("load", step)) /\ q \in Seq(CommandMessages)
        /\ Len(commands) = 0 /\ UNCHANGED <<step, worker, saved>> /\ pc = "load" /\ pc' = "idle"
    BY <1>3, LoadPuts, EmptySeq DEF Load, Progress, workerVars
  <2>2. {"update", "load"} \subseteq Actions \cup {"terminate"}
    BY DEF Actions
  <2>3. Len(q) = 1 /\ q[1] = Command("update", step)
    BY <1>a, <2>1, <2>2, PutCommand
  <2> HIDE DEF q
  <2>4. /\ Len(commands') = Len(q) + 1
        /\ \A i \in 1 .. Len(q) + 1 : commands'[i] = IF i <= Len(q) THEN q[i] ELSE Command("load", step)
    BY <1>a, <2>1, <2>2, PutCommand
  <2>5. \A i \in 1..Len(commands') : \A s : commands'[i] # Command("save", s)
    BY <2>3, <2>4 DEF Command
  <2>6. \A s \in 0..Steps : Saving(s)' <=> Saving(s)
    BY <2>1, <2>5 DEF Saving
  <2> QED
    BY <1>e, <2>1, <2>6 DEF Passed, Stepping
<1>4. CASE UpdateEma \/ CloseTerminates
  <2>1. 0 \in 0..Steps
    BY <1>a
  <2>2. PICK c \in {"update", "terminate"}, s \in 0..Steps : commands' = Append(commands, Command(c, s))
    BY <1>4, <1>a, <2>1 DEF UpdateEma, CloseTerminates
  <2>3. UNCHANGED <<step, worker, saved>> /\ (pc' \in Stepping <=> pc \in Stepping)
    BY <1>4 DEF UpdateEma, CloseTerminates, workerVars, Stepping
  <2>4. \A t \in 0..Steps : Saving(t)' <=> Saving(t)
    BY <1>f, <2>2, <2>3
  <2> QED
    BY <1>e, <2>3, <2>4 DEF Passed
<1>5. CASE Requests
  <2>1. /\ commands' = Append(commands, Command("save", step)) /\ UNCHANGED <<step, worker, saved>>
        /\ pc = "save_wait" /\ pc' \in {"idle", "force_wait"}
    BY <1>5 DEF Requests
  <2>2. \A t \in 0..Steps : Saving(t)' <=> Saving(t) \/ t = step
    BY <1>a, <1>f, <2>1
  <2>3. Passed = step - 1 /\ Passed' = step
    BY <2>1 DEF Passed, Stepping
  <2>4. step \in Due
    BY <1>c, <2>1 DEF SaveCalled, InSave
  <2> QED
    BY <1>a, <1>b, <2>1, <2>2, <2>3, <2>4 DEF SavesDue
<1>6. CASE Closes \/ (Joined /\ pc = "join")
  <2>1. UNCHANGED <<step, commands, worker, saved>> /\ pc' \notin Stepping /\ pc \notin Stepping
    BY <1>6 DEF Closes, Joined, AfterClose, Stepping, workerVars
  <2> QED
    BY <1>e, <2>1 DEF Saving, Passed
<1>7. CASE WorkerTakes
  <2>1. /\ worker = Idle /\ commands # << >> /\ commands' = Tail(commands)
        /\ UNCHANGED <<pc, step, saved>>
        /\ worker' = IF Head(commands).cmd = "terminate" \/ (Head(commands).cmd = "load" /\ ema = NoEma)
                     THEN Gone ELSE Head(commands)
    BY <1>7 DEF WorkerTakes, mainVars
  <2>2. /\ Len(commands') = Len(commands) - 1 /\ Len(commands) \in Nat \ {0}
        /\ Head(commands) = commands[1]
        /\ \A i \in 1 .. (Len(commands) - 1) : commands'[i] = commands[i + 1]
    BY <1>a, <2>1, TakeCommand
  <2>3. \A s : worker # Command("save", s) /\ (worker' = Command("save", s) <=> commands[1] = Command("save", s))
    BY <2>1, <2>2 DEF Idle, Gone, Command
  <2>4. ASSUME NEW s
        PROVE  (\E i \in 1..Len(commands) : commands[i] = Command("save", s))
                 <=> \/ commands[1] = Command("save", s)
                     \/ \E i \in 1..Len(commands') : commands'[i] = Command("save", s)
    <3>1. ASSUME NEW i \in 1..Len(commands), i # 1
          PROVE  i - 1 \in 1..Len(commands') /\ commands'[i - 1] = commands[i]
      BY <2>2, <3>1
    <3>2. ASSUME NEW i \in 1..Len(commands')
          PROVE  i + 1 \in 1..Len(commands) /\ commands'[i] = commands[i + 1]
      BY <2>2
    <3> QED
      BY <2>2, <3>1, <3>2
  <2>5. \A s \in 0..Steps : Saving(s)' <=> Saving(s)
    BY <2>3, <2>4 DEF Saving
  <2> QED
    BY <1>e, <2>1, <2>5 DEF Passed
<1>8. CASE Answers
  <2>1. UNCHANGED <<commands, pc, step>> /\ worker' = Idle /\ Passed' = Passed
    BY <1>8 DEF Answers, Passed
  <2>2. \A s : worker' # Command("save", s)
    BY <2>1 DEF Idle, Command
  <2>3. CASE worker.cmd # "save"
    <3>1. \A s : worker # Command("save", s)
      BY <2>3 DEF Command
    <3>2. \A s \in 0..Steps : Saving(s)' <=> Saving(s)
      BY <2>1, <2>2, <3>1 DEF Saving
    <3> QED
      BY <1>8, <1>e, <2>1, <2>3, <3>2 DEF Answers
  <2>4. CASE worker.cmd = "save"
    <3> DEFINE w == worker.step
    <3>1. worker = Command("save", w) /\ w \in 0..Steps
      BY <2>4 DEF TypeOK, Command
    <3>2. Saving(w) /\ w \in Due /\ w <= Passed
      BY <1>b, <3>1 DEF Saving
    <3>3. ema = w /\ ema # NoEma
      BY <2>4, <3>1 DEF QueueOrder, Alive, Gone, NoEma
    <3>4. saved' = saved \cup {<<w, w>>}
      BY <1>8, <2>4, <3>3 DEF Answers
    <3>5. \A s : worker = Command("save", s) => s = w
      BY DEF Command
    <3>6. \A s \in 0..Steps : /\ Saving(s)' => Saving(s)
                              /\ Saving(s) => Saving(s)' \/ s = w
      BY <2>1, <2>2, <3>5 DEF Saving
    <3> HIDE DEF w
    <3> QED
      BY <1>a, <1>b, <2>1, <3>2, <3>4, <3>6 DEF SavesDue
  <2> QED
    BY <2>3, <2>4
<1> QED
  BY <1>1, <1>2, <1>3, <1>4, <1>5, <1>6, <1>7, <1>8, CleanSteps

-----------------------------------------------------------------------------
(* The theorems                                                            *)

(* The manager starts with nothing pending and nothing in the queues.      *)
LEMMA InitIInv == Init => IInv
<1> SUFFICES ASSUME Init PROVE IInv
  OBVIOUS
<1>1. TypeOK
  <2>1. << >> \in Seq(CommandMessages) /\ << >> \in Seq(ReplyMessages)
    BY EmptySeq
  <2>2. enabled \in BOOLEAN /\ copying \in BOOLEAN /\ trainError \in BOOLEAN /\ closeError \in BOOLEAN
    BY DEF Init
  <2>3. saved \subseteq (0..Steps) \X (0..Steps)
    BY EmaAssumption DEF Init
  <2> QED
    BY <2>1, <2>2, <2>3, EmaAssumption DEF Init, TypeOK, Locations, Actions, NoEma
<1>2. Counted
  <2>1. \A a : Occurrences(commands, CommandsOf(a)) = 0 /\ Occurrences(replies, RepliesTo(a)) = 0
    BY EmptyOccurrence DEF Init
  <2>2. \A a \in Actions : Outstanding(a) = 0 /\ pending[a] = 0
    BY <2>1 DEF Init, Outstanding, Actions
  <2>3. FailuresKnown
    BY EmptySeq DEF Init, FailuresKnown
  <2> QED
    BY <2>2, <2>3 DEF Counted, Actions
<1>3. Len(commands) = 0
  BY EmptySeq DEF Init
<1>4. Progress /\ Fresh /\ SaveCalled /\ Updated /\ QueueOrder
  BY <1>3, EmaAssumption
  DEF Init, Progress, Fresh, SaveCalled, Updated, QueueOrder, Stepping, InSave, Alive, Gone
<1>5. OnCourse
  BY <1>3 DEF Init, OnCourse, Alive, Gone, Closing
<1>6. SavesDue
  <2>1. Passed = 0 /\ \A s : ~Saving(s)
    BY <1>3 DEF Init, Passed, Stepping, Saving, Command
  <2>2. \A s \in Due : ~(s <= Passed)
    BY <2>1 DEF Due
  <2>3. saved \ {<<0, 0>>} = {}
    BY DEF Init
  <2> QED
    BY <2>1, <2>2, <2>3 DEF SavesDue
<1> QED
  BY <1>1, <1>2, <1>4, <1>5, <1>6 DEF IInv

(* The inductive invariant of the checkpointer holds throughout.           *)
THEOREM Invariant == Spec => []IInv
<1>1. IInv /\ [Next]_vars => IInv'
  BY TypeStep, CountedStep, ProgressStep, FreshStep, SaveCalledStep, UpdatedStep,
     QueueOrderStep,
     OnCourseStep, SavesDueStep DEF IInv
<1> QED
  BY InitIInv, <1>1, PTL DEF Spec

(* EMACheckpointManager.pending counts what the worker has yet to answer.  *)
THEOREM PendingCounts == Spec => []PendingExact
<1>1. IInv => PendingExact
  BY DEF IInv, PendingExact, Counted
<1> QED
  BY <1>1, Invariant, PTL

(* An update is computed from the weights of the step it was asked for.    *)
THEOREM UpdatesOwnStep == Spec => []UpdateReadsItsStep
<1>1. IInv => UpdateReadsItsStep
  BY DEF IInv, Fresh, UpdateReadsItsStep
<1> QED
  BY <1>1, Invariant, PTL

(* The worker has an EMA state when it comes to a SAVE or a LOAD.          *)
THEOREM StateReady == Spec => []WorkerStateReady
<1>1. ASSUME IInv, worker.cmd = "save" PROVE ema # NoEma
  BY <1>1 DEF IInv, QueueOrder, TypeOK, Alive, Gone, NoEma
<1>2. ASSUME IInv, worker = Idle, commands # << >>, Head(commands).cmd = "load" PROVE ema # NoEma
  <2>1. Head(commands) = commands[1] /\ Len(commands) \in Nat \ {0}
    BY <1>2, TakeCommand DEF IInv, TypeOK
  <2> QED
    BY <1>2, <2>1 DEF IInv, QueueOrder, Alive, Gone, Idle
<1>3. IInv => WorkerStateReady
  BY <1>1, <1>2 DEF WorkerStateReady
<1> QED
  BY <1>3, Invariant, PTL

(* A run without timeout, death or error writes every EMA checkpoint due.  *)
THEOREM SavesWritten == Spec => []EverySaveWritten
<1>1. ASSUME IInv, Clean, pc = "closed"
      PROVE  saved \ {<<0, 0>>} = {<<s, s>> : s \in Due}
  <2>1. Passed = Steps /\ pending["save"] = 0
    BY <1>1 DEF IInv, OnCourse, Passed, Stepping
  <2>2. \A s : ~Saving(s)
    <3>1. worker.cmd # "save" /\ \A i \in 1..Len(commands) : commands[i].cmd # "save"
      BY <1>1, <2>1, NonePending DEF IInv, Actions
    <3> QED
      BY <3>1 DEF Saving, Command
  <2>3. \A s \in Due : s \in 1..Steps /\ s <= Passed /\ <<s, s>> # <<0, 0>>
    BY <2>1, EmaAssumption DEF Due
  <2> QED
    BY <1>1, <2>2, <2>3 DEF IInv, SavesDue
<1>2. IInv => EverySaveWritten
  BY <1>1 DEF EverySaveWritten, Clean
<1> QED
  BY <1>2, Invariant, PTL

(* close() that returns without an error leaves no worker behind.          *)
THEOREM ClosedWorkerGone == Spec => []ClosedMeansGone
<1>1. IInv => ClosedMeansGone
  BY DEF IInv, Progress, ClosedMeansGone
<1> QED
  BY <1>1, Invariant, PTL

-----------------------------------------------------------------------------
(* Resuming from the two stores                                            *)
(*                                                                         *)
(* The other half of ema_checkpoint.py, load() of the manager that saves   *)
(* both kinds of checkpoints, has a model of its own, EmaResume, with its  *)
(* own variables: its steps count EMA save intervals.                      *)

\* Updates are counted from a resume on, which counts the warm-up as over.
ResumeInv ==
  /\ ResumeTypeOK
  /\ stepCount <= trainerStep + ResumeSkip + 1
  /\ resumed.step > ResumeSkip => resumed.withEma

\* The largest of some steps, with -1 for no checkpoint.
LEMMA LargestStep ==
  ASSUME NEW n \in Nat, NEW S \in SUBSET (-1 .. n), S # {}
  PROVE  Max(S) \in S /\ \A y \in S : y <= Max(S)
<1> DEFINE T == {x \in Nat : n - x \in S}
           R == {p \in Nat \X Nat : p[1] < p[2]}
<1>1. IsWellFoundedOn(R, Nat)
  BY NatLessThanWellFounded DEF OpToRel
<1>2. T \subseteq Nat /\ T # {}
  <2>1. PICK y \in S : TRUE
    OBVIOUS
  <2>2. y \in -1 .. n /\ n - y \in Nat /\ n - (n - y) = y
    OBVIOUS
  <2>3. n - y \in T
    BY <2>1, <2>2
  <2> QED
    BY <2>3
<1>3. PICK x \in T : \A y \in T : ~(<<y, x>> \in R)
  <2> HIDE DEF R, T
  <2> QED
    BY <1>1, <1>2, WFMin
<1>4. ASSUME NEW y \in S PROVE y <= n - x
  <2>1. y \in -1 .. n /\ n - y \in Nat /\ n - (n - y) = y
    OBVIOUS
  <2>2. n - y \in T
    BY <2>1, <1>4
  <2>3. ~(n - y < x)
    BY <1>3, <2>2
  <2> QED
    BY <2>1, <2>3
<1>5. n - x \in S /\ \A y \in S : n - x >= y
  BY <1>3, <1>4
<1> HIDE DEF T, R
<1>6. Max(S) \in S /\ \A y \in S : Max(S) >= y
  BY <1>5 DEF Max
<1> QED
  BY <1>6

\* The step load() chooses has a normal checkpoint, past the warm-up an EMA
\* checkpoint as well, and is no older than any step that has both.
LEMMA ChosenStepFacts ==
  ASSUME ResumeTypeOK, NEW s \in Choice
  PROVE  /\ s = -1 \/ s \in normal
         /\ s > ResumeSkip => s \in averaged
         /\ \A c \in normal \cap averaged : c <= s
<1> DEFINE n == FindLoadSteps(normal)
           e == FindLoadSteps(averaged)
           w == WithinWarmup(n)
<1>1. ResumeSteps \in Nat /\ ResumeSkip \in Nat
  BY EmaResumeAssumption
<1>2. normal \subseteq 1..ResumeSteps /\ averaged \subseteq 1..ResumeSteps
  BY DEF ResumeTypeOK
<1>3. /\ n \in SUBSET (-1 .. ResumeSteps) /\ n # {} /\ normal \subseteq n
      /\ n \subseteq normal \cup {-1}
  BY <1>1, <1>2 DEF FindLoadSteps
<1>4. /\ e \in SUBSET (-1 .. ResumeSteps) /\ e # {} /\ averaged \subseteq e
      /\ e \subseteq averaged \cup {-1}
  BY <1>1, <1>2 DEF FindLoadSteps
<1> HIDE DEF n, e
<1>5. w = {t \in n : t <= ResumeSkip}
  BY DEF WithinWarmup
<1>6. Choice = IF ResumeSkip > Max(e)
                      THEN IF w = {} THEN {} ELSE {Max(w)}
                      ELSE {HighestCommon(n, e)}
  BY DEF Choice, ChosenStep, n, e
<1> HIDE DEF w
<1>7. Max(e) \in e /\ \A y \in e : y <= Max(e)
  BY <1>1, <1>4, LargestStep
<1>8. CASE ResumeSkip > Max(e)
  <2>1. w # {} /\ s = Max(w)
    BY <1>6, <1>8
  <2>2. w \in SUBSET (-1 .. ResumeSteps)
    BY <1>3, <1>5
  <2>3. s \in w /\ \A y \in w : y <= s
    BY <1>1, <2>1, <2>2, LargestStep
  <2>4. s \in n /\ s <= ResumeSkip /\ s \in -1 .. ResumeSteps
    BY <1>5, <2>2, <2>3
  <2>5. ASSUME NEW c \in normal \cap averaged PROVE c <= s
    <3>1. c \in e /\ c \in n /\ c <= Max(e) /\ c \in 1..ResumeSteps
      BY <1>2, <1>3, <1>4, <1>7
    <3>2. Max(e) \in -1 .. ResumeSteps
      BY <1>4, <1>7
    <3>3. c \in w
      BY <1>1, <1>5, <1>8, <3>1, <3>2
    <3> QED
      BY <2>3, <3>3
  <2> QED
    BY <1>1, <1>3, <2>4, <2>5
<1>9. CASE ~(ResumeSkip > Max(e))
  <2>1. s = HighestCommon(n, e)
    BY <1>6, <1>9
  <2>2. CASE n \cap e = {}
    <3>1. s = -1
      BY <2>1, <2>2 DEF HighestCommon
    <3>2. normal \cap averaged = {}
      BY <1>3, <1>4, <2>2
    <3> QED
      BY <1>1, <3>1, <3>2
  <2>3. CASE n \cap e # {}
    <3>1. s = Max(n \cap e)
      BY <2>1, <2>3 DEF HighestCommon
    <3>2. n \cap e \in SUBSET (-1 .. ResumeSteps)
      BY <1>3
    <3>3. s \in n \cap e /\ \A y \in n \cap e : y <= s
      BY <1>1, <2>3, <3>1, <3>2, LargestStep
    <3>4. s = -1 \/ (s \in normal /\ s \in averaged)
      BY <1>2, <1>3, <1>4, <3>3
    <3> QED
      BY <1>1, <1>3, <1>4, <3>3, <3>4
  <2> QED
    BY <2>2, <2>3
<1> QED
  BY <1>8, <1>9

\* The job's first start satisfies the invariant.
LEMMA InitResume ==
  ResumeInit => ResumeInv
BY EmaResumeAssumption DEF ResumeInit, ResumeInv, ResumeTypeOK

\* One step of training, with the saves that it starts.
LEMMA ResumeTrainStep ==
  ASSUME ResumeInv, TrainStep
  PROVE  ResumeInv'
<1> USE DEF ResumeInv, ResumeTypeOK
<1>1. /\ ResumeSteps \in Nat /\ ResumeSkip \in Nat /\ trainerStep < ResumeSteps
      /\ trainerStep' = trainerStep + 1 /\ stepCount' = stepCount + 1
      /\ UNCHANGED <<phase, averaged, resumed, crashes>>
  BY EmaResumeAssumption DEF TrainStep
<1>2. /\ trainerStep \in 0..ResumeSteps /\ stepCount \in 0..(ResumeSteps + ResumeSkip + 1)
      /\ stepCount <= trainerStep + ResumeSkip + 1
  OBVIOUS
<1>3. /\ trainerStep' \in 1..ResumeSteps /\ trainerStep' \in 0..ResumeSteps
      /\ stepCount' <= trainerStep' + ResumeSkip + 1
      /\ stepCount' \in 0..(ResumeSteps + ResumeSkip + 1)
  BY <1>1, <1>2
<1>4. normal' \subseteq 1..ResumeSteps /\ inflight' \subseteq 1..ResumeSteps
  <2>1. \/ normal' = normal \cup inflight \cup {trainerStep'} /\ inflight' = {}
        \/ normal' = normal \cup inflight /\ inflight' = {trainerStep'}
        \/ UNCHANGED <<normal, inflight>>
    BY DEF TrainStep
  <2> QED
    BY <1>3, <2>1
<1>5. emaQueue' \in Seq(1..ResumeSteps)
  <2>1. emaQueue' = Append(emaQueue, trainerStep') \/ emaQueue' = emaQueue
    BY DEF TrainStep, SaveEma
  <2> DEFINE T == 1..ResumeSteps
  <2>2. emaQueue \in Seq(T) /\ trainerStep' \in T
    BY <1>3
  <2> HIDE DEF T
  <2>3. emaQueue' \in Seq(T)
    BY <2>1, <2>2, AppendProperties
  <2> QED
    BY <2>3 DEF T
<1> QED
  BY <1>1, <1>3, <1>4, <1>5

\* Every step keeps the invariant.
LEMMA NextResume ==
  ResumeInv /\ [ResumeNext]_resumeVars => ResumeInv'
<1> SUFFICES ASSUME ResumeInv, [ResumeNext]_resumeVars
             PROVE  ResumeInv'
  OBVIOUS
<1>1. ResumeSteps \in Nat /\ ResumeSkip \in Nat /\ MaxCrashes \in Nat
  BY EmaResumeAssumption
<1>2. CASE LoadRaises \/ Done \/ ResumeEnded \/ UNCHANGED resumeVars
  BY <1>2 DEF LoadRaises, Done, ResumeEnded, resumeVars,
              ResumeInv, ResumeTypeOK
<1>3. CASE LoadNeither
  BY <1>1, <1>3 DEF LoadNeither, ResumeInv, ResumeTypeOK
<1>4. CASE LoadChosen
  <2>1. PICK s \in Choice :
          /\ trainerStep' = s
          /\ stepCount' = IF s \in averaged THEN ResumeSkip + 1 ELSE 0
          /\ resumed' = [step |-> s, withEma |-> s \in averaged]
    BY <1>4 DEF LoadChosen
  <2>2. /\ s = -1 \/ s \in normal
        /\ s > ResumeSkip => s \in averaged
    BY ChosenStepFacts DEF ResumeInv
  <2>3. s # -1
    <3>1. Choice # {-1} /\ Choice # {}
      BY <1>4 DEF LoadChosen
    <3>2. Choice = {s}
      BY <2>1 DEF Choice, ChosenStep
    <3> QED
      BY <3>1, <3>2
  <2>4. s \in 1..ResumeSteps
    BY <2>2, <2>3 DEF ResumeInv, ResumeTypeOK
  <2>5. /\ phase' = "train"
        /\ UNCHANGED <<normal, averaged, inflight, emaQueue, crashes>>
    BY <1>4 DEF LoadChosen
  <2>6. /\ stepCount' \in 0..(ResumeSteps + ResumeSkip + 1)
        /\ stepCount' <= trainerStep' + ResumeSkip + 1
    BY <1>1, <2>1, <2>4
  <2>7. /\ resumed' \in [step : 0..ResumeSteps, withEma : BOOLEAN]
        /\ resumed'.step > ResumeSkip => resumed'.withEma
    <3> DEFINE b == s \in averaged
    <3>1. b \in BOOLEAN /\ (s > ResumeSkip => b)
      BY <2>2
    <3>2. resumed' = [step |-> s, withEma |-> b] /\ s \in 0..ResumeSteps
      BY <1>1, <2>1, <2>4
    <3> HIDE DEF b
    <3>3. resumed' \in [step : 0..ResumeSteps, withEma : BOOLEAN]
      BY <3>1, <3>2
    <3>4. resumed'.step = s /\ resumed'.withEma = b
      BY <3>2
    <3> QED
      BY <3>1, <3>3, <3>4
  <2> QED
    BY <2>1, <2>4, <2>5, <2>6, <2>7 DEF ResumeInv, ResumeTypeOK
<1>5. CASE TrainStep
  BY <1>5, ResumeTrainStep
<1>6. CASE NormalSaved
  BY <1>6 DEF NormalSaved, ResumeInv, ResumeTypeOK
<1>7. CASE EmaSaved
  <2>1. Head(emaQueue) \in 1..ResumeSteps /\ Tail(emaQueue) \in Seq(1..ResumeSteps)
    <3> DEFINE T == 1..ResumeSteps
    <3>1. emaQueue \in Seq(T) /\ emaQueue # << >>
      BY <1>7 DEF EmaSaved, ResumeInv, ResumeTypeOK
    <3> HIDE DEF T
    <3>2. Head(emaQueue) \in T /\ Tail(emaQueue) \in Seq(T)
      BY <3>1, HeadTailProperties
    <3> QED
      BY <3>2 DEF T
  <2> QED
    BY <1>7, <2>1 DEF EmaSaved, ResumeInv, ResumeTypeOK
<1>8. CASE Crash
  BY <1>1, <1>8 DEF Crash, ResumeInv, ResumeTypeOK
<1> QED
  BY <1>2, <1>3, <1>4, <1>5, <1>6, <1>7, <1>8 DEF ResumeNext

\* Past the warm-up a job is never resumed from a step without its EMA
\* checkpoint, for any number of steps, intervals, warm-ups and crashes (load of
\* CheckpointManagerWithEMAWeight, ChosenStep).
THEOREM ResumesWithEma == ResumeSpec => []ResumedWithEma
<1>1. ResumeInv => ResumedWithEma
  BY DEF ResumeInv, ResumedWithEma
<1> QED
  BY <1>1, InitResume, NextResume, PTL DEF ResumeSpec

\* A resume never goes back behind a step of which both stores hold the
\* checkpoint, whatever a crash has left in either (load, HighestCommon).
THEOREM ResumeKeepsProgress == ResumeSpec => KeepsCommonProgress
<1> DEFINE Kept ==
      phase = "down" /\ phase' = "train" => \A s \in normal \cap averaged : s <= trainerStep'
<1>1. ResumeInv /\ [ResumeNext]_resumeVars => [Kept]_resumeVars
  <2> SUFFICES ASSUME ResumeInv, ResumeNext, phase = "down", phase' = "train"
               PROVE  \A c \in normal \cap averaged : c <= trainerStep'
    OBVIOUS
  <2>1. ResumeTypeOK
    BY DEF ResumeInv
  <2>2. LoadNeither \/ LoadChosen
    BY DEF ResumeNext, LoadRaises, TrainStep, NormalSaved,
           EmaSaved, Done, Crash, ResumeEnded, resumeVars
  <2>3. CASE LoadNeither
    <3>1. -1 \in Choice /\ trainerStep' = 0
      BY <2>3 DEF LoadNeither
    <3>2. \A c \in normal \cap averaged : c <= -1
      BY <2>1, <3>1, ChosenStepFacts
    <3>3. \A c \in normal \cap averaged : c \in 1..ResumeSteps
      BY <2>1 DEF ResumeTypeOK
    <3> QED
      BY <3>1, <3>2, <3>3, EmaResumeAssumption
  <2>4. CASE LoadChosen
    <3>1. trainerStep' \in Choice
      BY <2>4 DEF LoadChosen
    <3> QED
      BY <2>1, <3>1, ChosenStepFacts
  <2> QED
    BY <2>2, <2>3, <2>4
<1>2. ResumeSpec => [][Kept]_resumeVars
  BY <1>1, InitResume, NextResume, PTL DEF ResumeSpec
<1> QED
  BY <1>2, PTL DEF KeepsCommonProgress
=============================================================================
