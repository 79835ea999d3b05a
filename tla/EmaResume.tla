------------------------------ MODULE EmaResume ------------------------------
(***************************************************************************)
(* Resuming with two stores: CheckpointManagerWithEMAWeight                *)
(* (ema_checkpoint.py) saves the normal checkpoint and the EMA checkpoint  *)
(* of a step independently of each other, both in the background, and a    *)
(* relaunched job must pick a step to resume from among what was completed.*)
(*                                                                         *)
(* Steps are counted in units of the EMA save interval.                    *)
(***************************************************************************)
EXTENDS Integers, Sequences, FiniteSets, FiniteSetsExt

CONSTANTS
  ResumeSteps,  \* training steps of the job
  Interval,     \* checkpoint.interval; the EMA save interval divides it
  ResumeSkip,   \* ema.skip_first_k_updates
  MaxCrashes    \* bound: how often the process dies

ASSUME EmaResumeAssumption ==
  /\ ResumeSteps \in Nat \ {0} /\ Interval \in Nat \ {0} /\ ResumeSkip \in Nat
  /\ MaxCrashes \in Nat

VARIABLES
  phase,        \* "down", "train", "done" or "error"
  trainerStep,  \* Trainer.step
  stepCount,    \* EMACheckpointManager._current_step_count
  normal, averaged,  \* steps whose normal, and whose EMA checkpoint is complete
  inflight,     \* the normal checkpoint being written, as a set
  emaQueue,     \* EMA checkpoints the worker still has to write
  resumed,      \* history: what the last load() did
  crashes       \* history: crashes so far

resumeVars ==
  <<phase, trainerStep, stepCount, normal, averaged, inflight, emaQueue, resumed, crashes>>

ResumeInit ==
  /\ phase = "down" /\ trainerStep = 0 /\ stepCount = 0
  /\ normal = {} /\ averaged = {} /\ inflight = {} /\ emaQueue = << >>
  /\ resumed = [step |-> 0, withEma |-> FALSE]
  /\ crashes = 0

-----------------------------------------------------------------------------
(* load()                                                                  *)

\* _find_load_steps: -1 stands for "no checkpoint".
FindLoadSteps(store) == IF store = {} THEN {-1} ELSE store

\* Deviation: the list is searched in ascending order.
LowestCommon(n, e) == IF n \cap e = {} THEN -1 ELSE Min(n \cap e)

\* The highest step in both lists, -1 if there is none.
HighestCommon(n, e) == IF n \cap e = {} THEN -1 ELSE Max(n \cap e)

\* Normal checkpoints that a run still warming up its EMA may resume from.
WithinWarmup(n) == {s \in n : s <= ResumeSkip}

\* Deviation: the highest normal step, whether or not there is an EMA for it.
NewestNormal(n, e) == {Max(n)}

\* The step load(-1) chooses, as a set: empty where max() of an empty list raises.
ChosenStep(n, e) ==
  IF ResumeSkip > Max(e)
  THEN IF WithinWarmup(n) = {} THEN {} ELSE {Max(WithinWarmup(n))}
  ELSE {HighestCommon(n, e)}

Choice == ChosenStep(FindLoadSteps(normal), FindLoadSteps(averaged))

\* load() raises ValueError.
LoadRaises ==
  /\ phase = "down" /\ Choice = {}
  /\ phase' = "error"
  /\ UNCHANGED <<trainerStep, stepCount, normal, averaged, inflight, emaQueue, resumed, crashes>>

\* load() returns False: training starts from scratch.
LoadNeither ==
  /\ phase = "down" /\ Choice = {-1}
  /\ phase' = "train"
  /\ trainerStep' = 0 /\ stepCount' = 0
  /\ resumed' = [step |-> 0, withEma |-> FALSE]
  /\ UNCHANGED <<normal, averaged, inflight, emaQueue, crashes>>

\* The normal checkpoint is loaded, and the EMA's if there is one of the step;
\* loading the EMA ends its warm-up and makes a first update.
LoadChosen ==
  /\ phase = "down" /\ Choice # {} /\ Choice # {-1}
  /\ phase' = "train"
  /\ \E s \in Choice :
       /\ trainerStep' = s
       /\ stepCount' = IF s \in averaged THEN ResumeSkip + 1 ELSE 0
       /\ resumed' = [step |-> s, withEma |-> s \in averaged]
  /\ UNCHANGED <<normal, averaged, inflight, emaQueue, crashes>>

-----------------------------------------------------------------------------
(* Training                                                                *)

\* EMACheckpointManager.save: nothing is saved before the warm-up is over.
SaveEma(s) == emaQueue' = IF ResumeSkip <= stepCount + 1 THEN Append(emaQueue, s) ELSE emaQueue

\* One step with its saves.  A due normal save first waits for the one in
\* flight; the last is synchronous, and so is the last EMA save.
TrainStep ==
  /\ phase = "train" /\ trainerStep < ResumeSteps
  /\ trainerStep' = trainerStep + 1
  /\ stepCount' = stepCount + 1
  /\ \/ /\ trainerStep' = ResumeSteps
        /\ normal' = normal \cup inflight \cup {trainerStep'}
        /\ inflight' = {}
     \/ /\ trainerStep' # ResumeSteps /\ trainerStep' % Interval = 0
        /\ normal' = normal \cup inflight
        /\ inflight' = {trainerStep'}
     \/ /\ trainerStep' # ResumeSteps /\ trainerStep' % Interval # 0
        /\ UNCHANGED <<normal, inflight>>
  /\ SaveEma(trainerStep')
  /\ UNCHANGED <<phase, averaged, resumed, crashes>>

NormalSaved ==
  /\ inflight # {}
  /\ normal' = normal \cup inflight
  /\ inflight' = {}
  /\ UNCHANGED <<phase, trainerStep, stepCount, averaged, emaQueue, resumed, crashes>>

EmaSaved ==
  /\ emaQueue # << >>
  /\ averaged' = averaged \cup {Head(emaQueue)}
  /\ emaQueue' = Tail(emaQueue)
  /\ UNCHANGED <<phase, trainerStep, stepCount, normal, inflight, resumed, crashes>>

\* train() ends once the forced EMA save has been answered.
Done ==
  /\ phase = "train" /\ trainerStep = ResumeSteps /\ emaQueue = << >>
  /\ phase' = "done"
  /\ UNCHANGED <<trainerStep, stepCount, normal, averaged, inflight, emaQueue, resumed, crashes>>

Crash ==
  /\ phase = "train" /\ crashes < MaxCrashes
  /\ crashes' = crashes + 1
  /\ phase' = "down"
  /\ inflight' = {} /\ emaQueue' = << >>
  /\ UNCHANGED <<trainerStep, stepCount, normal, averaged, resumed>>

ResumeEnded ==
  /\ phase \in {"done", "error"}
  /\ UNCHANGED resumeVars

ResumeNext ==
  \/ LoadRaises \/ LoadNeither \/ LoadChosen
  \/ TrainStep \/ NormalSaved \/ EmaSaved \/ Done
  \/ Crash \/ ResumeEnded

ResumeSpec == ResumeInit /\ [][ResumeNext]_resumeVars

-----------------------------------------------------------------------------
(* Properties                                                              *)

\* The values the variables range over.
ResumeTypeOK ==
  /\ phase \in {"down", "train", "done", "error"}
  /\ trainerStep \in 0..ResumeSteps /\ stepCount \in 0..(ResumeSteps + ResumeSkip + 1)
  /\ normal \subseteq 1..ResumeSteps /\ averaged \subseteq 1..ResumeSteps
  /\ inflight \subseteq 1..ResumeSteps /\ emaQueue \in Seq(1..ResumeSteps)
  /\ resumed \in [step: 0..ResumeSteps, withEma: BOOLEAN]
  /\ crashes \in 0..MaxCrashes

\* Past the warm-up the weights are never resumed without their EMA: the choice
\* of a common step keeps the averages continuous across any crash.
ResumedWithEma ==
  /\ ResumeTypeOK
  /\ resumed.step > ResumeSkip => resumed.withEma

\* A resume never goes back behind the newest step that both stores hold.
KeepsCommonProgress ==
  [][phase = "down" /\ phase' = "train"
       => \A s \in normal \cap averaged : s <= trainerStep']_resumeVars

\* The comment in load(): without a common step at or above skip_first_k_updates
\* the largest normal step below it is picked; so a job that has one is not
\* started from scratch.
PicksStepBelowSkip ==
  [][/\ \E s \in normal : s <= ResumeSkip
     /\ HighestCommon(normal, averaged) < ResumeSkip /\ phase = "down"
       => ~(phase' = "train" /\ trainerStep' = 0)]_resumeVars
=============================================================================
