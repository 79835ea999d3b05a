------------------------- MODULE ExactlyOnceTraining -------------------------
(***************************************************************************)
(* What a resumable training job promises about its data: the model        *)
(* learns from the batches of the stream in order, GA per step, and losing *)
(* the process only takes it back to a step that was saved.                *)
(***************************************************************************)
EXTENDS Integers, Sequences

CONSTANT GA  \* batches per optimizer step

VARIABLES
  trained,  \* the batches behind the model's weights, oldest first
  saved     \* the steps whose checkpoint survives a crash

vars == <<trained, saved>>

FirstSteps(s) == [i \in 1..(s * GA) |-> i]

Init == trained = << >> /\ saved = {0}

\* One optimizer step learns from the next GA batches.
Learn(s) ==
  /\ trained = FirstSteps(s)
  /\ trained' = FirstSteps(s + 1)
  /\ UNCHANGED saved

\* Checkpoints of steps already taken become durable.
Persist(s) ==
  /\ trained = FirstSteps(s)
  /\ saved \subseteq saved'
  /\ saved' \subseteq saved \cup 0..s
  /\ UNCHANGED trained

\* A restarted process continues from a saved step.
Rollback(s) ==
  /\ s \in saved
  /\ trained' = FirstSteps(s)
  /\ UNCHANGED saved

\* Steps taken: GA divides the length by construction of the actions.
Taken == Len(trained) \div GA

Next == Learn(Taken) \/ Persist(Taken) \/ \E s \in saved : Rollback(s)

Spec == Init /\ [][Next]_vars
=============================================================================
