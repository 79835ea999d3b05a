-------------------------- MODULE BatchResumeProofs --------------------------
(***************************************************************************)
(* Proofs about BatchResume for every value of its constants: the type     *)
(* invariant, exactly-once delivery to the model, the alignment of every   *)
(* checkpoint, and the availability of the final step.                     *)
(*                                                                         *)
(* The inductive invariant counts: Delivered is the number of batches the  *)
(* generator has handed to train_step since the beginning of the stream,   *)
(* and every other counter is Delivered, or one ahead of it while the      *)
(* generator owns a lookahead batch.                                       *)
(***************************************************************************)
EXTENDS BatchResume, SequenceTheorems, TLAPS

Live == phase \in {"loop", "train_step", "save"}

Delivered == StepsTaken * GA + (IF phase = "train_step" THEN Len(acc) ELSE 0)

\* The loader and the adapter as the generator leaves them at each suspension.
GeneratorInv ==
  /\ gen = "new" => position = Delivered /\ ~hasPrefetched
  /\ gen = "lookahead" => /\ hasPrefetched /\ captured = Delivered
                          /\ position = Delivered + 1 /\ nextBatch = Delivered + 1
  /\ gen = "promoted" => /\ ~hasPrefetched /\ InTrainStep
                         /\ position = Delivered + 1 /\ nextBatch = Delivered + 1
  /\ gen = "last" => ~hasPrefetched /\ position = Delivered /\ Delivered = DataLen
  /\ gen # "dead"

\* The counters of the training loop.
LoopInv ==
  /\ phase = "train_step" => /\ step > 0 /\ step <= steps /\ Len(acc) <= GA
                             /\ acc = [i \in 1..Len(acc) |-> StepsTaken * GA + i]
  /\ phase = "save" => step <= steps
  /\ phase = "loop" /\ step >= steps => \E c \in store : c.step = step
  /\ ntokens = Delivered

IInv ==
  /\ TypeOK
  /\ WeightsExact
  /\ CheckpointsAligned
  /\ FinalStepSaved
  /\ Live => GeneratorInv /\ LoopInv
  /\ phase \in Ended \ {"done"} => step > 0

-----------------------------------------------------------------------------
(* Facts about products and about sequences of consecutive batches         *)

\* Counting the batches of one more step: products with GA are naturals and
\* grow by GA (train_step accumulates GA microbatches per step).
LEMMA StepProduct ==
  ASSUME NEW s \in Nat
  PROVE  s * GA \in Nat /\ (s + 1) * GA = s * GA + GA
  BY ConstantsAssumption

\* Before the first step nothing is learnt.
LEMMA UptoZero == Upto(0) = << >>
<1>1. Upto(0) \in Seq(Nat) /\ Len(Upto(0)) = 0
  BY DEF Upto
<1>2. QED
  BY <1>1, SeqEqual

\* Learning k consecutive batches after the first m is learning the first
\* m + k (optimizers.step on what train_step accumulated).
LEMMA UptoConcat ==
  ASSUME NEW m \in Nat, NEW k \in Nat, NEW q, q = [i \in 1..k |-> m + i]
  PROVE  Upto(m) \o q = Upto(m + k)
<1>1. Upto(m) \in Seq(Nat) /\ Len(Upto(m)) = m
  BY DEF Upto
<1>2. q \in Seq(Nat) /\ Len(q) = k
  OBVIOUS
<1>3. Upto(m + k) \in Seq(Nat) /\ Len(Upto(m + k)) = m + k
  BY DEF Upto
<1>4. /\ Upto(m) \o q \in Seq(Nat)
      /\ Len(Upto(m) \o q) = m + k
      /\ \A i \in 1..(m + k) : (Upto(m) \o q)[i] = IF i <= m THEN Upto(m)[i] ELSE q[i - m]
  <2>1. /\ Upto(m) \o q \in Seq(Nat)
        /\ Len(Upto(m) \o q) = Len(Upto(m)) + Len(q)
        /\ \A i \in 1..(Len(Upto(m)) + Len(q)) :
             (Upto(m) \o q)[i] = IF i <= Len(Upto(m)) THEN Upto(m)[i] ELSE q[i - Len(Upto(m))]
    <3> HIDE DEF Upto
    <3>1. Upto(m) \in Seq(Nat) /\ q \in Seq(Nat)
      BY <1>1, <1>2
    <3>2. QED
      BY <3>1, ConcatProperties, Zenon
  <2>2. QED
    BY <1>1, <1>2, <2>1, Zenon
<1>5. ASSUME NEW i \in 1..(m + k)
      PROVE  (Upto(m) \o q)[i] = Upto(m + k)[i]
  <2>1. Upto(m + k)[i] = i
    BY DEF Upto
  <2>2. i <= m => Upto(m)[i] = i
    BY DEF Upto
  <2>3. ~(i <= m) => q[i - m] = i
    OBVIOUS
  <2>4. QED
    BY <1>4, <2>1, <2>2, <2>3
<1>6. QED
  BY <1>3, <1>4, <1>5, SeqEqual

\* Appending the next batch keeps the accumulated batches consecutive.
LEMMA AppendNext ==
  ASSUME NEW m \in Nat, NEW q \in Seq(Nat), q = [i \in 1..Len(q) |-> m + i]
  PROVE  /\ Append(q, m + Len(q) + 1) = [i \in 1..(Len(q) + 1) |-> m + i]
         /\ Len(Append(q, m + Len(q) + 1)) = Len(q) + 1
<1> DEFINE a == Append(q, m + Len(q) + 1)
           r == [i \in 1..(Len(q) + 1) |-> m + i]
<1>1. a \in Seq(Nat) /\ Len(a) = Len(q) + 1
  OBVIOUS
<1>2. r \in Seq(Nat) /\ Len(r) = Len(q) + 1
  OBVIOUS
<1>3. ASSUME NEW i \in 1..(Len(q) + 1)
      PROVE  a[i] = r[i]
  <2>1. CASE i = Len(q) + 1
    BY <2>1
  <2>2. CASE i \in 1..Len(q)
    <3>1. a[i] = q[i]
      BY <2>2
    <3>2. q[i] = m + i
      BY <2>2
    <3>3. QED
      BY <3>1, <3>2
  <2>3. QED
    BY <2>1, <2>2
<1>4. QED
  BY <1>1, <1>2, <1>3

-----------------------------------------------------------------------------
\* The state before the first process starts satisfies the invariant.
LEMMA InitInv == Init => IInv
<1> SUFFICES ASSUME Init PROVE IInv
  OBVIOUS
<1>1. TypeOK
  <2>1. exitRequested \in BOOLEAN /\ hasPrefetched \in BOOLEAN
    BY DEF Init
  <2>2. Fresh \in Checkpoints
    BY ConstantsAssumption DEF Fresh, Checkpoints
  <2>3. inflight \in SUBSET Checkpoints /\ store \in SUBSET Checkpoints
    BY <2>2 DEF Init
  <2>4. acc \in Seq(Batches) /\ weights \in Seq(Batches)
    BY DEF Init
  <2>5. QED
    BY <2>1, <2>3, <2>4, ConstantsAssumption DEF Init, TypeOK, NoState
<1>2. CheckpointsAligned
  <2>1. Upto(0 * GA) = << >>
    BY UptoZero, ConstantsAssumption
  <2>2. QED
    BY <2>1, ConstantsAssumption DEF Init, CheckpointsAligned, Aligned, Fresh
<1>3. QED
  BY <1>1, <1>2 DEF Init, IInv, WeightsExact, FinalStepSaved, Live, Ended

-----------------------------------------------------------------------------
(* The generator's steps                                                   *)

\* Within a train_step the counters are naturals and the phase fixes them.
LEMMA TrainStepFacts ==
  ASSUME IInv, InTrainStep
  PROVE  /\ StepsTaken = step - 1 /\ StepsTaken \in Nat /\ StepsTaken * GA \in Nat
         /\ Len(acc) \in Nat /\ Len(acc) < GA
         /\ Delivered = StepsTaken * GA + Len(acc) /\ Delivered \in Nat
         /\ GeneratorInv /\ LoopInv
<1>1. StepsTaken = step - 1 /\ step > 0 /\ step \in Nat /\ acc \in Seq(Batches)
  BY DEF IInv, InTrainStep, Live, LoopInv, StepsTaken, TypeOK
<1>2. StepsTaken \in Nat
  BY <1>1
<1>3. StepsTaken * GA \in Nat
  BY <1>2, StepProduct
<1>4. Len(acc) \in Nat
  BY <1>1
<1>5. QED
  BY <1>1, <1>2, <1>3, <1>4 DEF IInv, InTrainStep, Live, Delivered

\* A step that leaves the trainer's and the disk's variables and the phase
\* alone only has to re-establish what is said of the loader.
LEMMA LoaderStep ==
  ASSUME IInv, UNCHANGED <<phase, trainerVars, diskVars, hostVars>>,
         gen' \in {"new", "lookahead", "promoted", "last", "dead"},
         nextBatch' \in 0..DataLen, position' \in 0..DataLen,
         captured' \in 0..DataLen \cup {NoState}, hasPrefetched' \in BOOLEAN,
         Live => GeneratorInv'
  PROVE  IInv'
<1> USE DEF trainerVars, diskVars, hostVars
<1>1. TypeOK'
  <2>1. (exitRequested \in BOOLEAN)' /\ (hasPrefetched \in BOOLEAN)'
    BY Zenon DEF IInv, TypeOK
  <2>2. QED
    BY <2>1 DEF IInv, TypeOK
<1>2. StepsTaken' = StepsTaken /\ Delivered' = Delivered /\ Live' = Live
  BY DEF StepsTaken, Delivered, Live
<1>3. WeightsExact' /\ CheckpointsAligned' /\ FinalStepSaved'
  BY <1>2 DEF IInv, WeightsExact, CheckpointsAligned, Aligned, FinalStepSaved
<1>4. (Live => LoopInv)'
  BY <1>2 DEF IInv, LoopInv
<1>5. QED
  BY <1>1, <1>2, <1>3, <1>4 DEF IInv

\* An exception ends the run: the model and the checkpoints stay as they were.
LEMMA RaiseInv ==
  ASSUME IInv, InTrainStep, NEW reason \in Ended \ {"done"}, Raise(reason),
         UNCHANGED <<diskVars, hostVars>>, position' = position,
         captured' \in {captured, NoState}, hasPrefetched' \in {hasPrefetched, FALSE}
  PROVE  IInv'
<1> USE DEF Raise, trainerVars, diskVars, hostVars
<1>1. TypeOK'
  <2>1. (exitRequested \in BOOLEAN)' /\ (hasPrefetched \in BOOLEAN)'
    BY Zenon DEF IInv, TypeOK
  <2>2. QED
    BY <2>1 DEF IInv, TypeOK
<1>2. StepsTaken' = StepsTaken /\ ~Live' /\ phase' \notin {"down", "done"}
  BY DEF StepsTaken, Live, Ended, InTrainStep
<1>3. WeightsExact' /\ CheckpointsAligned' /\ FinalStepSaved'
  BY <1>2 DEF IInv, WeightsExact, CheckpointsAligned, Aligned, FinalStepSaved, InTrainStep
<1>4. step' > 0
  BY DEF IInv, Live, LoopInv, InTrainStep
<1>5. QED
  BY <1>1, <1>2, <1>3, <1>4 DEF IInv

\* Yielding the next batch of the stream moves Delivered on by one.
LEMMA YieldInv ==
  ASSUME IInv, InTrainStep, Yield(Delivered + 1), UNCHANGED <<phase, diskVars, hostVars>>,
         Delivered + 1 <= DataLen,
         gen' \in {"new", "lookahead", "promoted", "last", "dead"},
         nextBatch' \in 0..DataLen, position' \in 0..DataLen,
         captured' \in 0..DataLen \cup {NoState}, hasPrefetched' \in BOOLEAN,
         Delivered' = Delivered + 1 => GeneratorInv'
  PROVE  IInv'
<1> USE DEF trainerVars, diskVars, hostVars
<1>1. /\ step' = step /\ steps' = steps /\ exitRequested' = exitRequested
      /\ weights' = weights /\ ntokens' = ntokens + 1 /\ acc' = Append(acc, Delivered + 1)
  BY DEF Yield
<1>2. StepsTaken' = StepsTaken /\ phase' = "train_step"
  BY <1>1 DEF StepsTaken, InTrainStep
<1>3. /\ acc \in Seq(Nat) /\ acc \in Seq(Batches) /\ Delivered + 1 \in Batches
      /\ acc = [i \in 1..Len(acc) |-> StepsTaken * GA + i]
  <2>1. acc \in Seq(Batches)
    BY DEF IInv, TypeOK
  <2>2. Delivered + 1 \in Batches
    BY TrainStepFacts, ConstantsAssumption DEF Batches
  <2>3. acc = [i \in 1..Len(acc) |-> StepsTaken * GA + i]
    BY TrainStepFacts DEF LoopInv, InTrainStep
  <2>4. acc \in Seq(Nat)
    <3>1. Len(acc) \in Nat /\ StepsTaken * GA \in Nat
      BY TrainStepFacts
    <3>2. [i \in 1..Len(acc) |-> StepsTaken * GA + i] \in Seq(Nat)
      BY <3>1
    <3>3. QED
      BY <2>3, <3>2
  <2>5. QED
    BY <2>1, <2>2, <2>3, <2>4
<1>4. acc' \in Seq(Batches) /\ Len(acc') = Len(acc) + 1
  BY <1>1, <1>3
<1>5. Delivered' = Delivered + 1
  BY <1>2, <1>4, TrainStepFacts DEF Delivered
<1>6. acc' = [i \in 1..Len(acc') |-> StepsTaken * GA + i]
  BY <1>1, <1>3, <1>4, TrainStepFacts, AppendNext
<1>7. TypeOK'
  <2>1. (exitRequested \in BOOLEAN)' /\ (hasPrefetched \in BOOLEAN)'
    BY <1>1, Zenon DEF IInv, TypeOK
  <2>2. QED
    BY <1>1, <1>4, <2>1 DEF IInv, TypeOK
<1>8. WeightsExact' /\ CheckpointsAligned' /\ FinalStepSaved'
  BY <1>1, <1>2 DEF IInv, WeightsExact, CheckpointsAligned, Aligned, FinalStepSaved, InTrainStep
<1>9. LoopInv'
  <2>1. step > 0 /\ step <= steps /\ ntokens = Delivered
    BY TrainStepFacts DEF LoopInv, InTrainStep
  <2>2. Len(acc') <= GA
    BY <1>4, TrainStepFacts, ConstantsAssumption
  <2>3. ntokens' = Delivered'
    BY <1>1, <1>5, <2>1
  <2>4. QED
    BY <1>1, <1>2, <1>6, <2>1, <2>2, <2>3 DEF LoopInv
<1>10. QED
  BY <1>2, <1>5, <1>7, <1>8, <1>9 DEF IInv, Ended

\* Every resumption of batch_generator keeps the invariant.
LEMMA GeneratorStep == ASSUME IInv, Generator PROVE IInv'
<1> USE ConstantsAssumption DEF NextForPrefetch, NextForPrefetchRaises, MarkPrefetchedBatchCurrent,
        GeneratorInv, trainerVars, diskVars, hostVars
<1>0. /\ position \in 0..DataLen /\ nextBatch \in 0..DataLen
      /\ captured \in 0..DataLen \cup {NoState} /\ hasPrefetched \in BOOLEAN
  BY Zenon DEF IInv, TypeOK
<1>1. CASE PrimeLookahead
  <2>1. InTrainStep
    BY <1>1 DEF PrimeLookahead
  <2>2. GeneratorInv /\ Delivered \in Nat /\ gen = "new"
    BY <1>1, <2>1, TrainStepFacts DEF PrimeLookahead
  <2>3. CASE /\ NextForPrefetch /\ nextBatch' = position + 1 /\ gen' = "lookahead"
             /\ UNCHANGED <<phase, trainerVars>>
    <3>1. UNCHANGED <<diskVars, hostVars>>
      BY <1>1 DEF PrimeLookahead
    <3>2. Delivered' = Delivered
      BY <2>3 DEF Delivered, StepsTaken
    <3>3. QED
      BY <1>0, <2>2, <2>3, <3>1, <3>2, LoaderStep
  <2>4. CASE NextForPrefetchRaises("StopIteration") /\ Raise("exhausted")
    BY <1>1, <2>1, <2>4, RaiseInv DEF PrimeLookahead, Ended
  <2>5. CASE NextForPrefetchRaises("error") /\ Raise("loader_error")
    BY <1>1, <2>1, <2>5, RaiseInv DEF PrimeLookahead, Ended
  <2>6. QED
    BY <1>1, <2>3, <2>4, <2>5 DEF PrimeLookahead
<1>2. CASE PromoteLookahead
  <2>1. InTrainStep /\ gen = "lookahead" /\ GeneratorInv
    BY <1>2, TrainStepFacts DEF PromoteLookahead
  <2>2. Delivered' = Delivered /\ InTrainStep'
    BY <1>2 DEF PromoteLookahead, Delivered, StepsTaken, InTrainStep
  <2>3. /\ UNCHANGED <<phase, trainerVars, nextBatch, diskVars, hostVars, position>>
        /\ gen' = "promoted" /\ captured' = NoState /\ hasPrefetched' = FALSE
    BY <1>2 DEF PromoteLookahead
  <2>4. GeneratorInv'
    BY <2>1, <2>2, <2>3
  <2>5. QED
    BY <1>0, <2>3, <2>4, LoaderStep
<1>3. CASE PrefetchAndYield
  <2>1. /\ InTrainStep /\ GeneratorInv /\ Delivered \in Nat
        /\ nextBatch = Delivered + 1 /\ position = Delivered + 1
    BY <1>3, TrainStepFacts DEF PrefetchAndYield
  <2>2. CASE /\ NextForPrefetch /\ nextBatch' = position + 1 /\ gen' = "lookahead"
             /\ Yield(nextBatch) /\ UNCHANGED phase
    <3>1. UNCHANGED <<diskVars, hostVars>> /\ Yield(Delivered + 1)
      BY <1>3, <2>1, <2>2 DEF PrefetchAndYield
    <3>2. /\ position < DataLen /\ position' = position + 1 /\ nextBatch' = position + 1
          /\ captured' = position /\ hasPrefetched' = TRUE /\ gen' = "lookahead"
      BY <2>2
    <3>3. Delivered' = Delivered + 1 => GeneratorInv'
      BY <2>1, <3>2
    <3>4. Delivered + 1 <= DataLen
      BY <1>0, <2>1, <3>2
    <3>5. QED
      BY <1>0, <2>1, <2>2, <3>1, <3>2, <3>3, <3>4, YieldInv
  <2>3. CASE /\ NextForPrefetchRaises("StopIteration") /\ gen' = "last"
             /\ Yield(nextBatch) /\ UNCHANGED <<phase, nextBatch>>
    <3>1. UNCHANGED <<diskVars, hostVars>> /\ Yield(Delivered + 1)
      BY <1>3, <2>1, <2>3 DEF PrefetchAndYield
    <3>2. /\ position = DataLen /\ position' = position /\ nextBatch' = nextBatch
          /\ captured' = NoState /\ hasPrefetched' = FALSE /\ gen' = "last"
      BY <2>3
    <3>3. Delivered' = Delivered + 1 => GeneratorInv'
      BY <2>1, <3>2
    <3>4. Delivered + 1 <= DataLen
      BY <1>0, <2>1, <3>2
    <3>5. QED
      BY <1>0, <2>1, <2>3, <3>1, <3>2, <3>3, <3>4, YieldInv
  <2>4. CASE NextForPrefetchRaises("error") /\ Raise("loader_error")
    BY <1>3, <2>1, <2>4, RaiseInv DEF PrefetchAndYield, Ended
  <2>5. QED
    BY <1>3, <2>2, <2>3, <2>4 DEF PrefetchAndYield
<1>4. CASE GeneratorReturns
  BY <1>4, RaiseInv DEF GeneratorReturns, Ended
<1>5. CASE LoadAndYield
  <2>1. /\ InTrainStep /\ GeneratorInv /\ Delivered \in Nat /\ gen = "new"
        /\ position = Delivered /\ ~hasPrefetched
    BY <1>5, TrainStepFacts DEF LoadAndYield
  <2>2. UNCHANGED <<captured, hasPrefetched, diskVars, hostVars>>
    BY <1>5 DEF LoadAndYield
  <2>3. CASE /\ position < DataLen /\ position' = position + 1
             /\ Yield(position + 1) /\ UNCHANGED <<phase, gen, nextBatch>>
    BY <1>0, <2>1, <2>2, <2>3, YieldInv
  <2>4. CASE position = DataLen /\ Raise("exhausted") /\ UNCHANGED position
    BY <2>1, <2>2, <2>4, RaiseInv DEF Ended
  <2>5. CASE Raise("loader_error") /\ UNCHANGED position
    BY <2>1, <2>2, <2>5, RaiseInv DEF Ended
  <2>6. QED
    BY <1>5, <2>3, <2>4, <2>5 DEF LoadAndYield
<1>6. QED
  BY <1>1, <1>2, <1>3, <1>4, <1>5 DEF Generator

-----------------------------------------------------------------------------
(* The training loop's steps                                               *)

\* A process that loads an aligned checkpoint continues where it was taken.
LEMMA LoadStep == ASSUME IInv, NEW c \in store, Load(c) PROVE IInv'
<1> USE DEF Load, LoadStateDict, diskVars, hostVars
<1>1. c \in Checkpoints /\ Aligned(c)
  BY DEF IInv, TypeOK, CheckpointsAligned
<1>2. TypeOK'
  <2>1. c.step \in Nat /\ c.ntokens \in Nat /\ c.position \in 0..DataLen /\ c.weights \in Seq(Batches)
    BY <1>1 DEF Checkpoints
  <2>2. (exitRequested \in BOOLEAN)' /\ (hasPrefetched \in BOOLEAN)'
    OBVIOUS
  <2>3. QED
    BY <2>1, <2>2, ConstantsAssumption DEF IInv, TypeOK
<1>3. StepsTaken' = c.step /\ c.step \in Nat /\ c.step * GA \in Nat
  BY <1>1, StepProduct DEF StepsTaken, Checkpoints
<1>4. Delivered' = c.step * GA
  BY <1>3 DEF Delivered
<1>5. WeightsExact' /\ CheckpointsAligned' /\ FinalStepSaved'
  BY <1>1, <1>3 DEF IInv, WeightsExact, CheckpointsAligned, Aligned, FinalStepSaved
<1>6. GeneratorInv'
  BY <1>1, <1>4 DEF GeneratorInv, Aligned
<1>7. LoopInv'
  BY <1>1, <1>4 DEF LoopInv, Aligned
<1>8. QED
  BY <1>2, <1>5, <1>6, <1>7 DEF IInv, Ended

\* Outside train_step everything that was delivered has been learnt.
LEMMA LoopFacts ==
  ASSUME IInv, phase \in {"loop", "save"}
  PROVE  /\ StepsTaken = step /\ step \in Nat /\ step * GA \in Nat /\ Delivered = step * GA
         /\ GeneratorInv /\ LoopInv /\ gen # "promoted" /\ StateDict = step * GA
         /\ ntokens = step * GA
<1>1. StepsTaken = step /\ step \in Nat
  BY DEF IInv, TypeOK, StepsTaken
<1>2. step * GA \in Nat
  BY <1>1, StepProduct
<1>3. Delivered = step * GA
  BY <1>1, <1>2 DEF Delivered
<1>4. GeneratorInv /\ LoopInv
  BY DEF IInv, Live
<1>5. gen # "promoted"
  BY <1>4 DEF GeneratorInv, InTrainStep
<1>6. StateDict = step * GA
  BY <1>3, <1>4, <1>5 DEF GeneratorInv, StateDict, IInv, TypeOK
<1>7. QED
  BY <1>1, <1>2, <1>3, <1>4, <1>5, <1>6 DEF LoopInv

\* Beginning a step delivers nothing yet.
LEMMA StartStepInv == ASSUME IInv, StartStep PROVE IInv'
<1> USE DEF StartStep, loaderVars, diskVars, hostVars
<1>1. TypeOK'
  <2>1. (exitRequested \in BOOLEAN)' /\ (hasPrefetched \in BOOLEAN)'
    BY Zenon DEF IInv, TypeOK
  <2>2. QED
    BY <2>1 DEF IInv, TypeOK
<1>2. /\ step \in Nat /\ steps \in Nat /\ StepsTaken = step /\ GeneratorInv /\ LoopInv
      /\ Delivered = step * GA /\ step * GA \in Nat /\ gen # "promoted"
  BY LoopFacts DEF IInv, TypeOK
<1>3. StepsTaken' = step
  BY <1>2 DEF StepsTaken
<1>4. Len(acc') = 0 /\ acc' = [i \in 1..0 |-> step * GA + i]
  <2>1. [i \in 1..0 |-> step * GA + i] \in Seq(Nat) /\ Len([i \in 1..0 |-> step * GA + i]) = 0
    BY <1>2
  <2>2. << >> \in Seq(Nat) /\ Len(<< >>) = 0
    OBVIOUS
  <2>3. << >> = [i \in 1..0 |-> step * GA + i]
    BY <2>1, <2>2, SeqEqual
  <2>4. QED
    BY <2>2, <2>3
<1>5. Delivered' = Delivered
  BY <1>2, <1>3, <1>4 DEF Delivered
<1>6. WeightsExact' /\ CheckpointsAligned' /\ FinalStepSaved'
  BY <1>2, <1>3 DEF IInv, WeightsExact, CheckpointsAligned, Aligned, FinalStepSaved
<1>7. GeneratorInv'
  BY <1>2, <1>5 DEF GeneratorInv
<1>8. LoopInv'
  BY <1>2, <1>3, <1>4, <1>5, ConstantsAssumption DEF LoopInv
<1>9. QED
  BY <1>1, <1>6, <1>7, <1>8 DEF IInv, Ended

\* An optimizer step turns the GA accumulated batches into learnt ones.
LEMMA OptimizerStepInv == ASSUME IInv, OptimizerStep PROVE IInv'
<1> USE DEF OptimizerStep, loaderVars, diskVars, hostVars
<1>1. /\ step \in Nat /\ steps \in Nat /\ step > 0 /\ step <= steps
      /\ StepsTaken = step - 1 /\ GeneratorInv /\ LoopInv /\ acc \in Seq(Batches)
  BY DEF IInv, TypeOK, Live, LoopInv, StepsTaken
<1>2. StepsTaken \in Nat /\ StepsTaken * GA \in Nat /\ step * GA = StepsTaken * GA + GA
      /\ GA \in Nat /\ step * GA \in Nat
  <2>1. StepsTaken \in Nat /\ step = StepsTaken + 1
    BY <1>1
  <2>2. QED
    BY <2>1, StepProduct, ConstantsAssumption
<1>3. StepsTaken' = step /\ Delivered = step * GA /\ Delivered' = step * GA
  BY <1>1, <1>2 DEF StepsTaken, Delivered
<1>4. weights' = Upto(step * GA)
  <2>1. acc = [i \in 1..GA |-> StepsTaken * GA + i]
    BY <1>1 DEF LoopInv
  <2>2. weights = Upto(StepsTaken * GA)
    BY DEF IInv, WeightsExact
  <2>3. Upto(StepsTaken * GA) \o acc = Upto(StepsTaken * GA + GA)
    BY <1>2, <2>1, UptoConcat
  <2>4. QED
    BY <1>2, <2>2, <2>3
<1>5. TypeOK'
  <2>1. weights' \in Seq(Batches)
    BY <1>1 DEF IInv, TypeOK
  <2>2. steps' \in Nat
    BY <1>1
  <2>3. (exitRequested \in BOOLEAN)' /\ (hasPrefetched \in BOOLEAN)'
    BY Zenon DEF IInv, TypeOK
  <2>4. QED
    BY <2>1, <2>2, <2>3 DEF IInv, TypeOK
<1>6. WeightsExact' /\ CheckpointsAligned' /\ FinalStepSaved'
  BY <1>3, <1>4 DEF IInv, WeightsExact, CheckpointsAligned, Aligned, FinalStepSaved
<1>7. GeneratorInv'
  BY <1>1, <1>3, ConstantsAssumption DEF GeneratorInv, InTrainStep
<1>8. LoopInv'
  BY <1>1, <1>3 DEF LoopInv
<1>9. QED
  BY <1>5, <1>6, <1>7, <1>8 DEF IInv, Ended

\* A checkpoint taken between two steps is aligned, whatever the generator holds.
LEMMA SnapshotAligned ==
  ASSUME IInv, phase = "save"
  PROVE  Snapshot \in Checkpoints /\ Aligned(Snapshot) /\ Snapshot.step = step
<1>1. /\ weights = Upto(step * GA) /\ weights \in Seq(Batches)
      /\ ntokens \in Nat /\ position \in 0..DataLen
  BY LoopFacts DEF IInv, WeightsExact, TypeOK
<1>2. StateDict \in 0..DataLen
  <2>1. StateDict \in {position, captured} /\ StateDict \in Nat
    BY LoopFacts DEF StateDict
  <2>2. captured \in 0..DataLen \cup {NoState}
    BY DEF IInv, TypeOK
  <2>3. QED
    BY <1>1, <2>1, <2>2, ConstantsAssumption DEF NoState
<1>3. QED
  BY <1>1, <1>2, LoopFacts DEF Snapshot, Checkpoints, Aligned

\* Saving, synchronously or not, adds aligned checkpoints only, and the save
\* of the last step is durable before the loop can end.
LEMMA SaveInv == ASSUME IInv, Save PROVE IInv'
<1> USE DEF trainerVars, loaderVars, hostVars
<1>1. /\ phase = "save" /\ phase' = "loop"
      /\ UNCHANGED <<trainerVars, loaderVars, hostVars>>
  BY DEF Save
<1>2. store' \subseteq store \cup inflight \cup {Snapshot} /\ inflight' \subseteq inflight \cup {Snapshot}
      /\ store \subseteq store' /\ (step = steps => Snapshot \in store')
  BY DEF Save, diskVars
<1>3. Snapshot \in Checkpoints /\ Aligned(Snapshot) /\ Snapshot.step = step
  BY <1>1, SnapshotAligned
<1>4. TypeOK'
  <2>1. (exitRequested \in BOOLEAN)' /\ (hasPrefetched \in BOOLEAN)'
    BY <1>1, Zenon DEF IInv, TypeOK
  <2>2. inflight' \in SUBSET Checkpoints /\ store' \in SUBSET Checkpoints
    BY <1>2, <1>3 DEF IInv, TypeOK
  <2>3. QED
    BY <1>1, <2>1, <2>2 DEF IInv, TypeOK
<1>5. step' = step /\ steps' = steps /\ StepsTaken' = step /\ Delivered' = step * GA
  BY <1>1, LoopFacts DEF StepsTaken, Delivered
<1>6. CheckpointsAligned'
  BY <1>2, <1>3 DEF IInv, CheckpointsAligned, Aligned
<1>7. WeightsExact' /\ FinalStepSaved'
  BY <1>1, <1>5, LoopFacts DEF IInv, WeightsExact, FinalStepSaved
<1>8. GeneratorInv'
  BY <1>1, <1>5, LoopFacts DEF GeneratorInv
<1>9. LoopInv'
  <2>1. step <= steps /\ ntokens = step * GA /\ step \in Nat /\ steps \in Nat
    BY <1>1, LoopFacts DEF LoopInv, IInv, TypeOK
  <2>2. step >= steps => \E c \in store' : c.step = step
    BY <1>2, <1>3, <2>1
  <2>3. QED
    BY <1>1, <1>5, <2>1, <2>2 DEF LoopInv
<1>10. QED
  BY <1>1, <1>4, <1>6, <1>7, <1>8, <1>9 DEF IInv, Ended

\* What the scheduler, the operator and the background save do to the process.
LEMMA EnvironmentStep ==
  ASSUME IInv, Finish \/ SaveCompletes \/ Signal \/ Crash \/ UNCHANGED vars
  PROVE  IInv'
<1> USE DEF trainerVars, loaderVars, diskVars, hostVars
<1>1. CASE Finish
  <2>1. (exitRequested \in BOOLEAN)' /\ (hasPrefetched \in BOOLEAN)'
    BY <1>1, Zenon DEF Finish, IInv, TypeOK
  <2>2. TypeOK'
    BY <1>1, <2>1 DEF Finish, IInv, TypeOK, Ended
  <2>3. StepsTaken' = StepsTaken /\ phase' = "done"
    BY <1>1 DEF Finish, StepsTaken
  <2>4. FinalStepSaved'
    BY <1>1 DEF Finish, FinalStepSaved, IInv, Live, LoopInv
  <2>5. WeightsExact' /\ CheckpointsAligned'
    BY <1>1, <2>3 DEF Finish, IInv, WeightsExact, CheckpointsAligned, Aligned
  <2>6. QED
    BY <2>2, <2>3, <2>4, <2>5 DEF IInv, Live
<1>2. CASE SaveCompletes
  <2>1. (exitRequested \in BOOLEAN)' /\ (hasPrefetched \in BOOLEAN)'
    BY <1>2, Zenon DEF SaveCompletes, IInv, TypeOK
  <2>2. TypeOK'
    BY <1>2, <2>1 DEF SaveCompletes, IInv, TypeOK
  <2>3. /\ StepsTaken' = StepsTaken /\ Delivered' = Delivered /\ Live' = Live
        /\ InTrainStep' = InTrainStep /\ store \subseteq store'
    BY <1>2 DEF SaveCompletes, StepsTaken, Delivered, Live, InTrainStep
  <2>4. WeightsExact' /\ CheckpointsAligned' /\ FinalStepSaved'
    BY <1>2, <2>3 DEF SaveCompletes, IInv, WeightsExact, CheckpointsAligned, Aligned, FinalStepSaved
  <2>5. (Live => GeneratorInv /\ LoopInv)'
    BY <1>2, <2>3 DEF SaveCompletes, IInv, GeneratorInv, LoopInv
  <2>6. QED
    BY <1>2, <2>2, <2>4, <2>5 DEF IInv, SaveCompletes
<1>3. CASE Signal
  <2>1. (exitRequested \in BOOLEAN)' /\ (hasPrefetched \in BOOLEAN)'
    BY <1>3, Zenon DEF Signal, IInv, TypeOK
  <2>2. TypeOK'
    BY <1>3, <2>1, ConstantsAssumption DEF Signal, IInv, TypeOK
  <2>3. /\ StepsTaken' = StepsTaken /\ Delivered' = Delivered /\ Live' = Live
        /\ InTrainStep' = InTrainStep
    BY <1>3 DEF Signal, StepsTaken, Delivered, Live, InTrainStep
  <2>4. QED
    BY <1>3, <2>2, <2>3 DEF Signal, IInv, WeightsExact, CheckpointsAligned, Aligned, FinalStepSaved,
       GeneratorInv, LoopInv
<1>4. CASE Crash
  <2>1. (exitRequested \in BOOLEAN)' /\ (hasPrefetched \in BOOLEAN)'
    BY <1>4, Zenon DEF Crash, IInv, TypeOK
  <2>2. TypeOK'
    BY <1>4, <2>1, ConstantsAssumption DEF Crash, IInv, TypeOK
  <2>3. QED
    BY <1>4, <2>2 DEF Crash, IInv, WeightsExact, CheckpointsAligned, Aligned, FinalStepSaved,
       Live, Ended
<1>5. CASE UNCHANGED vars
  <2>1. (exitRequested \in BOOLEAN)' /\ (hasPrefetched \in BOOLEAN)'
    BY <1>5, Zenon DEF vars, IInv, TypeOK
  <2>2. QED
    BY <1>5, <2>1 DEF vars, IInv, TypeOK, WeightsExact, CheckpointsAligned, Aligned, FinalStepSaved,
       GeneratorInv, LoopInv, Live, Delivered, StepsTaken, InTrainStep
<1>6. QED
  BY <1>1, <1>2, <1>3, <1>4, <1>5

-----------------------------------------------------------------------------
(* The theorems                                                            *)

\* The counting invariant holds throughout.
THEOREM Invariance == Spec => []IInv
<1>1. Init => IInv
  BY InitInv
<1>2. IInv /\ [Next]_vars => IInv'
  BY LoadStep, GeneratorStep, StartStepInv, OptimizerStepInv, SaveInv, EnvironmentStep
     DEF Next, Loop, Stopped
<1>3. QED
  BY <1>1, <1>2, PTL DEF Spec

\* Every variable keeps its type.
THEOREM TypeCorrect == Spec => []TypeOK
<1>1. IInv => TypeOK
  BY DEF IInv
<1>2. QED
  BY <1>1, Invariance, PTL

\* For any stream length, accumulation factor, save interval and number of
\* crashes, the model learns from each batch exactly once and in order.
THEOREM ExactlyOnceDelivery == Spec => []WeightsExact
<1>1. IInv => WeightsExact
  BY DEF IInv
<1>2. QED
  BY <1>1, Invariance, PTL

\* Every checkpoint describes one point of the data stream.
THEOREM AlignedCheckpoints == Spec => []CheckpointsAligned
<1>1. IInv => CheckpointsAligned
  BY DEF IInv
<1>2. QED
  BY <1>1, Invariance, PTL

\* The adapter's RuntimeErrors are unreachable from the generator.
THEOREM NoAdapterError == Spec => []AdapterNeverRaises
<1>1. IInv => AdapterNeverRaises
  BY DEF IInv, AdapterNeverRaises, GeneratorInv, InTrainStep, Live
<1>2. QED
  BY <1>1, Invariance, PTL

\* A run that ends normally has its final step on disk.
THEOREM FinalStepDurable == Spec => []FinalStepSaved
<1>1. IInv => FinalStepSaved
  BY DEF IInv
<1>2. QED
  BY <1>1, Invariance, PTL

-----------------------------------------------------------------------------
(* The refinement of ExactlyOnceTraining.  An abstract step is an          *)
(* optimizer step, the arrival of checkpoints on the disk, or a load; all  *)
(* other steps of the program stutter.                                     *)

\* A checkpoint in flight is of a step the process has taken.
InflightBehind ==
  /\ phase = "down" => inflight = {}
  /\ \A c \in inflight : c.step <= StepsTaken

\* The refinement's invariant.
RInv == IInv /\ InflightBehind

\* The steps whose checkpoints are on the disk.
SavedSteps == {c.step : c \in store}

\* Before the first process nothing is in flight.
LEMMA InitBehind == Init => InflightBehind
  BY DEF Init, InflightBehind

\* Steps taken only grow while the process lives, and its end loses what is
\* in flight (Save snapshots the step just taken).
LEMMA BehindStep == RInv /\ [Next]_vars => InflightBehind'
<1> SUFFICES ASSUME RInv, [Next]_vars PROVE InflightBehind'
  OBVIOUS
<1> USE DEF RInv, InflightBehind
<1>0. step \in Nat /\ \A c \in inflight : c.step \in Nat
  BY DEF IInv, TypeOK, Checkpoints
<1>1. CASE \E c \in store : Load(c)
  BY <1>1 DEF Load, diskVars
<1>2. CASE Generator
  <2>1. InTrainStep /\ inflight' = inflight /\ step' = step
    BY <1>2 DEF Generator, PrimeLookahead, PromoteLookahead, PrefetchAndYield, GeneratorReturns,
       LoadAndYield, Raise, Yield, diskVars, trainerVars
  <2>2. phase' \in {phase, "exhausted", "loader_error", "stop_iteration"}
    BY <1>2 DEF Generator, PrimeLookahead, PromoteLookahead, PrefetchAndYield, GeneratorReturns,
       LoadAndYield, Raise
  <2>3. StepsTaken' = StepsTaken /\ phase' # "down"
    BY <2>1, <2>2 DEF StepsTaken, InTrainStep
  <2>4. QED
    BY <2>1, <2>3
<1>3. CASE StartStep \/ Finish
  BY <1>0, <1>3 DEF StartStep, Finish, StepsTaken, diskVars, trainerVars
<1>4. CASE OptimizerStep
  BY <1>0, <1>4 DEF OptimizerStep, StepsTaken, diskVars
<1>5. CASE Save
  <2>1. inflight' \subseteq inflight \cup {Snapshot} /\ Snapshot.step = step
    BY <1>5 DEF Save, Snapshot, diskVars
  <2>2. phase' = "loop" /\ StepsTaken' = step /\ StepsTaken = step
    BY <1>5 DEF Save, StepsTaken, trainerVars
  <2>3. QED
    BY <1>0, <2>1, <2>2
<1>6. CASE SaveCompletes \/ Crash
  BY <1>6 DEF SaveCompletes, Crash
<1>7. CASE Signal \/ UNCHANGED vars
  BY <1>7 DEF Signal, vars, StepsTaken, diskVars, trainerVars
<1>8. QED
  BY <1>1, <1>2, <1>3, <1>4, <1>5, <1>6, <1>7 DEF Next, Loop, Stopped

\* The abstract step count is the program's: the model has learnt GA batches
\* for each optimizer step.
LEMMA TakenIsStepsTaken ==
  ASSUME IInv, phase # "down"
  PROVE  /\ ExactlyOnce!Taken = StepsTaken /\ StepsTaken \in Nat
         /\ weights = ExactlyOnce!FirstSteps(StepsTaken)
<1>1. StepsTaken \in Nat
  BY DEF IInv, Live, LoopInv, StepsTaken, TypeOK, Ended
<1>2. StepsTaken * GA \in Nat /\ GA \in Nat \ {0}
  BY <1>1, StepProduct, ConstantsAssumption
<1>3. weights = Upto(StepsTaken * GA)
  BY DEF IInv, WeightsExact
<1>4. Len(weights) = StepsTaken * GA
  BY <1>2, <1>3 DEF Upto
<1>5. (StepsTaken * GA) \div GA = StepsTaken
  BY <1>1, <1>2
<1>6. QED
  BY <1>1, <1>3, <1>4, <1>5 DEF Upto, ExactlyOnce!Taken, ExactlyOnce!FirstSteps

\* Checkpoints that become durable are of steps already taken.
LEMMA Persisting ==
  ASSUME RInv, phase # "down", weights' = weights,
         store \subseteq store',
         \A c \in store' : c \in store \cup inflight \/ c.step = StepsTaken
  PROVE  ExactlyOnce!Persist(ExactlyOnce!Taken)
<1>1. /\ ExactlyOnce!Taken = StepsTaken /\ StepsTaken \in Nat
      /\ weights = ExactlyOnce!FirstSteps(StepsTaken)
  BY TakenIsStepsTaken DEF RInv
<1>2. \A c \in inflight : c.step \in 0..StepsTaken
  BY <1>1 DEF RInv, InflightBehind, IInv, TypeOK, Checkpoints
<1>3. \A c \in store' : c.step \in SavedSteps \cup 0..StepsTaken
  BY <1>1, <1>2 DEF SavedSteps
<1>4. SavedSteps \subseteq SavedSteps' /\ SavedSteps' \subseteq SavedSteps \cup 0..StepsTaken
  BY <1>3 DEF SavedSteps
<1>5. QED
  BY <1>1, <1>4 DEF ExactlyOnce!Persist, SavedSteps

\* Every step of the program is an abstract step or a stutter.
LEMMA StepRefines == RInv /\ [Next]_vars => [ExactlyOnce!Next]_(ExactlyOnce!vars)
<1> SUFFICES ASSUME RInv, [Next]_vars PROVE [ExactlyOnce!Next]_(ExactlyOnce!vars)
  OBVIOUS
<1>1. ASSUME NEW c \in store, Load(c) PROVE ExactlyOnce!Next
  <2>1. weights' = c.weights /\ store' = store
    BY <1>1 DEF Load, diskVars
  <2>2. c.weights = ExactlyOnce!FirstSteps(c.step)
    BY DEF RInv, IInv, CheckpointsAligned, Aligned, Upto, ExactlyOnce!FirstSteps
  <2>3. ExactlyOnce!Rollback(c.step)
    BY <2>1, <2>2 DEF ExactlyOnce!Rollback
  <2>4. QED
    BY <2>3 DEF ExactlyOnce!Next
<1>2. CASE OptimizerStep
  <2>1. phase = "train_step" /\ phase' = "save" /\ store' = store /\ step' = step
    BY <1>2 DEF OptimizerStep, diskVars
  <2>2. IInv'
    BY <1>2, OptimizerStepInv DEF RInv
  <2>3. StepsTaken = step - 1 /\ StepsTaken' = step /\ step \in Nat
    BY <2>1 DEF StepsTaken, RInv, IInv, TypeOK
  <2>4. /\ ExactlyOnce!Taken = StepsTaken
        /\ weights = ExactlyOnce!FirstSteps(StepsTaken)
    BY <2>1, TakenIsStepsTaken DEF RInv
  <2>5. weights' = ExactlyOnce!FirstSteps(StepsTaken + 1)
    BY <2>1, <2>2, <2>3 DEF IInv, WeightsExact, Upto, ExactlyOnce!FirstSteps
  <2>6. ExactlyOnce!Learn(ExactlyOnce!Taken)
    BY <2>1, <2>4, <2>5 DEF ExactlyOnce!Learn
  <2>7. QED
    BY <2>6 DEF ExactlyOnce!Next
<1>3. CASE Save
  <2>1. phase = "save" /\ weights' = weights /\ StepsTaken = step
    BY <1>3 DEF Save, trainerVars, StepsTaken
  <2>2. store \subseteq store' /\ \A c \in store' : c \in store \cup inflight \/ c.step = step
    BY <1>3 DEF Save, diskVars, Snapshot
  <2>3. QED
    BY <2>1, <2>2, Persisting DEF ExactlyOnce!Next
<1>4. CASE SaveCompletes
  <2>1. phase # "down" /\ weights' = weights /\ store' = store \cup inflight
    BY <1>4 DEF SaveCompletes, trainerVars, RInv, InflightBehind
  <2>2. QED
    BY <2>1, Persisting DEF ExactlyOnce!Next
<1>5. CASE Generator
  <2>1. UNCHANGED <<weights, store>>
    BY <1>5 DEF Generator, PrimeLookahead, PromoteLookahead, PrefetchAndYield, GeneratorReturns,
       LoadAndYield, Raise, Yield, diskVars, trainerVars
  <2>2. QED
    BY <2>1 DEF ExactlyOnce!vars
<1>6. CASE StartStep \/ Finish \/ Signal \/ Crash \/ UNCHANGED vars
  BY <1>6 DEF StartStep, Finish, Signal, Crash, vars, diskVars, trainerVars, ExactlyOnce!vars
<1>7. QED
  BY <1>1, <1>2, <1>3, <1>4, <1>5, <1>6 DEF Next, Loop, Stopped

\* The data path implements exactly-once training with rollback, for every
\* value of the constants.
THEOREM RefinesExactlyOnce == Spec => ImplementsExactlyOnce
<1>1. Init => ExactlyOnce!Init
  BY DEF Init, ExactlyOnce!Init, Fresh
<1>2. RInv /\ [Next]_vars => InflightBehind' /\ [ExactlyOnce!Next]_(ExactlyOnce!vars)
  BY BehindStep, StepRefines
<1>3. Spec => []InflightBehind
  BY InitBehind, BehindStep, Invariance, PTL DEF RInv, Spec
<1>4. QED
  BY <1>1, <1>2, <1>3, Invariance, PTL DEF RInv, Spec, ImplementsExactlyOnce, ExactlyOnce!Spec
=============================================================================
