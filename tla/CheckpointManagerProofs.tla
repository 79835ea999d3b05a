----------------------- MODULE CheckpointManagerProofs -----------------------
(***************************************************************************)
(* The safety of the checkpoint manager, for any number of steps, configs, *)
(* relaunches, failures and signals.                                       *)
(*                                                                         *)
(* Beyond the checkpoint completed last there are only directories that a  *)
(* save has left incomplete.  A run cannot get past a step of the regular  *)
(* schedule before its save is complete, so at most one of them is of such *)
(* a step; each of the others is the last step of a run that a signal has  *)
(* ended.  Hence they are at most signals + 1, and with that many replicas *)
(* and one more the purge thread only ever gets directories below the      *)
(* checkpoint completed last, while a save always writes one above it.     *)
(*                                                                         *)
(* The last section is about the remote synchronizer, which uploads those  *)
(* checkpoints: what stop() has uploaded when it returns.                  *)
(***************************************************************************)
EXTENDS CheckpointManager, RemoteSynchronizer, SequenceTheorems, FiniteSetTheorems,
        WellFoundedInduction, TLAPS

(* Steps that every run saves which comes to them.                         *)
Regular(s) ==
  s = Steps \/ s % config.interval = 0 \/ (s = 1 /\ config.enable_first_step_checkpoint)

Running == phase \in {"loop", "train_step", "save", "dcp_save", "purge"}

(* The last step that save() has dealt with.                               *)
Settled == IF phase \in {"train_step", "save"} THEN step - 1 ELSE step

(* Directories above the newest checkpoint, and the steps among them, or   *)
(* about to be, that only a signal can have made the last.                 *)
Above == {s \in Present : s > durable}
Early == {s \in AllSteps : s > durable /\ ~Regular(s) /\ (s \in Present \/ s = steps)}

Loop ==
  /\ steps >= 1
  /\ Running => step <= steps /\ (steps = Steps \/ step = steps)
  /\ phase \in {"train_step", "save", "dcp_save", "purge"} => step >= 1
  /\ phase = "train_step" => steps = Steps /\ weights = step - 1
  /\ Running /\ phase # "train_step" => weights = step
  /\ phase = "purge" => step < steps
  /\ phase = "down" => steps = Steps
  /\ Running => outcome = "none"

Saves ==
  /\ copying => staging
  /\ writing # 0 => saveFuture = "running" \/ phase = "dcp_save"
  /\ phase = "dcp_save" => writing = step /\ saveFuture # "running"
  /\ phase \in {"down", "exited"} \/ outcome \in {"completed", "load_error"} => writing = 0
  /\ phase = "loop" /\ step >= steps => writing = 0
  /\ Running => writing <= Settled
  /\ writing # 0 /\ ~Regular(writing) => writing = steps

(* What is not full is the last checkpoint of the schedule: the training   *)
(* that ends early clears the flag.                                        *)
Contents ==
  /\ lastSaveModelOnly => config.last_save_model_only /\ steps = Steps
  /\ \A s \in AllSteps : content[s] # Nothing /\ ~content[s].full =>
                           s = Steps /\ config.last_save_model_only
  /\ \A s \in AllSteps : disk[s] # "absent" \/ writing = s => content[s] # Nothing

(* The rest needs the replicas.                                            *)
Disk ==
  /\ durable # 0 => disk[durable] = "complete"
  /\ \A s \in AllSteps : s > durable => disk[s] \in {"absent", "partial"}
  /\ \A s \in Above, r \in AllSteps : Regular(r) /\ r < s => r <= durable

(* The messages that leave the checkpoint completed last alone.            *)
Harmless == {s \in 0..Steps : s = Terminate \/ s < durable}

Purges == purging \in Harmless /\ \A i \in DOMAIN purgeQueue : purgeQueue[i] \in Harmless

Progress ==
  /\ writing # 0 => /\ writing > durable
                    /\ \A r \in AllSteps : Regular(r) /\ r < writing => r <= durable
  /\ Running => durable <= Settled
  /\ Running => \A r \in AllSteps : Regular(r) /\ r <= Settled =>
                  r <= durable \/ r <= writing \/ saveFuture = "failed"
  /\ (phase = "loop" /\ step >= steps) \/ outcome = "completed" => durable = step /\ step # 0
  /\ outcome = "load_error" /\ config.load_step = "latest" => durable # 0 /\ ~content[durable].full

Signals ==
  /\ Cardinality(Early) <= signals
  /\ exitRequested /\ steps = Steps => Cardinality(Early) < signals

Base == CheckpointsConsistent /\ Loop /\ Saves /\ Contents
Kept == Disk /\ Purges /\ Progress /\ Signals
IInv == Base /\ (EnoughReplicas => Kept)

-----------------------------------------------------------------------------
(* Sets of steps                                                           *)

(* Every non-empty set of naturals has a least element.                    *)
LEMMA LeastElement ==
  ASSUME NEW S \in SUBSET Nat, S # {}
  PROVE  \E m \in S : \A k \in S : m <= k
<1> DEFINE R == {p \in Nat \X Nat : p[1] < p[2]}
<1>1. IsWellFoundedOn(R, Nat)
  BY NatLessThanWellFounded DEF OpToRel
<1>2. PICK m \in S : \A k \in S : ~(<<k, m>> \in R)
  <2> HIDE DEF R
  <2> QED
    BY <1>1, WFMin
<1>3. \A k \in S : ~(k < m)
  BY <1>2
<1> QED
  BY <1>3

(* A set of steps is finite, and has a newest one unless it is empty       *)
(* (_find_load_step takes the maximum).                                    *)
LEMMA GreatestStep ==
  ASSUME NEW S \in SUBSET AllSteps
  PROVE  /\ IsFiniteSet(S) /\ Cardinality(S) \in Nat
         /\ S # {} => \E m \in S : \A k \in S : k <= m
<1>1. Steps \in Nat
  BY CheckpointAssumption
<1>2. IsFiniteSet(S) /\ Cardinality(S) \in Nat
  <2>1. IsFiniteSet(AllSteps)
    BY <1>1, FS_Interval DEF AllSteps
  <2> QED
    BY <2>1, FS_Subset, FS_CardinalityType
<1>3. ASSUME S # {} PROVE \E m \in S : \A k \in S : k <= m
  <2> DEFINE Bounds == {n \in Nat : \A k \in S : k <= n}
  <2>1. Steps \in Bounds
    BY <1>1 DEF AllSteps
  <2>2. PICK m \in Bounds : \A n \in Bounds : m <= n
    <3> HIDE DEF Bounds
    <3>1. Bounds \in SUBSET Nat /\ Bounds # {}
      BY <2>1 DEF Bounds
    <3> QED
      BY <3>1, LeastElement
  <2>3. m \in S
    <3>1. SUFFICES ASSUME m \notin S PROVE FALSE
      OBVIOUS
    <3>2. \A k \in S : k \in Nat \ {0} /\ k <= m - 1
      BY <1>1, <2>2, <3>1 DEF AllSteps
    <3>3. m - 1 \in Nat
      BY <1>3, <2>2, <3>2
    <3>4. m - 1 \in Bounds
      BY <3>2, <3>3
    <3> QED
      BY <2>2, <3>3, <3>4
  <2> QED
    BY <2>2, <2>3
<1> QED
  BY <1>2, <1>3

(* Largest is the newest step.                                             *)
LEMMA LargestIsNewest ==
  ASSUME NEW S \in SUBSET AllSteps, S # {}
  PROVE  Largest(S) \in S /\ \A k \in S : k <= Largest(S)
BY GreatestStep DEF Largest

(* A set of steps can be put into order (the purge thread gets the oldest  *)
(* directory first).                                                       *)
LEMMA OrderExists ==
  ASSUME NEW S \in SUBSET AllSteps
  PROVE  \E q \in [1..Cardinality(S) -> S] :
            \A i, j \in DOMAIN q : i < j => q[i] < q[j]
<1> DEFINE Ordered(T) == \E q \in [1..Cardinality(T) -> T] :
                            \A i, j \in DOMAIN q : i < j => q[i] < q[j]
           Bad == {n \in Nat : \E T \in SUBSET AllSteps : Cardinality(T) = n /\ ~Ordered(T)}
<1>1. SUFFICES ASSUME Bad # {} PROVE FALSE
  BY GreatestStep
<1>2. PICK n \in Bad : \A k \in Bad : n <= k
  <2> HIDE DEF Bad
  <2>1. Bad \in SUBSET Nat
    BY DEF Bad
  <2> QED
    BY <1>1, <2>1, LeastElement
<1>3. PICK T \in SUBSET AllSteps : Cardinality(T) = n /\ ~Ordered(T)
  BY <1>2
<1>4. T # {}
  <2>1. SUFFICES ASSUME T = {} PROVE FALSE
    OBVIOUS
  <2>2. Cardinality(T) = 0
    BY <2>1, FS_EmptySet
  <2>3. << >> \in [1..0 -> T]
    OBVIOUS
  <2> QED
    BY <1>3, <2>1, <2>2, <2>3
<1>5. PICK g \in T : \A k \in T : k <= g
  BY <1>4, GreatestStep
<1>6. IsFiniteSet(T) /\ n \in Nat \ {0}
  BY <1>2, <1>3, <1>4, GreatestStep, FS_EmptySet
<1> DEFINE U == T \ {g}
<1>7. Cardinality(U) = n - 1
  BY <1>3, <1>5, <1>6, FS_RemoveElement
<1>8. Ordered(U)
  <2> HIDE DEF Ordered
  <2>1. n - 1 \notin Bad /\ n - 1 \in Nat
    <3> HIDE DEF Bad
    <3> QED
      BY <1>2, <1>6
  <2> QED
    BY <1>7, <2>1
<1>9. PICK q \in [1..n - 1 -> U] : \A i, j \in DOMAIN q : i < j => q[i] < q[j]
  BY <1>7, <1>8
<1> DEFINE p == [i \in 1..n |-> IF i = n THEN g ELSE q[i]]
<1>10. p \in [1..n -> T]
  BY <1>5, <1>6, <1>9
<1>11. ASSUME NEW i \in 1..n, NEW j \in 1..n, i < j PROVE p[i] < p[j]
  <2>1. i \in 1..n - 1 /\ q[i] \in U
    BY <1>6, <1>9, <1>11
  <2>2. CASE j = n
    <3>1. q[i] < g
      <4> HIDE DEF Ordered, Bad
      <4>1. T \subseteq Int
        BY <1>3, CheckpointAssumption DEF AllSteps
      <4>2. q[i] \in Int /\ g \in Int /\ q[i] <= g /\ q[i] # g
        BY <1>5, <2>1, <4>1
      <4> QED
        BY <4>2
    <3> QED
      BY <2>1, <2>2, <3>1, <1>6
  <2>3. CASE j # n
    BY <1>6, <1>9, <1>11, <2>1, <2>3
  <2> QED
    BY <2>2, <2>3
<1>12. Ordered(T)
  BY <1>3, <1>10, <1>11
<1> QED
  BY <1>3, <1>12

(* What the purge thread is given comes from the set, and nowhere else.    *)
LEMMA SortedElements ==
  ASSUME NEW S \in SUBSET AllSteps
  PROVE  /\ Sorted(S) \in Seq(AllSteps \cup {Terminate})
         /\ \A i \in DOMAIN Sorted(S) : Sorted(S)[i] \in S
<1>1. Sorted(S) \in [1..Cardinality(S) -> S]
  BY OrderExists DEF Sorted
<1>2. Cardinality(S) \in Nat
  BY GreatestStep
<1> QED
  BY <1>1, <1>2, SeqDef

(* Appending, removing and concatenating messages of the purge queue.      *)
LEMMA QueueSteps ==
  ASSUME NEW q \in Seq(AllSteps \cup {Terminate}), NEW e \in AllSteps \cup {Terminate},
         NEW r \in Seq(AllSteps \cup {Terminate}), NEW P \in SUBSET Nat,
         \A i \in DOMAIN q : q[i] \in P
  PROVE  /\ Append(q, e) \in Seq(AllSteps \cup {Terminate})
         /\ q # << >> => /\ Head(q) \in P /\ Head(q) \in AllSteps \cup {Terminate}
                        /\ Tail(q) \in Seq(AllSteps \cup {Terminate})
                        /\ \A i \in DOMAIN Tail(q) : Tail(q)[i] \in P
         /\ q \o r \in Seq(AllSteps \cup {Terminate})
         /\ e \in P => \A i \in DOMAIN Append(q, e) : Append(q, e)[i] \in P
         /\ (\A i \in DOMAIN r : r[i] \in P) => \A i \in DOMAIN (q \o r) : (q \o r)[i] \in P
<1> DEFINE M == AllSteps \cup {Terminate}
<1> HIDE DEF M
<1>0. q \in Seq(M) /\ r \in Seq(M) /\ e \in M
  BY DEF M
<1>1. Append(q, e) \in Seq(M) /\ (e \in P => \A i \in DOMAIN Append(q, e) : Append(q, e)[i] \in P)
  BY <1>0, AppendProperties, LenProperties
<1>2. ASSUME q # << >>
      PROVE  /\ Head(q) \in P /\ Head(q) \in M /\ Tail(q) \in Seq(M)
             /\ \A i \in DOMAIN Tail(q) : Tail(q)[i] \in P
  <2>1. /\ Len(q) \in Nat \ {0} /\ DOMAIN q = 1..Len(q)
        /\ Head(q) = q[1] /\ Head(q) \in M /\ Tail(q) \in Seq(M)
        /\ Len(Tail(q)) = Len(q) - 1 /\ DOMAIN Tail(q) = 1..Len(Tail(q))
        /\ \A i \in 1..Len(Tail(q)) : Tail(q)[i] = q[i + 1]
    BY <1>0, <1>2, HeadTailProperties, LenProperties, EmptySeq
  <2> QED
    BY <2>1
<1>3. q \o r \in Seq(M) /\ ((\A i \in DOMAIN r : r[i] \in P) => \A i \in DOMAIN (q \o r) : (q \o r)[i] \in P)
  <2>1. /\ Len(q) \in Nat /\ Len(r) \in Nat /\ DOMAIN q = 1..Len(q) /\ DOMAIN r = 1..Len(r)
        /\ q \o r \in Seq(M) /\ Len(q \o r) = Len(q) + Len(r) /\ DOMAIN (q \o r) = 1..Len(q \o r)
        /\ \A i \in 1..Len(q) + Len(r) : (q \o r)[i] = IF i <= Len(q) THEN q[i] ELSE r[i - Len(q)]
    BY <1>0, ConcatProperties, LenProperties
  <2>2. ASSUME \A i \in DOMAIN r : r[i] \in P, NEW i \in DOMAIN (q \o r) PROVE (q \o r)[i] \in P
    <3>1. CASE i <= Len(q)
      BY <2>1, <2>2, <3>1
    <3>2. CASE ~(i <= Len(q))
      <4>1. i - Len(q) \in DOMAIN r
        BY <2>1, <2>2, <3>2
      <4> QED
        BY <2>1, <2>2, <3>2, <4>1
    <3> QED
      BY <3>1, <3>2
  <2> QED
    BY <2>1, <2>2
<1> QED
  BY <1>1, <1>2, <1>3 DEF M
-----------------------------------------------------------------------------
(* Types and the loop: what holds with any number of replicas              *)

(* load() restores a step of a directory that is there.                    *)
LEMMA LoadedStep ==
  ASSUME WithMetadata # {}
  PROVE  /\ Largest(WithMetadata) \in AllSteps /\ Largest(WithMetadata) \in WithMetadata
         /\ \A s \in WithMetadata : s <= Largest(WithMetadata)
<1> WithMetadata \in SUBSET AllSteps
  BY DEF WithMetadata
<1> QED
  BY LargestIsNewest

(* The counters of the loop agree.                                         *)
LEMMA LoopStep ==
  ASSUME Base, [Next]_vars
  PROVE  Loop'
<1>a. TypeOK /\ Loop /\ Saves /\ Steps \in Nat \ {0} /\ Configs \subseteq Checkpoint
  BY CheckpointAssumption DEF Base, CheckpointsConsistent
<1>1. CASE LoadNothing
  BY <1>1, <1>a DEF LoadNothing, TypeOK, Loop
<1>2. CASE LoadLatest
  BY <1>2, <1>a, LoadedStep DEF LoadLatest, TypeOK, Loop, AllSteps
<1>3. CASE LoadRaises
  BY <1>3, <1>a DEF LoadRaises, TypeOK, Loop, Running, loopVars
<1>4. CASE StartStep
  BY <1>4, <1>a DEF StartStep, TypeOK, Loop, Running
<1>5. CASE OptimizerStep
  BY <1>5, <1>a DEF OptimizerStep, EndTrainingEarly, TypeOK, Loop, Running
<1>6. CASE TrainingCompleted
  BY <1>6, <1>a DEF TrainingCompleted, TypeOK, Loop, Running, loopVars, Close
<1>7. CASE SkipSave
  BY <1>7, <1>a DEF SkipSave, TypeOK, Loop, Running, loopVars
<1>8. CASE SaveRaises
  BY <1>8, <1>a DEF SaveRaises, TypeOK, Loop, Running, loopVars, Close
<1>9. CASE BeginSyncSave
  BY <1>9, <1>a DEF BeginSyncSave, TypeOK, Loop, Running, loopVars
<1>10. CASE BeginAsyncSave
  BY <1>10, <1>a DEF BeginAsyncSave, TypeOK, Loop, Running, loopVars, LastStep
<1>11. CASE PurgeStaleCheckpoints
  BY <1>11, <1>a DEF PurgeStaleCheckpoints, TypeOK, Loop, Running, loopVars
<1>12. CASE Exit
  BY <1>12, <1>a DEF Exit, TypeOK, Loop, Running, loopVars
<1>13. CASE StagingDone
  BY <1>13, <1>a DEF StagingDone, TypeOK, Loop, Running, loopVars
<1>14. CASE WriterMkdir
  BY <1>14, <1>a DEF WriterMkdir, TypeOK, Loop, Running, loopVars
<1>15. CASE WriterDone
  BY <1>15, <1>a DEF WriterDone, TypeOK, Loop, Running, loopVars, LastStep
<1>16. CASE WriterFails
  BY <1>16, <1>a DEF WriterFails, TypeOK, Loop, Running, loopVars, Close
<1>17. CASE PurgeBegins
  BY <1>17, <1>a DEF PurgeBegins, TypeOK, Loop, Running, loopVars
<1>18. CASE PurgeEnds
  BY <1>18, <1>a DEF PurgeEnds, TypeOK, Loop, Running, loopVars
<1>19. CASE PurgerTerminates
  BY <1>19, <1>a DEF PurgerTerminates, TypeOK, Loop, Running, loopVars
<1>20. CASE DataExhausted
  BY <1>20, <1>a DEF DataExhausted, TypeOK, Loop, Running, loopVars, Close
<1>21. CASE Signal
  BY <1>21, <1>a DEF Signal, TypeOK, Loop, Running
<1>22. CASE Relaunch
  BY <1>22, <1>a DEF Relaunch, TypeOK, Loop
<1>23. CASE UNCHANGED vars
  BY <1>23, <1>a DEF vars, TypeOK, Loop, Running, loopVars
<1> QED
  BY <1>1, <1>2, <1>3, <1>4, <1>5, <1>6, <1>7, <1>8, <1>9, <1>10, <1>11, <1>12, <1>13,
     <1>14, <1>15, <1>16, <1>17, <1>18, <1>19, <1>20, <1>21, <1>22, <1>23
  DEF Next, Trainer, Writer, Purger, Environment, Stopped

(* A save is under way only where the loop expects one.                    *)
LEMMA SavesStep ==
  ASSUME Base, [Next]_vars
  PROVE  Saves'
<1>a. TypeOK /\ Loop /\ Saves /\ Steps \in Nat \ {0} /\ Configs \subseteq Checkpoint
  BY CheckpointAssumption DEF Base, CheckpointsConsistent
<1>1. CASE LoadNothing
  BY <1>1, <1>a DEF LoadNothing, TypeOK, Saves, Settled, saveVars
<1>2. CASE LoadLatest
  BY <1>2, <1>a, LoadedStep DEF LoadLatest, TypeOK, Saves, Settled, saveVars, AllSteps
<1>3. CASE LoadRaises
  BY <1>3, <1>a DEF LoadRaises, TypeOK, Saves, Settled, loopVars, saveVars
<1>4. CASE StartStep
  BY <1>4, <1>a DEF StartStep, TypeOK, Saves, Running, Settled, Regular, saveVars, jobVars
<1>5. CASE OptimizerStep
  BY <1>5, <1>a DEF OptimizerStep, EndTrainingEarly, TypeOK, Loop, Saves, Running, Settled, Regular, jobVars
<1>6. CASE TrainingCompleted
  BY <1>6, <1>a DEF TrainingCompleted, TypeOK, Saves, Settled, loopVars, saveVars, Close
<1>7. CASE SkipSave
  BY <1>7, <1>a
  DEF SkipSave, TypeOK, Loop, Saves, Running, Settled, Regular, loopVars, saveVars,
      jobVars, ShouldSave, LastStep
<1>8. CASE SaveRaises
  BY <1>8, <1>a DEF SaveRaises, TypeOK, Saves, Settled, loopVars, saveVars, Close
<1>9. CASE BeginSyncSave
  BY <1>9, <1>a
  DEF BeginSyncSave, TypeOK, Loop, Saves, Running, Settled, Regular, loopVars, jobVars,
      ShouldSave, LastStep, AsyncWait, Submit
<1>10. CASE BeginAsyncSave
  BY <1>10, <1>a
  DEF BeginAsyncSave, TypeOK, Loop, Saves, Running, Settled, Regular, loopVars, jobVars,
      ShouldSave, Submit
<1>11. CASE PurgeStaleCheckpoints
  BY <1>11, <1>a
  DEF PurgeStaleCheckpoints, TypeOK, Loop, Saves, Running, Settled, Regular, loopVars,
      saveVars, jobVars
<1>12. CASE Exit
  BY <1>12, <1>a DEF Exit, TypeOK, Saves, Settled, loopVars
<1>13. CASE StagingDone
  BY <1>13, <1>a
  DEF StagingDone, TypeOK, Saves, Running, Settled, Regular, loopVars, jobVars
<1>14. CASE WriterMkdir
  BY <1>14, <1>a
  DEF WriterMkdir, TypeOK, Saves, Running, Settled, Regular, loopVars, saveVars, jobVars
<1>15. CASE WriterDone
  BY <1>15, <1>a DEF WriterDone, TypeOK, Loop, Saves, Settled, loopVars
<1>16. CASE WriterFails
  BY <1>16, <1>a DEF WriterFails, TypeOK, Loop, Saves, Settled, loopVars, Close
<1>17. CASE PurgeBegins
  BY <1>17, <1>a
  DEF PurgeBegins, TypeOK, Saves, Running, Settled, Regular, loopVars, saveVars, jobVars
<1>18. CASE PurgeEnds
  BY <1>18, <1>a
  DEF PurgeEnds, TypeOK, Saves, Running, Settled, Regular, loopVars, saveVars, jobVars
<1>19. CASE PurgerTerminates
  BY <1>19, <1>a
  DEF PurgerTerminates, TypeOK, Saves, Running, Settled, Regular, loopVars, saveVars,
      jobVars
<1>20. CASE DataExhausted
  BY <1>20, <1>a
  DEF DataExhausted, TypeOK, Saves, Running, Regular, loopVars, saveVars, jobVars, Close
<1>21. CASE Signal
  BY <1>21, <1>a DEF Signal, TypeOK, Saves, Running, Settled, Regular, saveVars
<1>22. CASE Relaunch
  BY <1>22, <1>a DEF Relaunch, TypeOK, Saves, Settled
<1>23. CASE UNCHANGED vars
  BY <1>23, <1>a
  DEF vars, TypeOK, Saves, Running, Settled, Regular, loopVars, saveVars, jobVars
<1> QED
  BY <1>1, <1>2, <1>3, <1>4, <1>5, <1>6, <1>7, <1>8, <1>9, <1>10, <1>11, <1>12, <1>13,
     <1>14, <1>15, <1>16, <1>17, <1>18, <1>19, <1>20, <1>21, <1>22, <1>23
  DEF Next, Trainer, Writer, Purger, Environment, Stopped

(* The purge queue keeps its type, whatever is done with it.               *)
LEMMA QueueTyped ==
  ASSUME purgeQueue \in Seq(AllSteps \cup {Terminate})
  PROVE  /\ << >> \in Seq(AllSteps \cup {Terminate}) /\ <<Terminate>> \in Seq(AllSteps \cup {Terminate})
         /\ Append(purgeQueue, Terminate) \in Seq(AllSteps \cup {Terminate})
         /\ \A n : purgeQueue \o Stale(n) \in Seq(AllSteps \cup {Terminate})
         /\ purgeQueue # << >> => /\ Head(purgeQueue) \in AllSteps \cup {Terminate}
                                 /\ Tail(purgeQueue) \in Seq(AllSteps \cup {Terminate})
<1> DEFINE M == AllSteps \cup {Terminate}
<1>1. \A n : Stale(n) \in Seq(M)
  BY SortedElements DEF Stale, Present
<1>2. Terminate \in M
  OBVIOUS
<1> HIDE DEF M
<1>3. \A n : purgeQueue \o Stale(n) \in Seq(M)
  BY <1>1, ConcatProperties DEF M
<1>4. Append(purgeQueue, Terminate) \in Seq(M) /\ <<Terminate>> \in Seq(M) /\ << >> \in Seq(M)
  BY <1>2, AppendProperties, EmptySeq DEF M
<1>5. purgeQueue # << >> => Head(purgeQueue) \in M /\ Tail(purgeQueue) \in Seq(M)
  BY HeadTailProperties DEF M
<1> QED
  BY <1>3, <1>4, <1>5 DEF M

(* The variables keep their types.                                         *)
LEMMA TypeStep ==
  ASSUME Base, [Next]_vars
  PROVE  TypeOK'
<1>a. TypeOK /\ Loop /\ Saves /\ Steps \in Nat \ {0} /\ Configs \subseteq Checkpoint
  BY CheckpointAssumption DEF Base, CheckpointsConsistent
<1>1. CASE LoadNothing
  BY <1>1, <1>a DEF LoadNothing, TypeOK, saveVars, diskVars, jobVars, StartPurger
<1>2. CASE LoadLatest
  BY <1>2, <1>a, LoadedStep
  DEF LoadLatest, TypeOK, saveVars, diskVars, jobVars, AllSteps, StartPurger
<1>3. CASE LoadRaises
  BY <1>3, <1>a, QueueTyped
  DEF LoadRaises, TypeOK, loopVars, saveVars, diskVars, jobVars, StartPurger
<1>4. CASE StartStep
  BY <1>4, <1>a DEF StartStep, TypeOK, saveVars, diskVars, purgeVars, jobVars
<1>5. CASE OptimizerStep
  <2>1. staging' \in BOOLEAN /\ content' = content
    BY <1>5, <1>a DEF OptimizerStep, EndTrainingEarly, Saves
  <2>2. weights' \in 0..Steps /\ steps' \in 0..Steps
    BY <1>5, <1>a DEF OptimizerStep, EndTrainingEarly, TypeOK, Loop
  <2>3. lastSaveModelOnly' \in BOOLEAN
    BY <1>5, <1>a DEF OptimizerStep, EndTrainingEarly, TypeOK
  <2> QED
    BY <1>5, <1>a, <2>1, <2>2, <2>3 DEF OptimizerStep, TypeOK, purgeVars, jobVars
<1>6. CASE TrainingCompleted
  BY <1>6, <1>a, QueueTyped
  DEF TrainingCompleted, TypeOK, loopVars, saveVars, diskVars, jobVars, Close
<1>7. CASE SkipSave
  BY <1>7, <1>a DEF SkipSave, TypeOK, loopVars, saveVars, diskVars, purgeVars, jobVars
<1>8. CASE SaveRaises
  BY <1>8, <1>a, QueueTyped
  DEF SaveRaises, TypeOK, loopVars, saveVars, diskVars, jobVars, Close
<1>9. CASE BeginSyncSave
  <2>1. content' \in [AllSteps -> [versions: SUBSET AllSteps, full: BOOLEAN]]
    <3>1. weights \in AllSteps /\ step \in AllSteps
      BY <1>9, <1>a DEF BeginSyncSave, Loop, Running, TypeOK, AllSteps
    <3>2. (LastStep => ~lastSaveModelOnly) \in BOOLEAN
      OBVIOUS
    <3> QED
      BY <1>9, <1>a, <3>1, <3>2 DEF BeginSyncSave, Submit, TypeOK
  <2> QED
    BY <1>9, <1>a, <2>1 DEF BeginSyncSave, Submit, TypeOK, loopVars, purgeVars, jobVars
<1>10. CASE BeginAsyncSave
  <2>1. content' \in [AllSteps -> [versions: SUBSET AllSteps, full: BOOLEAN]]
    <3>1. weights \in AllSteps /\ step \in AllSteps
      BY <1>10, <1>a DEF BeginAsyncSave, Loop, Running, TypeOK, AllSteps
    <3> QED
      BY <1>10, <1>a, <3>1 DEF BeginAsyncSave, Submit, TypeOK
  <2>2. /\ staging' \in BOOLEAN /\ copying' \in BOOLEAN
        /\ saveFuture' = "running" /\ writing' = step /\ phase' = "purge"
    BY <1>10 DEF BeginAsyncSave, Submit
  <2>3. UNCHANGED <<outcome, loopVars, disk, durable, purgeVars, jobVars>>
    BY <1>10 DEF BeginAsyncSave
  <2> QED
    BY <1>a, <2>1, <2>2, <2>3 DEF TypeOK, loopVars, purgeVars, jobVars
<1>11. CASE PurgeStaleCheckpoints
  BY <1>11, <1>a, QueueTyped
  DEF PurgeStaleCheckpoints, TypeOK, loopVars, saveVars, diskVars, jobVars
<1>12. CASE Exit
  <2>1. copying' = FALSE /\ writing' = 0 /\ 0 \in 0..Steps /\ phase' = "exited"
    BY <1>12, <1>a DEF Exit
  <2>2. /\ UNCHANGED <<outcome, step, steps, weights, exitRequested, lastSaveModelOnly, saveFuture, staging>>
        /\ UNCHANGED <<disk, content, durable, purgeQueue, purging, purger>>
        /\ UNCHANGED <<config, restarts, failures, signals>>
    BY <1>12 DEF Exit, loopVars, diskVars, purgeVars, jobVars
  <2>3. copying' \in BOOLEAN /\ writing' \in 0..Steps
    BY <2>1
  <2>4. TypeOK
    BY <1>a
  <2> QED
    BY <2>1, <2>2, <2>3, <2>4, Zenon DEF TypeOK
<1>13. CASE StagingDone
  <2>1. copying' \in BOOLEAN
    BY <1>13 DEF StagingDone
  <2>2. UNCHANGED <<phase, outcome, loopVars, saveFuture, staging, writing, diskVars, purgeVars, jobVars>>
    BY <1>13 DEF StagingDone
  <2>3. TypeOK
    BY <1>a
  <2> QED
    BY <2>1, <2>2, <2>3 DEF TypeOK, loopVars, diskVars, purgeVars, jobVars
<1>14. CASE WriterMkdir
  BY <1>14, <1>a DEF WriterMkdir, TypeOK, Saves, loopVars, saveVars, purgeVars, jobVars
<1>15. CASE WriterDone
  <2>1. disk' \in [AllSteps -> {"absent", "partial", "torn", "complete"}]
    BY <1>15, <1>a DEF WriterDone, TypeOK
  <2>2. phase' \in {"loop", "purge", phase} /\ saveFuture' \in {"ok", saveFuture}
    BY <1>15 DEF WriterDone
  <2> QED
    BY <1>15, <1>a, <2>1, <2>2 DEF WriterDone, TypeOK, loopVars, purgeVars, jobVars
<1>16. CASE WriterFails
  <2>1. phase' \in {"closing", phase} /\ saveFuture' \in {"failed", saveFuture} /\ outcome' \in {"save_error", outcome}
    BY <1>16 DEF WriterFails, Close
  <2>2. purgeQueue' \in Seq(AllSteps \cup {Terminate})
    BY <1>16, <1>a, QueueTyped DEF WriterFails, Close, TypeOK
  <2>3. failures' \in 0..MaxFailures /\ writing' \in 0..Steps
    BY <1>16, <1>a, CheckpointAssumption DEF WriterFails, TypeOK
  <2> QED
    BY <1>16, <1>a, <2>1, <2>2, <2>3 DEF WriterFails, TypeOK, loopVars, diskVars
<1>17. CASE PurgeBegins
  <2>1. Head(purgeQueue) \in AllSteps /\ Tail(purgeQueue) \in Seq(AllSteps \cup {Terminate})
    BY <1>17, <1>a, QueueTyped DEF PurgeBegins, TypeOK
  <2>2. disk' \in [AllSteps -> {"absent", "partial", "torn", "complete"}]
    BY <1>17, <1>a, <2>1 DEF PurgeBegins, TypeOK
  <2> QED
    BY <1>17, <1>a, <2>1, <2>2
    DEF PurgeBegins, TypeOK, AllSteps, loopVars, saveVars, jobVars
<1>18. CASE PurgeEnds
  BY <1>18, <1>a DEF PurgeEnds, TypeOK, loopVars, saveVars, jobVars
<1>19. CASE PurgerTerminates
  BY <1>19, <1>a, QueueTyped
  DEF PurgerTerminates, TypeOK, loopVars, saveVars, diskVars, jobVars
<1>20. CASE DataExhausted
  BY <1>20, <1>a, QueueTyped
  DEF DataExhausted, TypeOK, loopVars, saveVars, diskVars, jobVars, Close
<1>21. CASE Signal
  <2>1. exitRequested' \in BOOLEAN
    BY <1>21 DEF Signal
  <2>2. signals' \in 0..MaxSignals
    BY <1>21, <1>a, CheckpointAssumption DEF Signal, TypeOK
  <2> QED
    BY <1>21, <1>a, <2>1, <2>2 DEF Signal, TypeOK, saveVars, diskVars, purgeVars
<1>22. CASE Relaunch
  <2>1. exitRequested' \in BOOLEAN /\ staging' \in BOOLEAN /\ copying' \in BOOLEAN
    BY <1>22 DEF Relaunch
  <2>3. lastSaveModelOnly' \in BOOLEAN
    BY <1>22, <1>a DEF Relaunch, TypeOK, Checkpoint
  <2>2. /\ step' \in 0..Steps /\ steps' \in 0..Steps /\ weights' \in 0..Steps /\ writing' \in 0..Steps
        /\ purging' \in 0..Steps /\ restarts' \in 0..MaxRestarts
    BY <1>22, <1>a, CheckpointAssumption DEF Relaunch, TypeOK
  <2> QED
    BY <1>22, <1>a, <2>1, <2>2, <2>3, QueueTyped DEF Relaunch, TypeOK, diskVars
<1>23. CASE UNCHANGED vars
  BY <1>23, <1>a DEF vars, TypeOK, loopVars, saveVars, diskVars, purgeVars, jobVars
<1> QED
  BY <1>1, <1>2, <1>3, <1>4, <1>5, <1>6, <1>7, <1>8, <1>9, <1>10, <1>11, <1>12, <1>13,
     <1>14, <1>15, <1>16, <1>17, <1>18, <1>19, <1>20, <1>21, <1>22, <1>23
  DEF Next, Trainer, Writer, Purger, Environment, Stopped


(* The files of a step directory are written once, from its own weights.   *)
LEMMA ConsistentStep ==
  ASSUME Base, [Next]_vars
  PROVE  CheckpointsConsistent'
<1>a. TypeOK /\ Loop /\ Saves /\ Steps \in Nat \ {0}
  BY CheckpointAssumption DEF Base, CheckpointsConsistent
<1>1. TypeOK'
  BY TypeStep
<1>2. ASSUME content' = content PROVE CheckpointsConsistent'
  BY <1>1, <1>2 DEF Base, CheckpointsConsistent
<1>3. ASSUME NEW full, phase = "save", Submit(full) PROVE CheckpointsConsistent'
  <2>1. weights = step /\ step \in AllSteps
    BY <1>a, <1>3 DEF Loop, Running, TypeOK, AllSteps
  <2>2. \A s \in AllSteps : content'[s] = IF s = step THEN [versions |-> {step}, full |-> full] ELSE content[s]
    BY <1>a, <1>3, <2>1 DEF Submit, TypeOK
  <2> QED
    BY <1>1, <2>2 DEF Base, CheckpointsConsistent
<1>4. CASE OptimizerStep
  BY <1>2, <1>4, <1>a DEF OptimizerStep, EndTrainingEarly, Saves
<1>5. CASE BeginSyncSave
  BY <1>3, <1>5 DEF BeginSyncSave
<1>6. CASE BeginAsyncSave
  BY <1>3, <1>6 DEF BeginAsyncSave
<1>7. CASE UNCHANGED content
  BY <1>2, <1>7
<1> QED
  BY <1>4, <1>5, <1>6, <1>7
     DEF Next, Trainer, Writer, Purger, Environment, Stopped, vars, diskVars, LoadNothing,
         LoadLatest, LoadRaises, StartStep, TrainingCompleted, SkipSave, SaveRaises,
         PurgeStaleCheckpoints, Exit, StagingDone, WriterMkdir, WriterDone, PurgeBegins,
         PurgeEnds, PurgerTerminates, DataExhausted, WriterFails, Signal, Relaunch

(* Who writes model-only files writes those of the last step of the        *)
(* schedule: _save_last_step sees last_save_model_only only where           *)
(* end_training_early has not cleared it.                                  *)
LEMMA ContentsStep ==
  ASSUME Base, [Next]_vars
  PROVE  Contents'
<1>a. /\ TypeOK /\ Loop /\ Saves /\ Contents /\ Steps \in Nat \ {0} /\ config' = config
  BY CheckpointAssumption DEF Base, CheckpointsConsistent, Next, Trainer, Writer, Purger,
     Environment, Stopped, vars, jobVars, LoadNothing, LoadLatest, LoadRaises, StartStep,
     OptimizerStep, TrainingCompleted, SkipSave, SaveRaises, BeginSyncSave, BeginAsyncSave,
     PurgeStaleCheckpoints, Exit, StagingDone, WriterMkdir, WriterDone, PurgeBegins, PurgeEnds,
     PurgerTerminates, DataExhausted, WriterFails, Signal, Relaunch
(* Most steps write no files and leave the flag and the steps alone.       *)
<1>1. ASSUME UNCHANGED <<lastSaveModelOnly, steps, content>>, writing' \in {0, writing},
             \A s \in AllSteps : disk'[s] # "absent" => disk[s] # "absent" \/ writing = s
      PROVE  Contents'
  BY <1>1, <1>a DEF Contents, AllSteps
<1>2. CASE OptimizerStep
  <2>1. content' = content
    BY <1>2, <1>a DEF OptimizerStep, Saves
  <2>2. lastSaveModelOnly' => lastSaveModelOnly /\ steps' = steps
    BY <1>2 DEF OptimizerStep, EndTrainingEarly
  <2> QED
    BY <1>2, <1>a, <2>1, <2>2 DEF OptimizerStep, Contents
<1>3. ASSUME NEW full \in BOOLEAN, phase = "save", Submit(full), ~full => step = Steps /\ config.last_save_model_only,
             UNCHANGED <<lastSaveModelOnly, steps, disk>>
      PROVE  Contents'
  <2>1. step \in AllSteps /\ weights = step
    BY <1>a, <1>3 DEF Loop, Running, TypeOK, AllSteps
  <2>2. \A s \in AllSteps : content'[s] = IF s = step THEN [versions |-> {step}, full |-> full] ELSE content[s]
    BY <1>a, <1>3, <2>1 DEF Submit, TypeOK
  <2>3. [versions |-> {step}, full |-> full] # Nothing
    BY DEF Nothing
  <2> QED
    BY <1>3, <1>a, <2>1, <2>2, <2>3 DEF Contents, Submit
<1>4. CASE BeginSyncSave
  <2>1. ~(LastStep => ~lastSaveModelOnly) => step = Steps /\ config.last_save_model_only
    BY <1>a DEF Contents, LastStep
  <2> QED
    BY <1>3, <1>4, <2>1 DEF BeginSyncSave, loopVars
<1>5. CASE BeginAsyncSave
  BY <1>3, <1>5 DEF BeginAsyncSave, loopVars
<1>6. CASE Relaunch
  BY <1>6, <1>a DEF Relaunch, Contents, diskVars, AllSteps
<1>7. CASE WriterMkdir
  BY <1>1, <1>7, <1>a DEF WriterMkdir, TypeOK, loopVars, saveVars
<1>8. CASE WriterDone
  BY <1>1, <1>8, <1>a DEF WriterDone, TypeOK, loopVars
<1>9. CASE PurgeBegins
  BY <1>1, <1>9, <1>a DEF PurgeBegins, TypeOK, WithMetadata, loopVars, saveVars
<1>10. CASE PurgeEnds
  BY <1>1, <1>10, <1>a DEF PurgeEnds, TypeOK, loopVars, saveVars
<1>11. CASE UNCHANGED <<lastSaveModelOnly, steps, content, disk>> /\ writing' \in {0, writing}
  BY <1>1, <1>11
<1> QED
  BY <1>2, <1>4, <1>5, <1>6, <1>7, <1>8, <1>9, <1>10, <1>11
     DEF Next, Trainer, Writer, Purger, Environment, Stopped, vars, loopVars, saveVars, diskVars,
         LoadNothing, LoadLatest, LoadRaises, StartStep, TrainingCompleted, SkipSave, SaveRaises,
         PurgeStaleCheckpoints, Exit, StagingDone, PurgerTerminates, DataExhausted, WriterFails,
         Signal

(* What holds with any number of replicas is inductive.                    *)
LEMMA BaseStep ==
  ASSUME Base, [Next]_vars
  PROVE  Base'
BY ConsistentStep, LoopStep, SavesStep, ContentsStep DEF Base

(* Nothing has happened yet.                                               *)
LEMMA InitIInv ==
  ASSUME Init
  PROVE  IInv
<1>a. Steps \in Nat \ {0} /\ MaxRestarts \in Nat /\ MaxFailures \in Nat /\ MaxSignals \in Nat
  BY CheckpointAssumption
<1>1. TypeOK
  <2>1. purgeQueue \in Seq(AllSteps \cup {Terminate})
    BY EmptySeq DEF Init
  <2>2. content \in [AllSteps -> [versions: SUBSET AllSteps, full: BOOLEAN]]
    BY DEF Init, Nothing
  <2>3. exitRequested \in BOOLEAN /\ staging \in BOOLEAN /\ copying \in BOOLEAN
    BY DEF Init
  <2>4. lastSaveModelOnly \in BOOLEAN
    BY CheckpointAssumption DEF Init, Checkpoint
  <2> QED
    BY <1>a, <2>1, <2>2, <2>3, <2>4 DEF Init, TypeOK
<1>2. CheckpointsConsistent
  BY <1>1 DEF Init, CheckpointsConsistent, Nothing
<1>3. Loop /\ Saves /\ Contents
  BY <1>a DEF Init, Loop, Saves, Running, Contents, AllSteps
<1>4. Present = {}
  BY DEF Present, Init
<1>5. Early = {}
  BY <1>a, <1>4 DEF Early, Init, Regular
<1>6. Disk /\ Purges /\ Progress
  <2>1. Disk /\ Progress
    BY <1>4 DEF Init, Disk, Progress, Above, Running
  <2>2. DOMAIN purgeQueue = {} /\ purging \in Harmless
    BY <1>a DEF Init, Harmless, Terminate
  <2> QED
    BY <2>1, <2>2 DEF Purges
<1>7. Signals
  BY <1>5, FS_EmptySet DEF Init, Signals
<1> QED
  BY <1>2, <1>3, <1>6, <1>7 DEF IInv, Base, Kept
-----------------------------------------------------------------------------
(* With enough replicas: the checkpoint completed last is out of reach     *)

(* The section of the job is fixed, and signals only come in addition.     *)
LEMMA SectionFixed ==
  ASSUME TypeOK, [Next]_vars
  PROVE  /\ config' = config /\ signals' \in {signals, signals + 1}
         /\ \A s : Regular(s)' <=> Regular(s)
         /\ EnoughReplicas' => EnoughReplicas
<1>1. config' = config /\ signals' \in {signals, signals + 1}
  BY DEF Next, Trainer, Writer, Purger, Environment, Stopped, vars, jobVars, LoadNothing,
         LoadLatest, LoadRaises, StartStep, OptimizerStep, TrainingCompleted, SkipSave, SaveRaises,
         BeginSyncSave, BeginAsyncSave, PurgeStaleCheckpoints, Exit, StagingDone, WriterMkdir,
         WriterDone, PurgeBegins, PurgeEnds, PurgerTerminates, DataExhausted, WriterFails, Signal,
         Relaunch
<1>2. \A s : Regular(s)' <=> Regular(s)
  BY <1>1 DEF Regular
<1>3. EnoughReplicas' => EnoughReplicas
  <2>1. config \in Checkpoint /\ signals \in Nat
    BY CheckpointAssumption DEF TypeOK
  <2>2. config.keep_latest_k \in Nat
    BY <2>1 DEF Checkpoint
  <2> QED
    BY <1>1, <2>1, <2>2 DEF EnoughReplicas
<1> QED
  BY <1>1, <1>2, <1>3

(* There are few directories above the checkpoint completed last: at most  *)
(* one of the regular schedule, and one for each signal.                   *)
LEMMA FewAbove ==
  ASSUME Base, Kept
  PROVE  Cardinality(Above) <= signals + 1
<1>a. TypeOK /\ Disk /\ Signals /\ signals \in Nat
  BY CheckpointAssumption DEF Base, CheckpointsConsistent, Kept, TypeOK
<1>1. /\ Above \in SUBSET AllSteps /\ Early \in SUBSET AllSteps
      /\ IsFiniteSet(Above) /\ IsFiniteSet(Early) /\ Cardinality(Early) \in Nat /\ Cardinality(Above) \in Nat
  <2>1. Above \in SUBSET AllSteps /\ Early \in SUBSET AllSteps
    BY DEF Above, Early, Present
  <2> QED
    BY <2>1, GreatestStep
<1>2. \A s \in Above : ~Regular(s) => s \in Early
  BY DEF Above, Early, Present
<1>3. ASSUME NEW r \in Above, NEW s \in Above, Regular(r), Regular(s) PROVE r = s
  <2>1. /\ r \in AllSteps /\ s \in AllSteps /\ r > durable /\ s > durable
        /\ r \in Nat /\ s \in Nat /\ durable \in Nat
    BY <1>a DEF Above, Present, AllSteps, TypeOK
  <2>2. ~(r < s) /\ ~(s < r)
    BY <1>a, <1>3, <2>1 DEF Disk
  <2> QED
    BY <2>1, <2>2
<1>4. CASE \E r \in Above : Regular(r)
  <2>1. PICK r \in Above : Regular(r)
    BY <1>4
  <2>2. Above \ {r} \in SUBSET Early
    BY <1>2, <1>3, <2>1
  <2>3. Cardinality(Above \ {r}) <= Cardinality(Early)
    BY <1>1, <2>2, FS_Subset
  <2>4. Cardinality(Above \ {r}) = Cardinality(Above) - 1
    BY <1>1, <2>1, FS_RemoveElement
  <2> QED
    BY <1>a, <1>1, <2>3, <2>4 DEF Signals
<1>5. CASE ~\E r \in Above : Regular(r)
  <2>1. Above \in SUBSET Early
    BY <1>2, <1>5
  <2>2. Cardinality(Above) <= Cardinality(Early)
    BY <1>1, <2>1, FS_Subset
  <2> QED
    BY <1>a, <1>1, <2>2 DEF Signals
<1> QED
  BY <1>4, <1>5

(* _purge_stale_checkpoints only ever finds directories below the          *)
(* checkpoint completed last.                                              *)
LEMMA StaleBelow ==
  ASSUME Base, Kept, EnoughReplicas, config.keep_latest_k > 0
  PROVE  \A i \in DOMAIN Stale(config.keep_latest_k) : Stale(config.keep_latest_k)[i] < durable
<1> DEFINE k == config.keep_latest_k
           Newer(s) == {t \in Present : t > s}
<1>a. TypeOK /\ signals \in Nat /\ k \in Nat /\ k >= signals + 2
  <2>1. TypeOK /\ config \in Checkpoint /\ signals \in Nat
    BY CheckpointAssumption DEF Base, CheckpointsConsistent, TypeOK
  <2> QED
    BY <2>1 DEF Checkpoint, EnoughReplicas
<1>1. ASSUME NEW s \in Present, Cardinality(Newer(s)) >= k PROVE s < durable
  <2>1. s \in Nat /\ durable \in Nat /\ Present \in SUBSET Nat
    BY <1>a DEF Present, AllSteps, TypeOK
  <2>2. SUFFICES ASSUME s >= durable PROVE FALSE
    BY <2>1
  <2>3. Newer(s) \in SUBSET Above
    <3> SUFFICES ASSUME NEW t \in Newer(s) PROVE t \in Above
      OBVIOUS
    <3>1. t \in Present /\ t > s /\ t \in Nat
      BY <2>1
    <3> QED
      BY <2>1, <2>2, <3>1 DEF Above
  <2>4. Above \in SUBSET AllSteps
    BY DEF Above, Present
  <2>5. IsFiniteSet(Above) /\ Cardinality(Above) \in Nat
    BY <2>4, GreatestStep
  <2>6. Cardinality(Newer(s)) <= Cardinality(Above) /\ Cardinality(Newer(s)) \in Nat
    BY <2>3, <2>5, FS_Subset, FS_CardinalityType
  <2> QED
    BY <1>a, <1>1, <2>5, <2>6, FewAbove
<1>2. {s \in Present : Cardinality(Newer(s)) >= k} \in SUBSET AllSteps
  BY DEF Present
<1> QED
  BY <1>1, <1>2, SortedElements DEF Stale

(* load() finds the checkpoint completed last, or there never was one.     *)
LEMMA NewestFound ==
  ASSUME Base, Kept
  PROVE  /\ WithMetadata # {} => durable # 0 /\ Largest(WithMetadata) = durable
         /\ WithMetadata = {} => durable = 0
         /\ ~FolderExists => durable = 0
<1>a. TypeOK /\ Disk /\ durable \in 0..Steps
  BY DEF Base, CheckpointsConsistent, Kept, TypeOK
<1>1. durable # 0 => durable \in WithMetadata /\ durable \in Present
  BY <1>a DEF Disk, WithMetadata, Present, AllSteps
<1>2. \A s \in WithMetadata : s <= durable
  BY <1>a DEF Disk, WithMetadata, AllSteps
<1>3. ASSUME WithMetadata # {} PROVE durable # 0 /\ Largest(WithMetadata) = durable
  <2>1. Largest(WithMetadata) \in AllSteps /\ Largest(WithMetadata) <= durable
    BY <1>2, <1>3, LoadedStep
  <2>2. durable # 0
    BY <1>a, <2>1 DEF AllSteps
  <2>3. durable <= Largest(WithMetadata)
    BY <1>1, <1>3, <2>2, LoadedStep
  <2> QED
    BY <1>a, <2>1, <2>2, <2>3 DEF AllSteps
<1> QED
  BY <1>1, <1>3 DEF FolderExists

(* No step touches the checkpoint completed last, or completes an older one. *)
LEMMA DiskStep ==
  ASSUME Base, Kept, EnoughReplicas, [Next]_vars
  PROVE  Disk'
<1>a. /\ TypeOK /\ Loop /\ Saves /\ Steps \in Nat \ {0} /\ Configs \subseteq Checkpoint
      /\ Disk /\ Purges /\ Progress /\ config' = config /\ \A s : Regular(s)' <=> Regular(s)
  BY CheckpointAssumption, SectionFixed DEF Base, CheckpointsConsistent, Kept
<1>1. CASE LoadNothing
  BY <1>1, <1>a DEF LoadNothing, TypeOK, Disk, Above, Present, diskVars
<1>2. CASE LoadLatest
  BY <1>2, <1>a DEF LoadLatest, TypeOK, Disk, Above, Present, diskVars
<1>3. CASE LoadRaises
  BY <1>3, <1>a DEF LoadRaises, TypeOK, Disk, Above, Present, diskVars
<1>4. CASE StartStep
  BY <1>4, <1>a DEF StartStep, TypeOK, Disk, Above, Present, diskVars
<1>5. CASE OptimizerStep
  BY <1>5, <1>a DEF OptimizerStep, EndTrainingEarly, TypeOK, Disk, Above, Present
<1>6. CASE TrainingCompleted
  BY <1>6, <1>a DEF TrainingCompleted, TypeOK, Disk, Above, Present, diskVars
<1>7. CASE SkipSave
  BY <1>7, <1>a DEF SkipSave, TypeOK, Disk, Above, Present, diskVars
<1>8. CASE SaveRaises
  BY <1>8, <1>a DEF SaveRaises, TypeOK, Disk, Above, Present, diskVars
<1>9. CASE BeginSyncSave
  BY <1>9, <1>a DEF BeginSyncSave, TypeOK, Disk, Above, Present
<1>10. CASE BeginAsyncSave
  BY <1>10, <1>a DEF BeginAsyncSave, TypeOK, Disk, Above, Present
<1>11. CASE PurgeStaleCheckpoints
  BY <1>11, <1>a DEF PurgeStaleCheckpoints, TypeOK, Disk, Above, Present, diskVars
<1>12. CASE Exit
  BY <1>12, <1>a DEF Exit, TypeOK, Disk, Above, Present, diskVars
<1>13. CASE StagingDone
  BY <1>13, <1>a DEF StagingDone, TypeOK, Disk, Above, Present, diskVars
<1>14. CASE WriterMkdir
  BY <1>14, <1>a DEF WriterMkdir, TypeOK, Disk, Progress, Above, Present
<1>15. CASE WriterDone
  BY <1>15, <1>a DEF WriterDone, TypeOK, Disk, Progress, Above, Present, AllSteps
<1>16. CASE WriterFails
  BY <1>16, <1>a DEF WriterFails, TypeOK, Disk, Above, Present, diskVars
<1>17. CASE PurgeBegins
  BY <1>17, <1>a DEF PurgeBegins, TypeOK, Disk, Purges, Harmless, Above, Present
<1>18. CASE PurgeEnds
  BY <1>18, <1>a
  DEF PurgeEnds, TypeOK, Disk, Purges, Harmless, Terminate, Above, Present, AllSteps
<1>19. CASE PurgerTerminates
  BY <1>19, <1>a DEF PurgerTerminates, TypeOK, Disk, Above, Present, diskVars
<1>20. CASE DataExhausted
  BY <1>20, <1>a DEF DataExhausted, TypeOK, Disk, Above, Present, diskVars
<1>21. CASE Signal
  BY <1>21, <1>a DEF Signal, TypeOK, Disk, Above, Present, diskVars
<1>22. CASE Relaunch
  BY <1>22, <1>a DEF Relaunch, TypeOK, Disk, Above, Present, diskVars
<1>23. CASE UNCHANGED vars
  BY <1>23, <1>a DEF vars, TypeOK, Disk, Above, Present, diskVars
<1> QED
  BY <1>1, <1>2, <1>3, <1>4, <1>5, <1>6, <1>7, <1>8, <1>9, <1>10, <1>11, <1>12, <1>13,
     <1>14, <1>15, <1>16, <1>17, <1>18, <1>19, <1>20, <1>21, <1>22, <1>23
  DEF Next, Trainer, Writer, Purger, Environment, Stopped

(* The purge thread only gets what is below the checkpoint completed last.  *)
LEMMA PurgesStep ==
  ASSUME Base, Kept, EnoughReplicas, [Next]_vars
  PROVE  Purges'
<1>a. /\ TypeOK /\ Loop /\ Saves /\ Steps \in Nat \ {0} /\ Configs \subseteq Checkpoint
      /\ Disk /\ Purges /\ Progress /\ config' = config /\ \A s : Regular(s)' <=> Regular(s)
  BY CheckpointAssumption, SectionFixed DEF Base, CheckpointsConsistent, Kept
<1>b. Harmless \in SUBSET Nat /\ Terminate \in Harmless
  BY <1>a DEF Harmless, Terminate
<1>c. \A i \in DOMAIN Append(purgeQueue, Terminate) : Append(purgeQueue, Terminate)[i] \in Harmless
  BY <1>a, <1>b, QueueSteps DEF TypeOK, Purges
<1>1. CASE LoadNothing
  BY <1>1, <1>a DEF LoadNothing, TypeOK, Purges, Harmless, diskVars, StartPurger
<1>2. CASE LoadLatest
  BY <1>2, <1>a DEF LoadLatest, TypeOK, Purges, Harmless, diskVars, StartPurger
<1>3. CASE LoadRaises
  BY <1>3, <1>a DEF LoadRaises, TypeOK, Purges, Harmless, Terminate, diskVars, StartPurger
<1>4. CASE StartStep
  BY <1>4, <1>a DEF StartStep, TypeOK, Purges, Harmless, diskVars, purgeVars
<1>5. CASE OptimizerStep
  BY <1>5, <1>a DEF OptimizerStep, EndTrainingEarly, TypeOK, Purges, Harmless, purgeVars
<1>6. CASE TrainingCompleted
  BY <1>6, <1>a, <1>c DEF TrainingCompleted, Close, Purges, Harmless, diskVars
<1>7. CASE SkipSave
  BY <1>7, <1>a DEF SkipSave, TypeOK, Purges, Harmless, diskVars, purgeVars
<1>8. CASE SaveRaises
  BY <1>8, <1>a, <1>c DEF SaveRaises, Close, Purges, Harmless, diskVars
<1>9. CASE BeginSyncSave
  BY <1>9, <1>a DEF BeginSyncSave, TypeOK, Purges, Harmless, purgeVars
<1>10. CASE BeginAsyncSave
  BY <1>10, <1>a DEF BeginAsyncSave, TypeOK, Purges, Harmless, purgeVars
<1>11. CASE PurgeStaleCheckpoints
  <2>1. Harmless' = Harmless /\ purging' = purging
    BY <1>11 DEF PurgeStaleCheckpoints, diskVars, Harmless
  <2>2. CASE config.keep_latest_k > 0
    <3> DEFINE r == Stale(config.keep_latest_k)
    <3>1. /\ r \in Seq(AllSteps \cup {Terminate})
          /\ \A i \in DOMAIN r : r[i] \in AllSteps
      BY SortedElements DEF Stale, Present
    <3>2. \A i \in DOMAIN r : r[i] \in Harmless
      BY <1>a, <2>2, <3>1, StaleBelow DEF AllSteps, Harmless
    <3>3. purgeQueue' = purgeQueue \o r
      BY <1>11, <2>2 DEF PurgeStaleCheckpoints
    <3> HIDE DEF r
    <3>4. \A i \in DOMAIN (purgeQueue \o r) : (purgeQueue \o r)[i] \in Harmless
      BY <1>a, <1>b, <3>1, <3>2, QueueSteps DEF TypeOK, Purges
    <3> QED
      BY <1>a, <2>1, <3>3, <3>4 DEF Purges
  <2>3. CASE ~(config.keep_latest_k > 0)
    BY <1>11, <1>a, <2>1, <2>3 DEF PurgeStaleCheckpoints, Purges
  <2> QED
    BY <2>2, <2>3
<1>12. CASE Exit
  BY <1>12, <1>a DEF Exit, TypeOK, Purges, Harmless, diskVars, purgeVars
<1>13. CASE StagingDone
  BY <1>13, <1>a DEF StagingDone, TypeOK, Purges, Harmless, diskVars, purgeVars
<1>14. CASE WriterMkdir
  BY <1>14, <1>a DEF WriterMkdir, TypeOK, Purges, Harmless, purgeVars
<1>15. CASE WriterDone
  BY <1>15, <1>a DEF WriterDone, TypeOK, Purges, Harmless, Progress, purgeVars
<1>16. CASE WriterFails
  <2>1. Harmless' = Harmless /\ purging' = purging
    BY <1>16 DEF WriterFails, diskVars, Harmless
  <2>2. purgeQueue' \in {purgeQueue, Append(purgeQueue, Terminate)}
    BY <1>16 DEF WriterFails, Close
  <2> QED
    BY <1>a, <1>c, <2>1, <2>2 DEF Purges
<1>17. CASE PurgeBegins
  BY <1>17, <1>a DEF PurgeBegins, TypeOK, Purges, Harmless
<1>18. CASE PurgeEnds
  BY <1>18, <1>a DEF PurgeEnds, TypeOK, Purges, Harmless, Terminate
<1>19. CASE PurgerTerminates
  BY <1>19, <1>a DEF PurgerTerminates, TypeOK, Purges, Harmless, diskVars
<1>20. CASE DataExhausted
  BY <1>20, <1>a, <1>c DEF DataExhausted, Close, Purges, Harmless, diskVars
<1>21. CASE Signal
  BY <1>21, <1>a DEF Signal, TypeOK, Purges, Harmless, diskVars, purgeVars
<1>22. CASE Relaunch
  BY <1>22, <1>a DEF Relaunch, TypeOK, Purges, Harmless, Terminate
<1>23. CASE UNCHANGED vars
  BY <1>23, <1>a DEF vars, TypeOK, Purges, Harmless, diskVars, purgeVars
<1> QED
  BY <1>1, <1>2, <1>3, <1>4, <1>5, <1>6, <1>7, <1>8, <1>9, <1>10, <1>11, <1>12, <1>13,
     <1>14, <1>15, <1>16, <1>17, <1>18, <1>19, <1>20, <1>21, <1>22, <1>23
  DEF Next, Trainer, Writer, Purger, Environment, Stopped

(* The loop does not get past a step of the schedule before it is saved.   *)
LEMMA ProgressStep ==
  ASSUME Base, Kept, EnoughReplicas, [Next]_vars
  PROVE  Progress'
<1>a. /\ TypeOK /\ Loop /\ Saves /\ Steps \in Nat \ {0} /\ Configs \subseteq Checkpoint
      /\ Disk /\ Purges /\ Progress /\ config' = config /\ \A s : Regular(s)' <=> Regular(s)
  BY CheckpointAssumption, SectionFixed DEF Base, CheckpointsConsistent, Kept
<1>1. CASE LoadNothing
  BY <1>1, <1>a, NewestFound
  DEF LoadNothing, TypeOK, Loop, Progress, Settled, saveVars, diskVars
<1>2. CASE LoadLatest
  BY <1>2, <1>a, NewestFound DEF LoadLatest, TypeOK, Progress, Settled, saveVars, diskVars
<1>3. CASE LoadRaises
  BY <1>3, <1>a, NewestFound
  DEF LoadRaises, TypeOK, Progress, Running, Disk, Loadable, saveVars, diskVars
<1>4. CASE StartStep
  BY <1>4, <1>a DEF StartStep, TypeOK, Loop, Progress, Running, Settled, saveVars, diskVars
<1>5. CASE OptimizerStep
  BY <1>5, <1>a DEF OptimizerStep, EndTrainingEarly, TypeOK, Saves, Progress, Running, Settled
<1>6. CASE TrainingCompleted
  BY <1>6, <1>a
  DEF TrainingCompleted, TypeOK, Progress, Settled, loopVars, saveVars, diskVars, Close
<1>7. CASE SkipSave
  BY <1>7, <1>a
  DEF SkipSave, TypeOK, Loop, Progress, AllSteps, Running, Settled, Regular, loopVars,
      saveVars, diskVars, ShouldSave, LastStep
<1>8. CASE SaveRaises
  BY <1>8, <1>a DEF SaveRaises, TypeOK, Progress, Running, saveVars, diskVars, Close
<1>9. CASE BeginSyncSave
  BY <1>9, <1>a
  DEF BeginSyncSave, TypeOK, Loop, Saves, Progress, AllSteps, Running, Settled, loopVars,
      AsyncWait, Submit
<1>10. CASE BeginAsyncSave
  BY <1>10, <1>a
  DEF BeginAsyncSave, TypeOK, Saves, Progress, AllSteps, Running, Settled, loopVars,
      AsyncWait, Submit
<1>11. CASE PurgeStaleCheckpoints
  BY <1>11, <1>a
  DEF PurgeStaleCheckpoints, TypeOK, Loop, Progress, Running, Settled, loopVars, saveVars,
      diskVars
<1>12. CASE Exit
  BY <1>12, <1>a DEF Exit, TypeOK, Progress, Running, loopVars, diskVars
<1>13. CASE StagingDone
  BY <1>13, <1>a DEF StagingDone, TypeOK, Progress, Running, Settled, loopVars, diskVars
<1>14. CASE WriterMkdir
  BY <1>14, <1>a DEF WriterMkdir, TypeOK, Progress, Running, Settled, loopVars, saveVars
<1>15. CASE WriterDone
  BY <1>15, <1>a
  DEF WriterDone, TypeOK, Saves, Progress, AllSteps, Running, Settled, loopVars
<1>16. CASE WriterFails
  BY <1>16, <1>a
  DEF WriterFails, TypeOK, Progress, Running, Settled, loopVars, diskVars, Close
<1>17. CASE PurgeBegins
  BY <1>17, <1>a DEF PurgeBegins, TypeOK, Progress, Running, Settled, loopVars, saveVars
<1>18. CASE PurgeEnds
  BY <1>18, <1>a DEF PurgeEnds, TypeOK, Progress, Running, Settled, loopVars, saveVars
<1>19. CASE PurgerTerminates
  BY <1>19, <1>a
  DEF PurgerTerminates, TypeOK, Progress, Running, Settled, loopVars, saveVars, diskVars
<1>20. CASE DataExhausted
  BY <1>20, <1>a DEF DataExhausted, TypeOK, Progress, Running, saveVars, diskVars, Close
<1>21. CASE Signal
  BY <1>21, <1>a DEF Signal, TypeOK, Progress, Running, Settled, saveVars, diskVars
<1>22. CASE Relaunch
  BY <1>22, <1>a DEF Relaunch, TypeOK, Progress, Running
<1>23. CASE UNCHANGED vars
  BY <1>23, <1>a DEF vars, TypeOK, Progress, Running, Settled, loopVars, saveVars, diskVars
<1> QED
  BY <1>1, <1>2, <1>3, <1>4, <1>5, <1>6, <1>7, <1>8, <1>9, <1>10, <1>11, <1>12, <1>13,
     <1>14, <1>15, <1>16, <1>17, <1>18, <1>19, <1>20, <1>21, <1>22, <1>23
  DEF Next, Trainer, Writer, Purger, Environment, Stopped

(* A step that cuts a run short is paid for by a signal.                    *)
LEMMA SignalsStep ==
  ASSUME Base, Kept, EnoughReplicas, [Next]_vars
  PROVE  Signals'
<1>a. /\ TypeOK /\ Loop /\ Saves /\ Steps \in Nat \ {0} /\ signals \in Nat
      /\ Disk /\ Purges /\ Progress /\ Signals /\ durable \in 0..Steps /\ steps \in 0..Steps
      /\ config' = config /\ \A s : Regular(s)' <=> Regular(s)
  BY CheckpointAssumption, SectionFixed DEF Base, CheckpointsConsistent, Kept, TypeOK
<1>b. IsFiniteSet(Early) /\ Cardinality(Early) \in Nat
  <2>1. Early \in SUBSET AllSteps
    BY DEF Early
  <2> QED
    BY <2>1, GreatestStep
<1>2. ASSUME Early' \in SUBSET Early PROVE Cardinality(Early') \in Nat /\ Cardinality(Early') <= Cardinality(Early)
  BY <1>b, <1>2, FS_Subset, FS_CardinalityType
<1>3. Regular(Steps)
  BY DEF Regular
(* Only OptimizerStep cuts a run short.                                     *)
<1>4. CASE OptimizerStep
  <2>1. Present' = Present /\ durable' = durable /\ signals' = signals /\ exitRequested' = exitRequested
    BY <1>4 DEF OptimizerStep, EndTrainingEarly, Present, jobVars
  <2>2. steps = Steps /\ step \in AllSteps
    BY <1>4, <1>a DEF OptimizerStep, EndTrainingEarly, Loop, TypeOK, AllSteps
  <2>3. CASE exitRequested
    <3>1. Early' \in SUBSET (Early \cup {step})
      BY <1>4, <1>a, <2>1, <2>3 DEF OptimizerStep, EndTrainingEarly, Early
    <3>2. /\ IsFiniteSet(Early \cup {step})
          /\ Cardinality(Early \cup {step}) \in Nat /\ Cardinality(Early \cup {step}) <= Cardinality(Early) + 1
      <4>1. /\ IsFiniteSet(Early \cup {step})
            /\ Cardinality(Early \cup {step}) = IF step \in Early THEN Cardinality(Early)
                                                                ELSE Cardinality(Early) + 1
        BY <1>b, FS_AddElement
      <4>2. Cardinality(Early) \in Nat
        BY <1>b, FS_CardinalityType
      <4> QED
        BY <4>1, <4>2
    <3>c. Cardinality(Early') \in Nat /\ Cardinality(Early') <= Cardinality(Early \cup {step})
      BY <3>1, <3>2, FS_Subset, FS_CardinalityType
    <3>3. Cardinality(Early') \in Nat /\ Cardinality(Early') <= signals
      BY <1>a, <1>b, <2>2, <2>3, <3>2, <3>c DEF Signals
    <3>4. ASSUME steps' = Steps PROVE Cardinality(Early') < signals
      <4>1. Early' \in SUBSET Early
        BY <1>a, <2>1, <2>2, <3>4 DEF Early
      <4> QED
        BY <1>2, <1>a, <1>b, <2>2, <2>3, <4>1 DEF Signals
    <3> QED
      BY <2>1, <3>3, <3>4 DEF Signals
  <2>4. CASE ~exitRequested
    <3>1. Early' \in SUBSET Early
      BY <1>4, <1>a, <2>1, <2>4 DEF OptimizerStep, EndTrainingEarly, Early
    <3> QED
      BY <1>2, <1>a, <1>b, <2>1, <2>4, <3>1 DEF Signals
  <2> QED
    BY <2>3, <2>4
(* A signal can pay for the next step that is cut short.                    *)
<1>5. CASE Signal
  <2>1. Early' = Early /\ signals' = signals + 1
    BY <1>5, <1>a DEF Signal, Early, Present, diskVars
  <2> QED
    BY <1>a, <1>b, <2>1 DEF Signals
<1>6. CASE Relaunch
  <2>1. steps' = Steps /\ exitRequested' = FALSE /\ signals' = signals /\ Present' = Present /\ durable' = durable
    BY <1>6 DEF Relaunch, Present, diskVars
  <2>2. Early' \in SUBSET Early
    BY <1>3, <1>a, <2>1 DEF Early
  <2> QED
    BY <1>2, <1>a, <1>b, <2>1, <2>2 DEF Signals
(* Of the others none adds to Early.                                        *)
<1>7. ASSUME exitRequested' = exitRequested, steps' = steps, signals' = signals, Early' \in SUBSET Early
      PROVE  Signals'
  BY <1>2, <1>7, <1>a, <1>b DEF Signals
<1>8. CASE WriterMkdir
  <2>1. /\ writing \in AllSteps /\ writing > durable /\ (~Regular(writing) => writing = steps)
        /\ durable' = durable /\ steps' = steps
    BY <1>8, <1>a DEF WriterMkdir, Progress, Saves, TypeOK, AllSteps, loopVars
  <2>2. Present' \in SUBSET (Present \cup {writing})
    BY <1>8, <1>a DEF WriterMkdir, Present, TypeOK
  <2>3. Early' \in SUBSET Early
    BY <1>a, <2>1, <2>2 DEF Early
  <2> QED
    BY <1>7, <1>8, <2>3 DEF WriterMkdir, loopVars, jobVars
<1>9. CASE WriterDone
  <2>1. /\ writing \in AllSteps /\ writing > durable /\ durable' = writing /\ steps' = steps
        /\ Present' = Present
    BY <1>9, <1>a DEF WriterDone, Progress, TypeOK, AllSteps, loopVars, Present
  <2>2. Early' \in SUBSET Early
    BY <1>a, <2>1 DEF Early, AllSteps
  <2> QED
    BY <1>7, <1>9, <2>2 DEF WriterDone, loopVars, jobVars
<1>10. CASE PurgeBegins
  <2>1. Present' \in SUBSET Present /\ durable' = durable /\ steps' = steps
    BY <1>10, <1>a DEF PurgeBegins, Present, WithMetadata, TypeOK, loopVars
  <2>2. Early' \in SUBSET Early
    BY <1>a, <2>1 DEF Early
  <2> QED
    BY <1>7, <1>10, <2>2 DEF PurgeBegins, loopVars, jobVars
<1>11. CASE PurgeEnds
  <2>1. Present' \in SUBSET Present /\ durable' = durable /\ steps' = steps
    BY <1>11, <1>a DEF PurgeEnds, Present, TypeOK, loopVars
  <2>2. Early' \in SUBSET Early
    BY <1>a, <2>1 DEF Early
  <2> QED
    BY <1>7, <1>11, <2>2 DEF PurgeEnds, loopVars, jobVars
<1>12. ASSUME UNCHANGED <<exitRequested, steps, signals, disk, durable>> PROVE Signals'
  <2>1. Early' = Early
    BY <1>12, <1>a DEF Early, Present
  <2> QED
    BY <1>7, <1>12, <2>1
<1> QED
  BY <1>4, <1>5, <1>6, <1>8, <1>9, <1>10, <1>11, <1>12
     DEF Next, Trainer, Writer, Purger, Environment, Stopped, vars, loopVars, diskVars,
         jobVars,
         LoadNothing, LoadLatest, LoadRaises, StartStep, TrainingCompleted, SkipSave, SaveRaises,
         BeginSyncSave, BeginAsyncSave, PurgeStaleCheckpoints, Exit, StagingDone,
         PurgerTerminates, DataExhausted, WriterFails

(* The invariant is inductive.                                             *)
LEMMA IInvStep ==
  ASSUME IInv, [Next]_vars
  PROVE  IInv'
<1>1. Base'
  BY BaseStep DEF IInv
<1>2. ASSUME EnoughReplicas' PROVE Kept'
  <2>1. Base /\ EnoughReplicas /\ Kept
    BY <1>2, SectionFixed DEF IInv, Base, CheckpointsConsistent
  <2> QED
    BY <2>1, DiskStep, PurgesStep, ProgressStep, SignalsStep DEF Kept
<1> QED
  BY <1>1, <1>2 DEF IInv

(* What the properties follow from.                                        *)
LEMMA IInvMeaning ==
  ASSUME IInv
  PROVE  /\ CheckpointsConsistent /\ NewestSurvives /\ PurgeSparesWriter
         /\ OnlyModelOnlyFails /\ LastStepDurable
<1>a. TypeOK /\ Base
  BY DEF IInv, Base, CheckpointsConsistent
<1>1. CheckpointsConsistent
  BY <1>a DEF Base
<1>2. ASSUME EnoughReplicas
      PROVE  /\ durable # 0 => disk[durable] = "complete"
             /\ writing # 0 => writing # purging /\ \A i \in DOMAIN purgeQueue : purgeQueue[i] # writing
             /\ outcome = "load_error" /\ config.load_step = "latest" =>
                  /\ durable = Steps /\ disk[durable] = "complete"
                  /\ ~content[durable].full /\ config.last_save_model_only
             /\ outcome = "completed" => disk[step] = "complete"
  <2>1. Disk /\ Purges /\ Progress
    BY <1>2 DEF IInv, Kept
  <2>2. durable # 0 => disk[durable] = "complete"
    BY <2>1 DEF Disk
  <2>3. ASSUME writing # 0
        PROVE  writing # purging /\ \A i \in DOMAIN purgeQueue : purgeQueue[i] # writing
    <3>1. writing \notin Harmless
      BY <1>a, <2>1, <2>3 DEF Progress, Harmless, Terminate, TypeOK
    <3> QED
      BY <2>1, <3>1 DEF Purges
  <2>4. durable # 0 /\ ~content[durable].full => durable = Steps /\ config.last_save_model_only
    BY <1>a, <2>2 DEF Base, Contents, TypeOK, AllSteps
  <2> QED
    BY <2>1, <2>2, <2>3, <2>4 DEF Progress
<1> QED
  BY <1>1, <1>2 DEF NewestSurvives, PurgeSparesWriter, OnlyModelOnlyFails, LastStepDurable

(* The inductive invariant holds of every behaviour.                       *)
THEOREM Invariant == Spec => []IInv
<1>1. Init => IInv
  BY InitIInv
<1>2. IInv /\ [Next]_vars => IInv'
  BY IInvStep
<1> QED
  BY <1>1, <1>2, PTL DEF Spec

(* The files of checkpoint step-N hold the weights after N steps, all of   *)
(* them of that step (maybe_wait_for_staging).                             *)
THEOREM Consistent == Spec => []CheckpointsConsistent
<1>1. IInv => CheckpointsConsistent
  BY IInvMeaning
<1> QED
  BY <1>1, Invariant, PTL

(* _purge_stale_checkpoints never costs the job the checkpoint that was    *)
(* completed last.                                                         *)
THEOREM NewestKept == Spec => []NewestSurvives
<1>1. IInv => NewestSurvives
  BY IInvMeaning
<1> QED
  BY <1>1, Invariant, PTL

(* The purge thread and DCP never work on the same directory.              *)
THEOREM WriterSpared == Spec => []PurgeSparesWriter
<1>1. IInv => PurgeSparesWriter
  BY IInvMeaning
<1> QED
  BY <1>1, Invariant, PTL

(* With load_step = -1 load() fails on nothing but the model-only          *)
(* checkpoint of the configured last step: a job that end_training_early   *)
(* has cut short, whatever its section says, left a full one.              *)
THEOREM LoadFailsOnModelOnly == Spec => []OnlyModelOnlyFails
<1>1. IInv => OnlyModelOnlyFails
  BY IInvMeaning
<1> QED
  BY <1>1, Invariant, PTL

(* A run that completes has its last step on disk.                         *)
THEOREM LastStepSaved == Spec => []LastStepDurable
<1>1. IInv => LastStepDurable
  BY IInvMeaning
<1> QED
  BY <1>1, Invariant, PTL

(* load() resumes from the checkpoint that was completed last, and refuses *)
(* only the model-only one of the configured last step.                    *)
THEOREM ResumesNewest == Spec => ResumesFromNewest
<1> DEFINE Resumes == IF phase' = "loop" THEN step' = durable
                                         ELSE config.load_step = "unset" \/ durable = Steps
<1>1. ASSUME IInv, [Next]_vars, EnoughReplicas, phase = "down", phase' # "down"
      PROVE  Resumes
  <2>1. Base /\ Kept /\ TypeOK /\ Disk
    BY <1>1 DEF IInv, Kept, Base, CheckpointsConsistent
  <2>2. LoadNothing \/ LoadLatest \/ LoadRaises
    BY <1>1, <2>1
    DEF Next, Trainer, Writer, Purger, Environment, Stopped, vars, StartStep, Base, Saves,
       OptimizerStep, TrainingCompleted, SkipSave, SaveRaises, BeginSyncSave, BeginAsyncSave,
       PurgeStaleCheckpoints, Exit, StagingDone, WriterMkdir, WriterDone, PurgeBegins, PurgeEnds,
       PurgerTerminates, DataExhausted, WriterFails, Signal, Relaunch
  <2>3. CASE LoadNothing \/ LoadLatest
    BY <2>1, <2>3, NewestFound DEF LoadNothing, LoadLatest
  <2>4. CASE LoadRaises
    <3>1. CASE config.load_step = "latest"
      <4>1. durable # 0 /\ ~Loadable(durable)
        BY <2>1, <2>4, <3>1, NewestFound DEF LoadRaises
      <4>2. durable \in AllSteps /\ disk[durable] = "complete" /\ ~content[durable].full
        BY <2>1, <4>1 DEF Disk, Loadable, TypeOK, AllSteps
      <4> QED
        BY <2>1, <2>4, <4>2 DEF Base, Contents, LoadRaises
    <3>2. CASE config.load_step # "latest"
      <4>1. config.load_step = "unset"
        BY <2>1, <3>2, CheckpointAssumption DEF TypeOK, Checkpoint
      <4> QED
        BY <2>4, <4>1 DEF LoadRaises
    <3> QED
      BY <3>1, <3>2
  <2> QED
    BY <2>2, <2>3, <2>4
<1>2. IInv /\ [Next]_vars => [EnoughReplicas /\ phase = "down" /\ phase' # "down" => Resumes]_vars
  BY <1>1
<1> QED
  BY <1>2, Invariant, PTL DEF Spec, ResumesFromNewest

-----------------------------------------------------------------------------
(* The upload of the checkpoints' folder                                   *)
(*                                                                         *)
(* RemoteSynchronizer, with its own variables: what the manager has left   *)
(* in the folder when the trainer is closed.                               *)
(*                                                                         *)
(* A thread that has returned made its last call after stop() had set the  *)
(* status, so the listing of that call has all files that were due (Last); *)
(* and main goes on only when the thread has returned (Wait).              *)

Past == {"finish", "unwound", "ended"}
Stopping == {"EXITING", "EXITED"}

(* Who has set the status. *)
Statused ==
  /\ status \in Stopping => at \in Past \cup {"waiting"}
  /\ at = "waiting" => status \in Stopping
  /\ at = "construct" => thread = "none"
  /\ at \in {"started", "train", "close"} => status = "RUNNING"
  /\ thread \in {"test", "list", "upload", "sleep"} => status \in {"RUNNING", "EXITING"}
  /\ thread = "none" => status = "INIT"

(* main does not come past stop() before the thread has returned. *)
Wait ==
  /\ at \in Past => status # "EXITING"
  /\ status = "EXITED" <=> thread = "returned"

(* The last call: it lists what is due, and ends with it uploaded. *)
Last ==
  /\ call = "last" => status \in Stopping
  /\ thread \in {"test", "sleep"} => call = "round"
  /\ call = "last" /\ thread \in {"list", "upload"} => due <= listed
  /\ thread = "upload" => remote <= listed
  /\ thread = "returned" /\ lastCall = "ok" => due <= remote

SyncInv == SyncTypeOK /\ Statused /\ Wait /\ Last

(* It holds when the process starts. *)
LEMMA InitSync == SyncInit => SyncInv
BY SomeFiles DEF SyncInit, SyncInv, SyncTypeOK, Statuses, Statused, Wait, Last, Past, Stopping

(* Main's steps, from the constructor to the end of the process, keep it. *)
LEMMA MainStep == SyncInv /\ Main => SyncInv'
<1> SUFFICES ASSUME SyncInv, Main PROVE SyncInv' OBVIOUS
<1> USE DEF SyncInv, SyncTypeOK, Statuses, Statused, Wait, Last, Past, Stopping, Goto, loop, files
<1>1. CASE ConstructorRaises BY <1>1 DEF ConstructorRaises
<1>2. CASE Start BY <1>2 DEF Start
<1>3. CASE ConstructorReturns BY <1>3 DEF ConstructorReturns
<1>4. CASE TrainEnds BY <1>4 DEF TrainEnds
<1>5. CASE CloseRaises BY <1>5 DEF CloseRaises
<1>6. CASE Stop BY <1>6 DEF Stop
<1>7. CASE StopReturns BY <1>7 DEF StopReturns, WaitedEnough
<1>8. CASE Finish BY <1>8 DEF Finish
<1>9. CASE InterpreterExits BY <1>9 DEF InterpreterExits
<1> QED
  BY <1>1, <1>2, <1>3, <1>4, <1>5, <1>6, <1>7, <1>8, <1>9 DEF Main

(* The upload thread's steps keep it. *)
LEMMA ThreadStep == SyncInv /\ Thread => SyncInv'
<1> SUFFICES ASSUME SyncInv, Thread PROVE SyncInv' OBVIOUS
<1> USE DEF SyncInv, SyncTypeOK, Statuses, Statused, Wait, Last, Past, Stopping, main, files
<1>1. CASE TestAndList BY <1>1 DEF TestAndList
<1>2. CASE NothingNew BY <1>2 DEF NothingNew, CallEnds, StatusAfter
<1>3. CASE DryRunFails BY <1>3 DEF DryRunFails, CallEnds, StatusAfter
<1>4. CASE UploadStarts BY <1>4 DEF UploadStarts
<1>5. CASE UploadDone BY <1>5 DEF UploadDone, CallEnds, StatusAfter
<1>6. CASE UploadFails BY <1>6 DEF UploadFails, CallEnds, StatusAfter
<1>7. CASE Wake BY <1>7 DEF Wake
<1> QED BY <1>1, <1>2, <1>3, <1>4, <1>5, <1>6, <1>7 DEF Thread

(* So do all, a file written by another process included. *)
LEMMA NextSync == SyncInv /\ [SyncNext]_syncVars => SyncInv'
<1> SUFFICES ASSUME SyncInv, [SyncNext]_syncVars PROVE SyncInv' OBVIOUS
<1>1. CASE Main BY <1>1, MainStep
<1>2. CASE Thread BY <1>2, ThreadStep
<1>3. CASE WriteFile
  BY <1>3, SomeFiles
  DEF WriteFile, SyncInv, SyncTypeOK, Statuses, Statused, Wait, Last, Past, Stopping, main, loop
<1>4. CASE UNCHANGED syncVars
  BY <1>4
  DEF syncVars, main, loop, files, SyncInv, SyncTypeOK, Statuses, Statused, Wait, Last, Past, Stopping
<1> QED BY <1>1, <1>2, <1>3, <1>4 DEF SyncNext

(* Once stop() has returned, all files that were in the folder when it was *)
(* called are uploaded, unless the last upload failed (stop, the last call *)
(* of _synchronize_loop).                                                  *)
THEOREM NothingLeftBehind == SyncSpec => []NoDataLeftBehind
<1>1. SyncInv => NoDataLeftBehind
  BY DEF SyncInv, SyncTypeOK, Statused, Wait, Last, Past, Stopping, NoDataLeftBehind, StopReturned
<1> QED BY <1>1, InitSync, NextSync, PTL DEF SyncSpec
=============================================================================
