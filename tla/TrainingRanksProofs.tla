------------------------- MODULE TrainingRanksProofs -------------------------
(***************************************************************************)
(* WholeCheckpoints, AgreedEndIsSaved and KilledOnlyWhenSplit, for any     *)
(* number of ranks, steps and microbatches, in this order; each part       *)
(* starts with its argument.                                               *)
(*                                                                         *)
(* Why a save in which two steps meet never gets its metadata: a rank that *)
(* has written had waited for its device, so every rank had enqueued all   *)
(* microbatches of its step (Waited, DeviceBound); a rank whose files the  *)
(* coordinator has been told of is still in that save, because only the    *)
(* coordinator's answer ends it (Lockstep); so both are at the same step.  *)
(***************************************************************************)
EXTENDS TrainingRanks, FiniteSetTheorems, WellFoundedInduction, TLAPS

Between == {"check", "save", "plan", "commit", "saved", "barrier", "loop"}
Place == Between \cup {"step", "out", "gone", "killed"}

(* Microbatches a rank has enqueued after s steps. *)
Due(s) == s * GA

(* The part of the type invariant the argument needs. *)
Types ==
  /\ pc \in [Rank -> Place]
  /\ step \in [Rank -> Nat] /\ micro \in [Rank -> 0 .. GA]
  /\ calls \in [Group -> [Rank -> Nat]]
  /\ done \in Nat
  /\ shards \subseteq Nat \X Rank \X Nat

(* Between steps a host has enqueued the microbatches of all its steps;    *)
(* within one, those it has counted.                                       *)
Position ==
  \A r \in Rank :
    /\ pc[r] \in Between => calls["model"][r] = Due(step[r])
    /\ pc[r] = "step" => calls["model"][r] + GA = Due(step[r]) + micro[r]

(* A save is three collectives; where a rank is tells how many it made.    *)
Phases ==
  \A r \in Rank :
    /\ pc[r] = "plan" => calls["control"][r] % 3 = 1
    /\ pc[r] = "commit" => calls["control"][r] % 3 = 2
    /\ pc[r] \in Place \ {"plan", "commit", "killed"} => calls["control"][r] % 3 = 0

(* No rank finishes a save before the coordinator does.                    *)
Lockstep ==
  \A r \in Rank : calls["control"][r] \div 3 <= calls["control"][Coordinator] \div 3

DeviceBound == \A r \in Rank : done <= calls["model"][r]

(* A rank that waits for the commit has waited for its device, and its     *)
(* files are written.                                                      *)
Waited ==
  \A r \in Rank : pc[r] = "commit" =>
    done >= Due(step[r]) /\ <<step[r], r, Due(step[r])>> \in shards

Filed == \A s \in shards : s[3] = Due(s[1])

(* The watchdog leaves nobody behind.                                      *)
KillsAll == (\E r \in Rank : pc[r] = "killed") => \A r \in Rank : ~ Present(r)

Complete == \A d \in meta, r \in Rank : <<d, r, Due(d)>> \in shards

IInv ==
  /\ Types /\ Position /\ Phases /\ Lockstep /\ DeviceBound
  /\ Waited /\ Filed /\ KillsAll /\ Complete

\* The constants' types.
LEMMA Constants ==
  /\ GA \in Nat \ {0} /\ WorldSize \in Nat \ {0}
  /\ Coordinator \in Rank
  /\ \A r \in Rank : r \in Nat
BY RankSizes DEF Rank, Coordinator

\* The batches due at a step go up by GA, so they tell the step.
LEMMA DueFacts ==
  /\ \A s \in Nat : Due(s) \in Nat /\ Due(s + 1) = Due(s) + GA
  /\ Due(0) = 0
  /\ \A s, t \in Nat : Due(s) = Due(t) => s = t
<1>1. GA \in Nat /\ GA > 0 BY Constants
<1>2. \A s \in Nat : Due(s) \in Nat /\ Due(s + 1) = Due(s) + GA
  BY <1>1 DEF Due
<1>3. Due(0) = 0 BY <1>1 DEF Due
<1>4. \A s, t \in Nat : s < t => s * GA < t * GA
  <2> TAKE s \in Nat, t \in Nat
  <2> HAVE s < t
  <2>1. PICK k \in Nat : t = s + k + 1 BY SMT
  <2>2. t * GA = s * GA + k * GA + GA BY <1>1, <2>1
  <2>3. s * GA \in Nat /\ k * GA \in Nat BY <1>1
  <2> QED BY <1>1, <2>2, <2>3
<1>5. \A s, t \in Nat : Due(s) = Due(t) => s = t
  <2> TAKE s \in Nat, t \in Nat
  <2> HAVE Due(s) = Due(t)
  <2>1. s * GA \in Nat /\ t * GA \in Nat /\ s * GA = t * GA BY <1>1 DEF Due
  <2> QED BY <2>1, <1>4
<1> QED BY <1>2, <1>3, <1>5

(* Counting by threes. *)
LEMMA Threes ==
  ASSUME NEW n \in Nat
  PROVE  /\ n % 3 = 0 => (n + 1) % 3 = 1 /\ (n + 1) \div 3 = n \div 3
         /\ n % 3 = 1 => (n + 1) % 3 = 2 /\ (n + 1) \div 3 = n \div 3
         /\ n % 3 = 2 => (n + 1) % 3 = 0 /\ (n + 1) \div 3 = (n \div 3) + 1
OBVIOUS

(* What the counter of collectives looks like after one more call.         *)
LEMMA IssueStep ==
  ASSUME Types, NEW g \in Group, NEW r \in Rank, Issue(g, r)
  PROVE  /\ calls' \in [Group -> [Rank -> Nat]]
         /\ calls'[g][r] = calls[g][r] + 1
         /\ \A h \in Group, q \in Rank : h # g \/ q # r => calls'[h][q] = calls[h][q]
BY DEF Types, Issue

(* The invariant holds when the ranks start. *)
LEMMA InitIInv == Init => IInv
<1> SUFFICES ASSUME Init PROVE IInv OBVIOUS
<1>1. Types BY Constants DEF Init, Types, Place, Between, Group
<1>2. Position BY DueFacts DEF Init, Position, Group
<1>3. Phases BY DEF Init, Phases, Group
<1>4. Lockstep BY Constants DEF Init, Lockstep, Group
<1>5. DeviceBound BY DEF Init, DeviceBound, Group
<1>6. Waited /\ Filed /\ KillsAll /\ Complete
  BY DEF Init, Waited, Filed, KillsAll, Complete
<1> QED BY <1>1, <1>2, <1>3, <1>4, <1>5, <1>6 DEF IInv

(* A rank that only moves on, from one place between steps to another or   *)
(* out of the loop, keeps the invariant.                                   *)
LEMMA Moves ==
  ASSUME IInv, NEW r \in Rank, NEW place \in Place \ {"plan", "commit", "killed", "step"},
         pc[r] \in Place \ {"plan", "commit", "killed", "gone"},
         pc[r] = "step" /\ place \in Between => micro[r] = GA,
         place \in Between => pc[r] # "out",
         Goto(r, place), UNCHANGED <<step, micro, calls, done, shards, meta>>
  PROVE  IInv'
<1> USE DEF IInv
<1>1. /\ pc' \in [Rank -> Place] /\ pc'[r] = place
      /\ \A q \in Rank : q # r => pc'[q] = pc[q]
  BY DEF Types, Goto
<1>2. Types' BY <1>1 DEF Types
<1>3. Position'
  <2>1. place \in Between => calls["model"][r] = Due(step[r])
    <3> HAVE place \in Between
    <3>1. CASE pc[r] \in Between BY <3>1 DEF Position
    <3>2. CASE pc[r] = "step"
      <4>1. calls["model"][r] + GA = Due(step[r]) + GA BY <3>2 DEF Position
      <4>2. calls["model"][r] \in Nat BY DEF Types, Group
      <4>3. Due(step[r]) \in Nat BY DueFacts DEF Types
      <4> QED BY <4>1, <4>2, <4>3, Constants
    <3> QED BY <3>1, <3>2 DEF Place
  <2> QED BY <1>1, <2>1 DEF Position, Between
<1>4. Phases' BY <1>1 DEF Phases, Types
<1>5. Lockstep' /\ DeviceBound' /\ Filed' /\ Complete'
  BY DEF Lockstep, DeviceBound, Filed, Complete
<1>6. Waited' BY <1>1 DEF Waited
<1>7. KillsAll' BY <1>1 DEF KillsAll, Present
<1> QED BY <1>2, <1>3, <1>4, <1>5, <1>6, <1>7

(* Every step of a rank, a device, the watchdog or the environment keeps it. *)
LEMMA NextIInv == IInv /\ [Next]_vars => IInv'
<1> SUFFICES ASSUME IInv, [Next]_vars PROVE IInv' OBVIOUS
<1> USE DEF IInv
<1>1. ASSUME NEW r \in Rank, BeginStep(r) PROVE IInv'
  <2>1. /\ pc' \in [Rank -> Place] /\ pc[r] = "loop" /\ pc'[r] = "step"
        /\ \A q \in Rank : q # r => pc'[q] = pc[q]
    BY <1>1 DEF Types, BeginStep, At, Goto, Place
  <2>2. /\ step' \in [Rank -> Nat] /\ step'[r] = step[r] + 1
        /\ \A q \in Rank : q # r => step'[q] = step[q]
    BY <1>1 DEF Types, BeginStep
  <2>3. /\ micro' \in [Rank -> 0 .. GA] /\ micro'[r] = 0
        /\ \A q \in Rank : q # r => micro'[q] = micro[q]
    BY <1>1, Constants DEF Types, BeginStep
  <2>4. UNCHANGED <<calls, done, shards, meta>> BY <1>1 DEF BeginStep, world, disk
  <2>5. Types' BY <2>1, <2>2, <2>3, <2>4 DEF Types
  <2>6. Position'
    <3>1. calls["model"][r] = Due(step[r]) BY <2>1 DEF Position, Between
    <3>2. calls["model"][r] \in Nat /\ step[r] \in Nat BY DEF Types, Group
    <3>3. Due(step[r] + 1) = Due(step[r]) + GA /\ Due(step[r] + 1) \in Nat
      BY <3>2, DueFacts
    <3>4. calls["model"][r] + GA = Due(step[r] + 1) + 0
      BY <3>1, <3>3
    <3> QED BY <2>1, <2>2, <2>3, <2>4, <3>4 DEF Position, Between
  <2>7. Phases' BY <2>1, <2>4 DEF Phases, Place, Between
  <2>8. Lockstep' /\ DeviceBound' /\ Filed' /\ Complete'
    BY <2>4 DEF Lockstep, DeviceBound, Filed, Complete
  <2>9. Waited' BY <2>1, <2>2, <2>4 DEF Waited
  <2>10. KillsAll' BY <2>1 DEF KillsAll, Present
  <2> QED BY <2>5, <2>6, <2>7, <2>8, <2>9, <2>10
<1>2. ASSUME NEW r \in Rank, Microbatch(r) PROVE IInv'
  <2>1. pc[r] = "step" /\ Issue("model", r) /\ UNCHANGED <<pc, step, done, shards, meta>>
    BY <1>2 DEF Microbatch, At, disk
  <2>2. /\ micro' \in [Rank -> 0 .. GA] /\ micro'[r] = micro[r] + 1
        /\ \A q \in Rank : q # r => micro'[q] = micro[q]
    BY <1>2, Constants DEF Types, Microbatch
  <2>3. /\ calls' \in [Group -> [Rank -> Nat]]
        /\ calls'["model"][r] = calls["model"][r] + 1
        /\ \A h \in Group, q \in Rank : h # "model" \/ q # r => calls'[h][q] = calls[h][q]
    BY <2>1, IssueStep DEF Group
  <2>4. Types' BY <2>1, <2>2, <2>3 DEF Types
  <2>5. \A q \in Rank : calls'["control"][q] = calls["control"][q]
    BY <2>3 DEF Group
  <2>6. Position'
    <3>1. calls["model"][r] + GA = Due(step[r]) + micro[r] BY <2>1 DEF Position
    <3>2. calls["model"][r] \in Nat /\ Due(step[r]) \in Nat /\ micro[r] \in Nat
      BY DueFacts DEF Types, Group
    <3> DEFINE c == calls["model"][r]
               u == Due(step[r])
               i == micro[r]
    <3>5. c \in Nat /\ u \in Nat /\ i \in Nat /\ GA \in Nat /\ c + GA = u + i
      BY <3>1, <3>2, Constants
    <3> HIDE DEF c, u, i
    <3>6. (c + 1) + GA = u + (i + 1) BY <3>5
    <3>3. calls'["model"][r] + GA = Due(step[r]) + micro'[r]
      BY <2>2, <2>3, <3>6 DEF c, u, i
    <3>4. \A q \in Rank : q # r => calls'["model"][q] = calls["model"][q]
      BY <2>3 DEF Group
    <3> QED BY <2>1, <2>2, <3>3, <3>4 DEF Position, Between
  <2>7. Phases' BY <2>1, <2>5 DEF Phases
  <2>8. Lockstep' BY <2>5, Constants DEF Lockstep
  <2>9. DeviceBound'
    <3>1. \A q \in Rank : calls["model"][q] \in Nat /\ calls'["model"][q] >= calls["model"][q]
      BY <2>3 DEF Types, Group
    <3> QED BY <2>1, <2>4, <3>1 DEF DeviceBound, Types, Group
  <2>10. Waited' /\ Filed' /\ KillsAll' /\ Complete'
    BY <2>1 DEF Waited, Filed, KillsAll, Complete, Present
  <2> QED BY <2>4, <2>6, <2>7, <2>8, <2>9, <2>10
<1>3. ASSUME NEW r \in Rank, Plan(r) PROVE IInv'
  <2>1. /\ pc' \in [Rank -> Place] /\ pc[r] = "save" /\ pc'[r] = "plan"
        /\ \A q \in Rank : q # r => pc'[q] = pc[q]
    BY <1>3 DEF Types, Plan, At, Goto, Place, Between
  <2>2. Issue("control", r) /\ UNCHANGED <<step, micro, done, shards, meta>>
    BY <1>3 DEF Plan, disk
  <2>3. /\ calls' \in [Group -> [Rank -> Nat]]
        /\ calls'["control"][r] = calls["control"][r] + 1
        /\ \A q \in Rank : q # r => calls'["control"][q] = calls["control"][q]
        /\ \A q \in Rank : calls'["model"][q] = calls["model"][q]
    BY <2>2, IssueStep DEF Group
  <2>4. Types' BY <2>1, <2>2, <2>3 DEF Types
  <2>5. Position' /\ DeviceBound' BY <2>1, <2>2, <2>3 DEF Position, DeviceBound, Between
  <2>6. calls["control"][r] % 3 = 0 BY <2>1 DEF Phases, Place, Between
  <2>7. \A q \in Rank : calls["control"][q] \in Nat BY DEF Types, Group
  <2>9. /\ calls'["control"][r] % 3 = 1
        /\ calls'["control"][r] \div 3 = calls["control"][r] \div 3
    BY <2>3, <2>6, <2>7, Threes
  <2>8. Phases' BY <2>1, <2>3, <2>9 DEF Phases
  <2>10. Lockstep' BY <2>3, <2>9, Constants DEF Lockstep
  <2>11. Waited' /\ Filed' /\ Complete' BY <2>1, <2>2 DEF Waited, Filed, Complete
  <2>12. KillsAll' BY <2>1 DEF KillsAll, Present
  <2> QED BY <2>4, <2>5, <2>8, <2>10, <2>11, <2>12
<1>4. ASSUME NEW r \in Rank, Write(r) PROVE IInv'
  <2>1. /\ pc' \in [Rank -> Place] /\ pc[r] = "plan" /\ pc'[r] = "commit"
        /\ \A q \in Rank : q # r => pc'[q] = pc[q]
    BY <1>4 DEF Types, Write, At, Goto, Place, Between
  <2>2. /\ Issue("control", r) /\ DeviceIdle(r)
        /\ UNCHANGED <<step, micro, done, meta>>
        /\ shards' = shards \cup {<<step[r], r, calls["model"][r]>>}
    BY <1>4 DEF Write
  <2>3. /\ calls' \in [Group -> [Rank -> Nat]]
        /\ calls'["control"][r] = calls["control"][r] + 1
        /\ \A q \in Rank : q # r => calls'["control"][q] = calls["control"][q]
        /\ \A q \in Rank : calls'["model"][q] = calls["model"][q]
    BY <2>2, IssueStep DEF Group
  <2>4. calls["model"][r] = Due(step[r]) BY <2>1 DEF Position, Between
  <2>5. step[r] \in Nat /\ Due(step[r]) \in Nat BY DueFacts DEF Types
  <2>6. Types' BY <2>1, <2>2, <2>3, <2>4, <2>5 DEF Types
  <2>7. Position' /\ DeviceBound' BY <2>1, <2>2, <2>3 DEF Position, DeviceBound, Between
  <2>8. calls["control"][r] % 3 = 1 BY <2>1 DEF Phases
  <2>9. \A q \in Rank : calls["control"][q] \in Nat BY DEF Types, Group
  <2>11. /\ calls'["control"][r] % 3 = 2
         /\ calls'["control"][r] \div 3 = calls["control"][r] \div 3
    BY <2>3, <2>8, <2>9, Threes
  <2>10. Phases' BY <2>1, <2>3, <2>11 DEF Phases
  <2>12. Lockstep' BY <2>3, <2>11, Constants DEF Lockstep
  <2>13. Waited' BY <2>1, <2>2, <2>4, <2>5 DEF Waited, DeviceIdle
  <2>14. Filed' BY <2>2, <2>4 DEF Filed
  <2>15. Complete' BY <2>2 DEF Complete
  <2>16. KillsAll' BY <2>1 DEF KillsAll, Present
  <2> QED BY <2>6, <2>7, <2>10, <2>12, <2>13, <2>14, <2>15, <2>16
<1>5. ASSUME NEW r \in Rank, Commit(r) PROVE IInv'
  <2>1. /\ pc' \in [Rank -> Place] /\ pc[r] = "commit" /\ pc'[r] = "saved"
        /\ \A q \in Rank : q # r => pc'[q] = pc[q]
    BY <1>5 DEF Types, Commit, At, Goto, Place, Between
  <2>2. Issue("control", r) /\ UNCHANGED <<step, micro, done, shards>>
    BY <1>5 DEF Commit
  <2>3. /\ calls' \in [Group -> [Rank -> Nat]]
        /\ calls'["control"][r] = calls["control"][r] + 1
        /\ \A q \in Rank : q # r => calls'["control"][q] = calls["control"][q]
        /\ \A q \in Rank : calls'["model"][q] = calls["model"][q]
    BY <2>2, IssueStep DEF Group
  <2>4. Types' BY <2>1, <2>2, <2>3 DEF Types
  <2>5. Position' /\ DeviceBound' BY <2>1, <2>2, <2>3 DEF Position, DeviceBound, Between
  <2>6. calls["control"][r] % 3 = 2 BY <2>1 DEF Phases
  <2>7. \A q \in Rank : calls["control"][q] \in Nat BY DEF Types, Group
  <2>9. /\ calls'["control"][r] % 3 = 0
        /\ calls'["control"][r] \div 3 = (calls["control"][r] \div 3) + 1
    BY <2>3, <2>6, <2>7, Threes
  <2>8. Phases' BY <2>1, <2>3, <2>9 DEF Phases, Place, Between
  <2>10. Lockstep'
    <3>1. CASE r = Coordinator BY <2>3, <2>7, <2>9, <3>1, Constants DEF Lockstep
    <3>2. CASE r # Coordinator
      <4>1. calls["control"][Coordinator] > calls["control"][r]
        BY <1>5, <3>2 DEF Commit
      <4>2. calls["control"][Coordinator] \in Nat /\ calls["control"][r] \in Nat
        BY <2>7, Constants
      <4>3. (calls["control"][r] \div 3) + 1 <= calls["control"][Coordinator] \div 3
        BY <2>6, <4>1, <4>2
      <4> QED BY <2>3, <2>9, <3>2, <4>3, Constants DEF Lockstep
    <3> QED BY <3>1, <3>2
  <2>11. Waited' /\ Filed' BY <2>1, <2>2 DEF Waited, Filed
  <2>12. KillsAll' BY <2>1 DEF KillsAll, Present
  <2>13. Complete'
    <3>1. CASE r # Coordinator
      BY <1>5, <2>2, <3>1 DEF Commit, Complete
    <3>2. CASE r = Coordinator
      <4>1. Joined("control", r) /\ meta' = meta \cup {step[r]}
        BY <1>5, <3>2 DEF Commit
      <4>2. ASSUME NEW q \in Rank PROVE <<step[r], q, Due(step[r])>> \in shards
        <5>1. calls["control"][q] >= calls["control"][r] BY <4>1 DEF Joined
        <5>2. calls["control"][q] \div 3 <= calls["control"][r] \div 3
          BY <3>2 DEF Lockstep
        <5>3. calls["control"][q] = calls["control"][r] BY <2>6, <2>7, <5>1, <5>2
        <5>4. pc[q] # "killed" BY <2>1 DEF KillsAll, Present
        <5>5. pc[q] = "commit"
          BY <2>6, <5>3, <5>4 DEF Phases, Types, Place
        <5>6. done >= Due(step[q]) /\ done >= Due(step[r])
              /\ <<step[q], q, Due(step[q])>> \in shards
          BY <2>1, <5>5 DEF Waited
        <5>7. done <= Due(step[q]) /\ done <= Due(step[r])
          BY <2>1, <5>5 DEF DeviceBound, Position, Between
        <5>8. Due(step[q]) = Due(step[r])
          BY <5>6, <5>7, DueFacts DEF Types
        <5>9. step[q] = step[r] BY <5>8, DueFacts DEF Types
        <5> QED BY <5>6, <5>9
      <4> QED BY <2>2, <4>1, <4>2 DEF Complete
    <3> QED BY <3>1, <3>2
  <2> QED BY <2>4, <2>5, <2>8, <2>10, <2>11, <2>12, <2>13
<1>6. ASSUME NEW r \in Rank, EnterBarrier(r) PROVE IInv'
  <2>1. /\ pc' \in [Rank -> Place] /\ pc[r] = "saved" /\ pc'[r] = "barrier"
        /\ \A q \in Rank : q # r => pc'[q] = pc[q]
    BY <1>6 DEF Types, EnterBarrier, At, Goto, Place, Between
  <2>2. Issue("world", r) /\ UNCHANGED <<step, micro, done, shards, meta>>
    BY <1>6 DEF EnterBarrier, disk
  <2>3. /\ calls' \in [Group -> [Rank -> Nat]]
        /\ \A q \in Rank : calls'["control"][q] = calls["control"][q]
        /\ \A q \in Rank : calls'["model"][q] = calls["model"][q]
    BY <2>2, IssueStep DEF Group
  <2>4. Types' BY <2>1, <2>2, <2>3 DEF Types
  <2>5. Position' /\ DeviceBound' BY <2>1, <2>2, <2>3 DEF Position, DeviceBound, Between
  <2>6. Phases' BY <2>1, <2>3 DEF Phases, Place, Between
  <2>7. Lockstep' BY <2>3, Constants DEF Lockstep
  <2>8. Waited' /\ Filed' /\ Complete' BY <2>1, <2>2 DEF Waited, Filed, Complete
  <2>9. KillsAll' BY <2>1 DEF KillsAll, Present
  <2> QED BY <2>4, <2>5, <2>6, <2>7, <2>8, <2>9
<1>7. ASSUME NEW r \in Rank,
             \/ Leave(r) \/ Exhausted(r) \/ Optimize(r) \/ Check(r)
             \/ SkipSave(r) \/ NextStep(r) \/ LeaveBarrier(r) \/ Close(r)
      PROVE  IInv'
  <2> USE DEF At, world, disk, Place, Between
  <2>1. CASE Leave(r) BY <2>1, Moves DEF Leave
  <2>2. CASE Exhausted(r) BY <2>2, Moves DEF Exhausted
  <2>3. CASE Optimize(r) BY <2>3, Moves DEF Optimize
  <2>4. CASE Check(r) BY <2>4, Moves DEF Check
  <2>5. CASE SkipSave(r) BY <2>5, Moves DEF SkipSave
  <2>6. CASE NextStep(r) BY <2>6, Moves DEF NextStep
  <2>7. CASE LeaveBarrier(r) BY <2>7, Moves DEF LeaveBarrier
  <2>8. CASE Close(r) BY <2>8, Moves DEF Close
  <2> QED BY <1>7, <2>1, <2>2, <2>3, <2>4, <2>5, <2>6, <2>7, <2>8
<1>8. ASSUME DeviceRuns PROVE IInv'
  <2>1. /\ DeviceReady /\ done' = done + 1
        /\ UNCHANGED <<pc, step, micro, calls, shards, meta>>
    BY <1>8 DEF DeviceRuns, host, disk
  <2>2. Types' BY <2>1 DEF Types
  <2>3. DeviceBound' BY <2>1 DEF DeviceBound, DeviceReady, Types, Group
  <2>4. Waited'
    <3>1. \A r \in Rank : done' >= done /\ Due(step[r]) \in Nat
      BY <2>1, DueFacts DEF Types
    <3> QED BY <2>1, <2>2, <3>1 DEF Waited, Types
  <2>5. Position' /\ Phases' /\ Lockstep' /\ Filed' /\ KillsAll' /\ Complete'
    BY <2>1 DEF Position, Phases, Lockstep, Filed, KillsAll, Complete, Present
  <2> QED BY <2>2, <2>3, <2>4, <2>5
<1>9. ASSUME UNCHANGED <<pc, step, micro, calls, done, shards, meta>> PROVE IInv'
  BY <1>9 DEF Types, Position, Phases, Lockstep, DeviceBound, Waited, Filed,
              KillsAll, Complete, Present
<1>10. ASSUME Timeout PROVE IInv'
  <2>1. /\ pc' = [r \in Rank |-> IF Present(r) THEN "killed" ELSE pc[r]]
        /\ UNCHANGED <<step, micro, calls, done, shards, meta>>
    BY <1>10 DEF Timeout, world, disk
  <2>2. \A r \in Rank : pc'[r] \in {"gone", "killed"} /\ (pc'[r] = "gone" => pc[r] = "gone")
    BY <2>1 DEF Present, Types
  <2>3. Types' BY <2>1, <2>2 DEF Types, Place
  <2>4. Position' /\ Waited' BY <2>2 DEF Position, Waited, Between
  <2>5. Phases' BY <2>1, <2>2 DEF Phases, Place, Between
  <2>6. Lockstep' /\ DeviceBound' /\ Filed' /\ Complete'
    BY <2>1 DEF Lockstep, DeviceBound, Filed, Complete
  <2>7. KillsAll' BY <2>2 DEF KillsAll, Present
  <2> QED BY <2>3, <2>4, <2>5, <2>6, <2>7
<1>11. CASE UNCHANGED vars BY <1>9, <1>11 DEF vars, host, world, disk
<1>12. CASE Send BY <1>9, <1>12 DEF Send, host, world, disk
<1>13. ASSUME NEW r \in Rank, HandleSignal(r) PROVE IInv'
  BY <1>9, <1>13 DEF HandleSignal, host, world, disk
<1> QED BY <1>1, <1>2, <1>3, <1>4, <1>5, <1>6, <1>7, <1>8, <1>10, <1>11, <1>12, <1>13
        DEF Next, Host

(* It implies the property: who is in a finished save has written its step. *)
LEMMA IInvWhole == IInv => WholeCheckpoints
<1> SUFFICES ASSUME IInv, NEW d \in meta, NEW r \in Rank
             PROVE  {s \in shards : s[1] = d /\ s[2] = r} = {<<d, r, d * GA>>}
  BY DEF WholeCheckpoints
<1>1. <<d, r, Due(d)>> \in shards BY DEF IInv, Complete
<1>2. ASSUME NEW s \in shards, s[1] = d, s[2] = r PROVE s = <<d, r, Due(d)>>
  <2>1. s \in Nat \X Rank \X Nat BY DEF IInv, Types
  <2>2. s = <<s[1], s[2], s[3]>> BY <2>1
  <2>3. s[3] = Due(d) BY <1>2 DEF IInv, Filed
  <2> QED BY <1>2, <2>2, <2>3
<1> QED BY <1>1, <1>2 DEF Due

(* A checkpoint with .metadata holds every rank's files, all of the same   *)
(* optimizer step, in every run of any number of ranks (dcp_save,          *)
(* end_training_early, train).                                             *)
THEOREM CheckpointsWhole == Spec => []WholeCheckpoints
<1>1. Init => IInv BY InitIInv
<1>2. IInv /\ [Next]_vars => IInv' BY NextIInv
<1>3. IInv => WholeCheckpoints BY IInvWhole
<1> QED BY <1>1, <1>2, <1>3, PTL DEF Spec
-----------------------------------------------------------------------------
(* A rank that has left its loop with a finished step has left it at its   *)
(* goal, and a step that is the coordinator's goal is saved before the     *)
(* coordinator goes on.                                                    *)
Goals ==
  /\ pc \in [Rank -> Place]
  /\ step \in [Rank -> Nat] /\ goal \in [Rank -> Nat] /\ micro \in [Rank -> Nat]
  /\ \A r \in Rank :
       /\ step[r] <= goal[r] /\ 1 <= goal[r]
       /\ pc[r] \notin {"loop", "killed"} => 1 <= step[r]
Ends ==
  /\ pc[Coordinator] \in {"saved", "barrier", "loop"} /\ step[Coordinator] = goal[Coordinator]
       => step[Coordinator] \in meta
  /\ pc[Coordinator] \in {"out", "gone"} /\ micro[Coordinator] = GA
       => step[Coordinator] \in meta

(* No rank has left the loop at first. *)
LEMMA InitEnds == Init => Goals /\ Ends
BY RankSizes, Constants DEF Init, Goals, Ends, Place, Between

\* A step that moves no rank keeps what is known of the ends.
LEMMA EndsStutter ==
  ASSUME Goals, Ends, UNCHANGED <<pc, step, micro, goal>>, meta \subseteq meta'
  PROVE  Goals' /\ Ends'
BY DEF Goals, Ends

(* A rank leaves at its goal only after the save of that step has ended. *)
LEMMA NextEnds == Goals /\ Ends /\ [Next]_vars => Goals' /\ Ends'
<1> SUFFICES ASSUME Goals, Ends, [Next]_vars PROVE Goals' /\ Ends' OBVIOUS
<1> USE Constants
<1>1. ASSUME NEW r \in Rank, Host(r), ~ Microbatch(r) PROVE Goals' /\ Ends'
  <2> USE DEF Goals, Ends, At, Goto, Place, Between, disk
  <2>1. CASE BeginStep(r) BY <2>1 DEF BeginStep
  <2>2. CASE Leave(r) BY <2>2 DEF Leave
  <2>3. CASE Exhausted(r) BY <2>3 DEF Exhausted
  <2>4. CASE Optimize(r) BY <2>4 DEF Optimize
  <2>5. CASE Check(r) BY <2>5 DEF Check
  <2>6. CASE SkipSave(r) BY <2>6 DEF SkipSave, ShouldSave
  <2>7. CASE Plan(r) BY <2>7 DEF Plan
  <2>8. CASE Write(r) BY <2>8 DEF Write
  <2>9. CASE Commit(r) BY <2>9 DEF Commit
  <2>10. CASE NextStep(r) BY <2>10 DEF NextStep
  <2>11. CASE EnterBarrier(r) BY <2>11 DEF EnterBarrier
  <2>12. CASE LeaveBarrier(r) BY <2>12 DEF LeaveBarrier
  <2>13. CASE Close(r) BY <2>13 DEF Close
  <2> QED BY <1>1, <2>1, <2>2, <2>3, <2>4, <2>5, <2>6, <2>7, <2>8, <2>9, <2>10,
             <2>11, <2>12, <2>13 DEF Host
<1>2. ASSUME NEW r \in Rank, Microbatch(r) PROVE Goals' /\ Ends'
  <2>1. pc[r] = "step" /\ UNCHANGED <<pc, step, goal, meta>>
    BY <1>2 DEF Microbatch, At, disk
  <2>2. micro' = [micro EXCEPT ![r] = @ + 1] BY <1>2 DEF Microbatch
  <2>3. Goals' BY <2>1, <2>2 DEF Goals
  <2>4. CASE r = Coordinator BY <2>1, <2>3, <2>4 DEF Ends
  <2>5. CASE r # Coordinator
    <3>1. micro'[Coordinator] = micro[Coordinator] BY <2>2, <2>5 DEF Goals
    <3> QED BY <2>1, <3>1, <2>3 DEF Ends
  <2> QED BY <2>3, <2>4, <2>5
<1>3. ASSUME Timeout PROVE Goals' /\ Ends'
  BY <1>3 DEF Timeout, Present, Goals, Ends, Place, Between, disk
<1>4. CASE DeviceRuns \/ Send \/ UNCHANGED vars
  BY <1>4, EndsStutter DEF DeviceRuns, Send, vars, host, disk
<1>5. ASSUME NEW r \in Rank, HandleSignal(r) PROVE Goals' /\ Ends'
  BY <1>5, EndsStutter DEF HandleSignal, host, disk
<1> QED BY <1>1, <1>2, <1>3, <1>4, <1>5 DEF Next

(* Ranks that left the loop at one finished step leave its checkpoint      *)
(* behind, for any number of ranks and whatever ended the run (save,       *)
(* last_step; end_training_early).                                         *)
THEOREM AgreedEndsSaved == Spec => []AgreedEndIsSaved
<1>1. Init => Goals /\ Ends BY InitEnds
<1>2. Goals /\ Ends /\ [Next]_vars => (Goals /\ Ends)' BY NextEnds
<1>3. Goals /\ Ends => AgreedEndIsSaved
  BY Constants DEF Ends, AgreedEndIsSaved, At
<1> QED BY <1>1, <1>2, <1>3, PTL DEF Spec
-----------------------------------------------------------------------------
(***************************************************************************)
(* KilledOnlyWhenSplit: as long as the ranks agree on their goal and on    *)
(* their data, one of them can always go on.                               *)
(*                                                                         *)
(* A rank's position fixes how often it has called each group (Position,   *)
(* SaveCalls, BarrierCalls) and how far the devices must be (Waits).  The  *)
(* rank that is least far can then only wait for its device or for ranks   *)
(* that are at least as far and have made the calls it waits for; and its  *)
(* device can only wait for a rank that has left, which either left at the *)
(* common goal, after a save that had waited for the device, or ran out of *)
(* data in the last step, where nobody waits any more.                     *)
(***************************************************************************)

(* The steps up to s that a rank with this goal saves, and their number.   *)
SavedBy(s, g) == {t \in 1 .. s : t = g \/ t % Interval = 0}
Saves(s, g) == Cardinality(SavedBy(s, g))

HasLeft(r) == pc[r] \in {"out", "gone"} /\ micro[r] = GA
RanOut(r) == pc[r] \in {"out", "gone"} /\ micro[r] < GA
Computed(r) == pc[r] \in Between \/ HasLeft(r)    \* this step's microbatches
Settled(r) == pc[r] \in {"saved", "barrier", "loop"} \/ HasLeft(r)   \* its save

(* A host leaves a step with all microbatches, or with no data.            *)
Progress(r) ==
  /\ step[r] \in 0 .. Steps /\ goal[r] \in 1 .. Steps /\ micro[r] \in 0 .. GA
  /\ step[r] <= goal[r]
  /\ pc[r] \notin {"loop", "killed"} => step[r] >= 1
  /\ step[r] = 0 => calls["model"][r] = 0
  /\ step[r] >= 1 => calls["model"][r] + GA = Due(step[r]) + micro[r]
  /\ step[r] >= 1 /\ pc[r] \in Between => micro[r] = GA
  /\ HasLeft(r) => step[r] = goal[r]

(* Data and enqueued microbatches add up to what the job was given.        *)
Budget(r) ==
  /\ data[r] \in Nat /\ data[r] + calls["model"][r] \in {Due(Steps), Due(Steps) - 1}
  /\ RanOut(r) => data[r] = 0
  /\ calls["model"][r] <= done + MaxAhead

(* Three collectives for each save that has ended.                         *)
SaveCalls(r) ==
  /\ pc[r] \in {"step", "check", "save"} \/ RanOut(r)
       => calls["control"][r] = 3 * Saves(step[r] - 1, goal[r])
  /\ pc[r] = "plan" => ShouldSave(r) /\ calls["control"][r] = 3 * Saves(step[r] - 1, goal[r]) + 1
  /\ pc[r] = "commit" => ShouldSave(r) /\ calls["control"][r] = 3 * Saves(step[r] - 1, goal[r]) + 2
  /\ Settled(r) => calls["control"][r] = 3 * Saves(step[r], goal[r])
  /\ calls["control"][r] <= 3 * Steps

(* One barrier, after step 1.                                              *)
BarrierCalls(r) ==
  /\ pc[r] = "barrier" => step[r] = 1
  /\ step[r] >= 2 \/ (step[r] = 1 /\ (pc[r] \in {"barrier", "loop"} \/ HasLeft(r)))
       => calls["world"][r] = 1
  /\ step[r] = 0 \/ (step[r] = 1 /\ pc[r] \in {"step", "check", "save", "plan", "commit", "saved"})
       => calls["world"][r] = 0
  /\ calls["world"][r] <= 1

(* A logged step and a save have waited for the device.                    *)
Waits(r) ==
  /\ \A t \in 1 .. step[r] :
       ShouldLog(t) /\ (t < step[r] \/ Computed(r)) => done >= Due(t)
  /\ \A t \in SavedBy(step[r], goal[r]) :
       t < step[r] \/ Settled(r) => done >= Due(t)

Steady(r) == Progress(r) /\ Budget(r) /\ SaveCalls(r) /\ BarrierCalls(r) /\ Waits(r)

Stored ==
  /\ meta \subseteq 1 .. Steps
  /\ shards \subseteq (1 .. Steps) \X Rank \X (0 .. Steps * GA)
Bits == flag \in [Rank -> BOOLEAN] /\ sent \in BOOLEAN
Tables == goal \in [Rank -> Nat] /\ data \in [Rank -> Nat]

Agreed ==
  /\ \A q, r \in Rank : goal[q] = goal[r]
  /\ \A q, r \in Rank : data[q] + calls["model"][q] = data[r] + calls["model"][r]
Split == Killed => ~ Agreed

KInv ==
  /\ IInv /\ Tables /\ Bits /\ Stored /\ Split
  /\ \A r \in Rank : Steady(r)

\* The constants' types and sizes, and the products that bound the counters.
LEMMA Parameters ==
  /\ Steps \in Nat \ {0} /\ MaxAhead \in Nat \ {0} /\ Interval \in Nat \ {0}
  /\ Due(Steps) \in Nat /\ Due(Steps) = Steps * GA
  /\ Due(Steps) <= 3 * Steps * GA /\ 3 * Steps <= 3 * Steps * GA /\ 1 <= 3 * Steps * GA
<1>1. Steps \in Nat /\ Steps >= 1 /\ GA \in Nat /\ GA >= 1 BY RankSizes
<1>2. Steps * GA \in Nat /\ Steps * GA >= Steps
  <2>1. PICK k \in Nat : GA = k + 1 BY <1>1, SMT
  <2>2. Steps * GA = Steps * k + Steps BY <1>1, <2>1
  <2>3. Steps * k \in Nat BY <1>1, <2>1
  <2> QED BY <1>1, <2>2, <2>3
<1>3. 3 * Steps * GA = 3 * (Steps * GA) BY <1>1
<1> QED BY <1>1, <1>2, <1>3, RankSizes DEF Due

(* Microbatches due grow by GA with every step. *)
LEMMA DueGrows ==
  ASSUME NEW s \in Nat, NEW t \in Nat, s < t
  PROVE  Due(s) \in Nat /\ Due(t) \in Nat /\ Due(s) + GA <= Due(t)
<1>1. GA \in Nat BY Constants
<1>2. PICK k \in Nat : t = s + k + 1 BY SMT
<1>3. t * GA = s * GA + k * GA + GA BY <1>1, <1>2
<1>4. s * GA \in Nat /\ k * GA \in Nat BY <1>1
<1> QED BY <1>1, <1>3, <1>4 DEF Due

\* A later step is due no fewer batches.
LEMMA DueOrdered ==
  ASSUME NEW s \in Nat, NEW t \in Nat, s <= t
  PROVE  Due(s) \in Nat /\ Due(t) \in Nat /\ Due(s) <= Due(t)
<1>1. CASE s = t BY <1>1, DueFacts
<1>2. CASE s < t BY <1>2, DueGrows, Constants
<1> QED BY <1>1, <1>2

(* The saves of a rank: none before the first step, at most one per step,  *)
(* one more at a step that is saved, and the same for two goals not yet    *)
(* reached.                                                                *)
LEMMA SavedFinite ==
  ASSUME NEW s \in Nat, NEW g \in Nat
  PROVE  IsFiniteSet(SavedBy(s, g)) /\ Saves(s, g) \in Nat /\ Saves(s, g) <= s
<1>1. IsFiniteSet(1 .. s) /\ Cardinality(1 .. s) = s BY FS_Interval
<1>2. SavedBy(s, g) \in SUBSET (1 .. s) BY DEF SavedBy
<1>3. IsFiniteSet(SavedBy(s, g)) /\ Cardinality(SavedBy(s, g)) <= s
  BY <1>1, <1>2, FS_Subset
<1> QED BY <1>3, FS_CardinalityType DEF Saves

\* Nothing is saved before the first step.
LEMMA SavesStart == \A g : SavedBy(0, g) = {} /\ Saves(0, g) = 0
BY FS_EmptySet DEF Saves, SavedBy

\* A step adds one save if it is due one.
LEMMA SavesStep ==
  ASSUME NEW s \in Nat, NEW g \in Nat
  PROVE  /\ s + 1 = g \/ (s + 1) % Interval = 0 => Saves(s + 1, g) = Saves(s, g) + 1
         /\ ~ (s + 1 = g \/ (s + 1) % Interval = 0) => Saves(s + 1, g) = Saves(s, g)
<1>1. ASSUME s + 1 = g \/ (s + 1) % Interval = 0 PROVE Saves(s + 1, g) = Saves(s, g) + 1
  <2>1. SavedBy(s + 1, g) = SavedBy(s, g) \cup {s + 1} BY <1>1 DEF SavedBy
  <2>2. s + 1 \notin SavedBy(s, g) BY DEF SavedBy
  <2> QED BY <2>1, <2>2, SavedFinite, FS_AddElement DEF Saves
<1>2. ASSUME ~ (s + 1 = g \/ (s + 1) % Interval = 0) PROVE Saves(s + 1, g) = Saves(s, g)
  <2>1. SavedBy(s + 1, g) = SavedBy(s, g) BY <1>2 DEF SavedBy
  <2> QED BY <2>1 DEF Saves
<1> QED BY <1>1, <1>2

\* A later step has seen no fewer saves.
LEMMA SavesOrdered ==
  ASSUME NEW s \in Nat, NEW t \in Nat, NEW g \in Nat, s <= t
  PROVE  Saves(s, g) \in Nat /\ Saves(t, g) \in Nat /\ Saves(s, g) <= Saves(t, g)
<1>1. SavedBy(s, g) \in SUBSET SavedBy(t, g) BY DEF SavedBy
<1> QED BY <1>1, SavedFinite, FS_Subset DEF Saves

\* Before both goals, the saves do not depend on the goal.
LEMMA SavesSameGoal ==
  ASSUME NEW s \in Nat, NEW g \in Nat, NEW h \in Nat, s < g, s < h
  PROVE  Saves(s, g) = Saves(s, h)
BY DEF Saves, SavedBy

(* What a step leaves alone. *)
LEMMA Unmoved ==
  ASSUME NEW q \in Rank, Types, Types', Steady(q), done' >= done,
         pc'[q] = pc[q], step'[q] = step[q], micro'[q] = micro[q],
         goal'[q] = goal[q], data'[q] = data[q],
         \A g \in Group : calls'[g][q] = calls[g][q]
  PROVE  Steady(q)'
<1>1. /\ calls'["model"][q] = calls["model"][q] /\ calls'["control"][q] = calls["control"][q]
      /\ calls'["world"][q] = calls["world"][q]
  BY DEF Group
<1>2. /\ step[q] \in Nat /\ done \in Nat /\ done' \in Nat /\ calls["model"][q] \in Nat
  BY DEF Types, Group
<1>3. /\ HasLeft(q)' = HasLeft(q) /\ RanOut(q)' = RanOut(q) /\ Computed(q)' = Computed(q)
      /\ Settled(q)' = Settled(q) /\ ShouldSave(q)' = ShouldSave(q)
  BY DEF HasLeft, RanOut, Computed, Settled, ShouldSave
<1>4. Progress(q)' BY <1>1, <1>3 DEF Steady, Progress
<1>5. Budget(q)' BY <1>1, <1>2, <1>3, Parameters DEF Steady, Budget
<1>6. SaveCalls(q)' BY <1>1, <1>3 DEF Steady, SaveCalls
<1>7. BarrierCalls(q)' BY <1>1, <1>3 DEF Steady, BarrierCalls
<1>8. Waits(q)'
  <2>1. \A t \in 1 .. step[q] : Due(t) \in Nat BY <1>2, DueFacts
  <2>2. \A t \in SavedBy(step[q], goal[q]) : t \in 1 .. step[q] BY DEF SavedBy
  <2> QED BY <1>2, <1>3, <2>1, <2>2 DEF Steady, Waits
<1> QED BY <1>4, <1>5, <1>6, <1>7, <1>8 DEF Steady

\* Every rank starts in its place, with no call made.
LEMMA InitSteady == Init => \A r \in Rank : Steady(r)
<1> SUFFICES ASSUME Init, NEW r \in Rank PROVE Steady(r) OBVIOUS
<1>1. /\ pc[r] = "loop" /\ step[r] = 0 /\ micro[r] = 0 /\ goal[r] = Steps
      /\ data[r] \in {Due(Steps), Due(Steps) - 1} /\ done = 0
      /\ \A g \in Group : calls[g][r] = 0
  BY Parameters DEF Init
<1>2. calls["model"][r] = 0 /\ calls["control"][r] = 0 /\ calls["world"][r] = 0
  BY <1>1 DEF Group
<1>3. ~ HasLeft(r) /\ ~ RanOut(r) /\ Settled(r) BY <1>1 DEF HasLeft, RanOut, Settled
<1>4. Due(Steps) >= 1
  BY Parameters, DueGrows, DueFacts, Constants
<1>5. Progress(r) BY <1>1, <1>2, <1>3, Parameters, Constants DEF Progress
<1>6. Budget(r) BY <1>1, <1>2, <1>3, <1>4, Parameters DEF Budget
<1>7. SaveCalls(r) BY <1>1, <1>2, <1>3, SavesStart, Parameters DEF SaveCalls
<1>8. BarrierCalls(r) BY <1>1, <1>2, <1>3 DEF BarrierCalls
<1>9. Waits(r) BY <1>1 DEF Waits, SavedBy
<1> QED BY <1>5, <1>6, <1>7, <1>8, <1>9 DEF Steady

(* The values a rank's part of the invariant speaks of.                    *)
LEMMA Values ==
  ASSUME Types, NEW r \in Rank, Steady(r)
  PROVE  /\ step[r] \in Nat /\ micro[r] \in Nat /\ goal[r] \in Nat /\ data[r] \in Nat
         /\ goal[r] >= 1 /\ step[r] <= goal[r] /\ goal[r] <= Steps /\ micro[r] <= GA
         /\ calls["model"][r] \in Nat /\ calls["control"][r] \in Nat
         /\ calls["world"][r] \in Nat /\ done \in Nat
         /\ Due(step[r]) \in Nat /\ Saves(step[r], goal[r]) \in Nat
         /\ step[r] >= 1 => step[r] - 1 \in Nat /\ (step[r] - 1) + 1 = step[r]
<1>1. /\ step[r] \in 0 .. Steps /\ goal[r] \in 1 .. Steps /\ micro[r] \in 0 .. GA
      /\ data[r] \in Nat /\ step[r] <= goal[r]
  BY DEF Steady, Progress, Budget
<1>2. /\ calls["model"][r] \in Nat /\ calls["control"][r] \in Nat
      /\ calls["world"][r] \in Nat /\ done \in Nat
  BY DEF Types, Group
<1>3. step[r] \in Nat /\ goal[r] \in Nat BY <1>1, Parameters
<1>4. Due(step[r]) \in Nat BY <1>3, DueFacts
<1>5. Saves(step[r], goal[r]) \in Nat BY <1>3, SavedFinite
<1> QED BY <1>1, <1>2, <1>3, <1>4, <1>5, Parameters, Constants

(* Where a rank has all microbatches of its step, they are what is due.    *)
LEMMA AllDue ==
  ASSUME Types, NEW r \in Rank, Steady(r), step[r] >= 1, micro[r] = GA
  PROVE  calls["model"][r] = Due(step[r])
<1>1. calls["model"][r] + GA = Due(step[r]) + GA BY DEF Steady, Progress
<1> QED BY <1>1, Values, Constants

(* Leaving the loop, and the steps between two waits, keep a rank's part.  *)
LEMMA SteadyLoop ==
  ASSUME Types, Types', NEW r \in Rank, Steady(r),
         BeginStep(r) \/ Leave(r) \/ Exhausted(r) \/ NextStep(r) \/ LeaveBarrier(r) \/ Close(r)
  PROVE  Steady(r)'
<1>1. ASSUME BeginStep(r) PROVE Steady(r)'
  <2>1. /\ pc[r] = "loop" /\ pc'[r] = "step" /\ step'[r] = step[r] + 1 /\ micro'[r] = 0
        /\ step[r] < goal[r] /\ UNCHANGED <<goal, data, calls, done>>
    BY <1>1 DEF BeginStep, At, Goto, Types, world
  <2>2. /\ step[r] \in Nat /\ step'[r] - 1 = step[r] /\ goal[r] \in 1 .. Steps
        /\ calls["model"][r] \in Nat
    BY <2>1, Values DEF Steady, Progress
  <2>3. /\ ~ HasLeft(r)' /\ ~ RanOut(r)' /\ ~ Computed(r)' /\ ~ Settled(r)' /\ Settled(r)
    BY <2>1 DEF HasLeft, RanOut, Computed, Settled, Between
  <2>4. Progress(r)'
    <3>1. calls["model"][r] = Due(step[r])
      <4>1. CASE step[r] = 0 BY <4>1, DueFacts DEF Steady, Progress
      <4>2. CASE step[r] >= 1 BY <2>1, <4>2, AllDue DEF Steady, Progress, Between
      <4> QED BY <2>2, <4>1, <4>2
    <3>2. Due(step[r] + 1) = Due(step[r]) + GA /\ Due(step[r]) \in Nat BY <2>2, DueFacts
    <3>3. step'[r] \in 0 .. Steps /\ micro'[r] \in 0 .. GA
      BY <2>1, <2>2, Parameters, Constants
    <3>4. calls["model"][r] + GA = Due(step[r] + 1) + 0 BY <3>1, <3>2, Constants
    <3> QED BY <2>1, <2>2, <2>3, <3>3, <3>4 DEF Progress, Between
  <2>5. Budget(r)' BY <2>1, <2>3 DEF Steady, Budget
  <2>6. SaveCalls(r)' BY <2>1, <2>2, <2>3 DEF Steady, SaveCalls
  <2>7. BarrierCalls(r)' BY <2>1, <2>2 DEF Steady, BarrierCalls, HasLeft
  <2>8. Waits(r)'
    <3>1. \A t \in 1 .. step[r] : ShouldLog(t) => done >= Due(t)
      BY <2>1 DEF Steady, Waits, Computed, Between
    <3>2. \A t \in SavedBy(step[r], goal[r]) : done >= Due(t)
      BY <2>1, <2>3 DEF Steady, Waits
    <3>3. \A t \in 1 .. step'[r] : t < step'[r] => t \in 1 .. step[r]
      BY <2>1, <2>2
    <3>4. \A t \in SavedBy(step'[r], goal[r]) : t < step'[r] => t \in SavedBy(step[r], goal[r])
      BY <2>1, <2>2 DEF SavedBy
    <3> QED BY <2>1, <2>3, <3>1, <3>2, <3>3, <3>4 DEF Waits
  <2> QED BY <2>4, <2>5, <2>6, <2>7, <2>8 DEF Steady
<1>2. ASSUME Leave(r) \/ Exhausted(r) \/ NextStep(r) \/ LeaveBarrier(r) \/ Close(r)
      PROVE  Steady(r)'
  <2>1. UNCHANGED <<step, micro, goal, data, calls, done>>
    BY <1>2 DEF Leave, Exhausted, NextStep, LeaveBarrier, Close, world
  <2>2. \/ pc[r] = "loop" /\ pc'[r] = "out" /\ step[r] >= goal[r]
        \/ pc[r] = "step" /\ pc'[r] = "out" /\ micro[r] < GA /\ data[r] = 0
        \/ pc[r] = "saved" /\ pc'[r] = "loop" /\ step[r] # 1
        \/ pc[r] = "barrier" /\ pc'[r] = "loop"
        \/ pc[r] = "out" /\ pc'[r] = "gone"
    BY <1>2 DEF Leave, Exhausted, NextStep, LeaveBarrier, Close, At, Goto, Types
  <2>3. /\ step[r] \in 0 .. Steps /\ goal[r] \in 1 .. Steps /\ micro[r] \in 0 .. GA
        /\ step[r] <= goal[r] /\ step[r] \in Nat /\ goal[r] \in Nat
        /\ micro[r] \in Nat /\ GA \in Nat
    BY Values, Constants DEF Steady, Progress
  <2>4. /\ pc[r] \in {"loop", "saved", "barrier"} /\ step[r] >= 1 => micro[r] = GA
        /\ pc[r] \notin {"loop", "killed"} => step[r] >= 1
        /\ pc[r] = "barrier" => step[r] = 1
    BY DEF Steady, Progress, BarrierCalls, Between
  <2>5. /\ HasLeft(r)' => step[r] = goal[r] /\ Settled(r) /\ Computed(r)
        /\ RanOut(r)' => data[r] = 0 /\ (pc[r] = "step" \/ RanOut(r))
        /\ Computed(r)' => Computed(r)
        /\ Settled(r)' => Settled(r)
    <3>1. pc[r] = "loop" /\ pc'[r] = "out" => micro[r] = GA /\ step[r] = goal[r]
      BY <2>2, <2>3, <2>4
    <3> QED BY <2>1, <2>2, <2>3, <3>1
            DEF HasLeft, RanOut, Computed, Settled, Between, Steady, Progress, Budget
  <2>6. Progress(r)'
    <3>1. pc'[r] \in Between => pc'[r] = "loop" BY <2>2 DEF Between
    <3>2. pc'[r] \notin {"loop", "killed"} => step[r] >= 1
      BY <2>2, <2>3, <2>4
    <3>3. pc'[r] = "loop" /\ step[r] >= 1 => micro[r] = GA BY <2>2, <2>4
    <3> QED BY <2>1, <2>3, <2>5, <3>1, <3>2, <3>3 DEF Steady, Progress
  <2>7. Budget(r)' BY <2>1, <2>5 DEF Steady, Budget
  <2>8. SaveCalls(r)'
    <3>1. pc'[r] \notin {"step", "check", "save", "plan", "commit"} BY <2>2
    <3> QED BY <2>1, <2>5, <3>1 DEF Steady, SaveCalls
  <2>9. BarrierCalls(r)'
    <3>1. pc'[r] \notin {"step", "check", "save", "plan", "commit", "saved", "barrier"} BY <2>2
    <3>2. step[r] = 1 /\ (pc'[r] = "loop" \/ HasLeft(r)') => calls["world"][r] = 1
      BY <2>1, <2>2, <2>3 DEF Steady, BarrierCalls, HasLeft
    <3> QED BY <2>1, <3>1, <3>2 DEF Steady, BarrierCalls
  <2>10. Waits(r)' BY <2>1, <2>5 DEF Steady, Waits
  <2> QED BY <2>6, <2>7, <2>8, <2>9, <2>10 DEF Steady
<1> QED BY <1>1, <1>2

(* A step's microbatches, its optimizer step and its check keep it.        *)
LEMMA SteadyStep ==
  ASSUME Types, Types', NEW r \in Rank, Steady(r),
         goal \in [Rank -> Nat], data \in [Rank -> Nat],
         Microbatch(r) \/ Optimize(r) \/ Check(r)
  PROVE  Steady(r)'
<1>1. ASSUME Microbatch(r) PROVE Steady(r)'
  <2>1. /\ pc[r] = "step" /\ micro[r] < GA /\ data[r] > 0 /\ Issue("model", r)
        /\ calls["model"][r] < done + MaxAhead /\ UNCHANGED <<pc, step, goal, done>>
    BY <1>1 DEF Microbatch, At
  <2>2. micro'[r] = micro[r] + 1 BY <1>1 DEF Microbatch, Types
  <2>3. data'[r] = data[r] - 1 BY <1>1 DEF Microbatch
  <2>4. /\ calls'["model"][r] = calls["model"][r] + 1
        /\ calls'["control"][r] = calls["control"][r] /\ calls'["world"][r] = calls["world"][r]
    BY <2>1, IssueStep DEF Group
  <2>5. /\ step[r] \in Nat /\ step[r] >= 1 /\ micro[r] \in Nat /\ data[r] \in Nat /\ done \in Nat
        /\ calls["model"][r] \in Nat /\ Due(step[r]) \in Nat /\ GA \in Nat
        /\ MaxAhead \in Nat /\ Due(Steps) \in Nat
    BY <2>1, Values, Parameters, Constants DEF Steady, Progress
  <2>6. /\ ~ HasLeft(r)' /\ ~ RanOut(r)' /\ ~ Computed(r)' /\ ~ Settled(r)'
        /\ ~ Computed(r) /\ ~ Settled(r)
    BY <2>1 DEF HasLeft, RanOut, Computed, Settled, Between
  <2>7. Progress(r)'
    <3>1. calls["model"][r] + GA = Due(step[r]) + micro[r]
      BY <2>5 DEF Steady, Progress
    <3>2. (calls["model"][r] + 1) + GA = Due(step[r]) + (micro[r] + 1) BY <2>5, <3>1
    <3>3. micro'[r] \in 0 .. GA BY <2>1, <2>2, <2>5
    <3> QED BY <2>1, <2>2, <2>4, <2>5, <2>6, <3>2, <3>3 DEF Steady, Progress, Between
  <2>8. Budget(r)'
    <3>1. data'[r] + calls'["model"][r] = data[r] + calls["model"][r]
      BY <2>3, <2>4, <2>5
    <3>2. data'[r] \in Nat BY <2>1, <2>3, <2>5
    <3>3. calls'["model"][r] <= done + MaxAhead BY <2>1, <2>4, <2>5
    <3> QED BY <2>1, <2>6, <3>1, <3>2, <3>3 DEF Steady, Budget
  <2>9. SaveCalls(r)' BY <2>1, <2>4, <2>6 DEF Steady, SaveCalls
  <2>10. BarrierCalls(r)' BY <2>1, <2>4, <2>6 DEF Steady, BarrierCalls, HasLeft
  <2>11. Waits(r)' BY <2>1, <2>6 DEF Steady, Waits
  <2> QED BY <2>7, <2>8, <2>9, <2>10, <2>11 DEF Steady
<1>2. ASSUME Optimize(r) PROVE Steady(r)'
  <2>1. /\ pc[r] = "step" /\ pc'[r] = "check" /\ micro[r] = GA
        /\ ShouldLog(step[r]) => done >= calls["model"][r]
        /\ UNCHANGED <<step, micro, goal, data, calls, done>>
    BY <1>2 DEF Optimize, At, Goto, DeviceIdle, Types, world
  <2>2. /\ ~ HasLeft(r)' /\ ~ RanOut(r)' /\ ~ Settled(r)' /\ ~ Settled(r)
    BY <2>1 DEF HasLeft, RanOut, Settled
  <2>3. step[r] \in Nat /\ step[r] >= 1 BY <2>1, Values DEF Steady, Progress
  <2>4. Progress(r)' BY <2>1, <2>2, <2>3 DEF Steady, Progress
  <2>5. Budget(r)' BY <2>1, <2>2 DEF Steady, Budget
  <2>6. SaveCalls(r)' BY <2>1, <2>2 DEF Steady, SaveCalls
  <2>7. BarrierCalls(r)' BY <2>1, <2>2 DEF Steady, BarrierCalls
  <2>8. Waits(r)'
    <3>1. calls["model"][r] = Due(step[r]) BY <2>1, <2>3, AllDue
    <3>2. \A t \in 1 .. step[r] : t < step[r] \/ t = step[r] BY <2>3
    <3> QED BY <2>1, <2>2, <3>1, <3>2 DEF Steady, Waits
  <2> QED BY <2>4, <2>5, <2>6, <2>7, <2>8 DEF Steady
<1>3. ASSUME Check(r) PROVE Steady(r)'
  <2>1. /\ pc[r] = "check" /\ pc'[r] = "save" /\ UNCHANGED <<step, micro, data, calls, done>>
        /\ goal'[r] = goal[r] \/ goal'[r] = step[r]
    BY <1>3 DEF Check, At, Goto, Types, world
  <2>2. /\ ~ HasLeft(r)' /\ ~ RanOut(r)' /\ ~ Settled(r)' /\ Computed(r) /\ Computed(r)'
    BY <2>1 DEF HasLeft, RanOut, Settled, Computed, Between
  <2>3. /\ step[r] \in Nat /\ step[r] >= 1 /\ step[r] <= goal[r] /\ goal[r] \in Nat
        /\ step[r] - 1 \in Nat /\ step[r] \in 1 .. Steps
    BY <2>1, Values DEF Steady, Progress
  <2>4. Progress(r)' BY <2>1, <2>2, <2>3 DEF Steady, Progress, Between
  <2>5. Budget(r)' BY <2>1, <2>2 DEF Steady, Budget
  <2>6. SaveCalls(r)'
    <3>1. Saves(step[r] - 1, goal'[r]) = Saves(step[r] - 1, goal[r])
      BY <2>1, <2>3, SavesSameGoal
    <3> QED BY <2>1, <2>2, <3>1 DEF Steady, SaveCalls
  <2>7. BarrierCalls(r)' BY <2>1, <2>2 DEF Steady, BarrierCalls
  <2>8. Waits(r)'
    <3>1. \A t \in SavedBy(step[r], goal'[r]) : t < step[r] => t \in SavedBy(step[r], goal[r])
      BY <2>1, <2>3 DEF SavedBy
    <3> QED BY <2>1, <2>2, <3>1 DEF Steady, Waits
  <2> QED BY <2>4, <2>5, <2>6, <2>7, <2>8 DEF Steady
<1> QED BY <1>1, <1>2, <1>3

(* A save, or its being skipped, keeps it: the commit is the third call,   *)
(* and by then the device has finished the step (Waited).                  *)
LEMMA SteadySave ==
  ASSUME Types, Types', Waited, NEW r \in Rank, Steady(r),
         SkipSave(r) \/ Plan(r) \/ Write(r) \/ Commit(r)
  PROVE  Steady(r)'
<1>1. /\ step[r] \in Nat /\ step[r] >= 1 /\ step[r] - 1 \in Nat /\ (step[r] - 1) + 1 = step[r]
      /\ goal[r] \in Nat /\ step[r] <= Steps /\ micro[r] = GA /\ Steps \in Nat
      /\ pc[r] \in {"save", "plan", "commit"}
  <2>1. pc[r] \in {"save", "plan", "commit"}
    BY DEF SkipSave, Plan, Write, Commit, At
  <2> QED BY <2>1, Values, Parameters DEF Steady, Progress, Between
<1>2. /\ UNCHANGED <<step, micro, goal, data, done>>
      /\ calls'["model"][r] = calls["model"][r] /\ calls'["world"][r] = calls["world"][r]
  <2>1. UNCHANGED <<step, micro, goal, data, done>>
    BY DEF SkipSave, Plan, Write, Commit, world
  <2>2. UNCHANGED calls \/ Issue("control", r)
    BY DEF SkipSave, Plan, Write, Commit, world
  <2> QED BY <2>1, <2>2, IssueStep DEF Group
<1>3. \/ pc[r] = "save" /\ pc'[r] = "saved" /\ ~ ShouldSave(r)
         /\ calls'["control"][r] = calls["control"][r]
      \/ pc[r] = "save" /\ pc'[r] = "plan" /\ ShouldSave(r)
         /\ calls'["control"][r] = calls["control"][r] + 1
      \/ pc[r] = "plan" /\ pc'[r] = "commit" /\ calls'["control"][r] = calls["control"][r] + 1
      \/ pc[r] = "commit" /\ pc'[r] = "saved" /\ calls'["control"][r] = calls["control"][r] + 1
  <2>1. Issue("control", r) => calls'["control"][r] = calls["control"][r] + 1
    BY IssueStep DEF Group
  <2>2. CASE SkipSave(r) BY <2>2 DEF SkipSave, At, Goto, Types, world
  <2>3. CASE Plan(r) BY <2>1, <2>3 DEF Plan, At, Goto, Types
  <2>4. CASE Write(r) BY <2>1, <2>4 DEF Write, At, Goto, Types
  <2>5. CASE Commit(r) BY <2>1, <2>5 DEF Commit, At, Goto, Types
  <2> QED BY <2>2, <2>3, <2>4, <2>5
<1>4. /\ ~ HasLeft(r)' /\ ~ RanOut(r)' /\ ~ HasLeft(r) /\ ~ RanOut(r)
      /\ Computed(r) /\ Computed(r)'
  BY <1>1, <1>3 DEF HasLeft, RanOut, Computed, Between
<1>5. Progress(r)' BY <1>1, <1>2, <1>3, <1>4 DEF Steady, Progress
<1>6. Budget(r)' BY <1>2, <1>4 DEF Steady, Budget
<1>7. BarrierCalls(r)' BY <1>2, <1>3, <1>4 DEF Steady, BarrierCalls
<1>8. SaveCalls(r)'
  <2> DEFINE c == calls["control"][r]
             k == Saves(step[r] - 1, goal[r])
  <2>1. k \in Nat /\ k + 1 <= Steps /\ c \in Nat
    <3>1. k \in Nat /\ k <= step[r] - 1 BY <1>1, SavedFinite
    <3> QED BY <1>1, <3>1, Values
  <2>2. /\ ShouldSave(r) => Saves(step[r], goal[r]) = k + 1
        /\ ~ ShouldSave(r) => Saves(step[r], goal[r]) = k
    BY <1>1, SavesStep DEF ShouldSave
  <2>3. /\ pc[r] = "save" => c = 3 * k
        /\ pc[r] = "plan" => ShouldSave(r) /\ c = 3 * k + 1
        /\ pc[r] = "commit" => ShouldSave(r) /\ c = 3 * k + 2
    BY DEF Steady, SaveCalls
  <2>4. ShouldSave(r)' = ShouldSave(r) BY <1>2 DEF ShouldSave
  <2>5. Settled(r)' = (pc'[r] = "saved") BY <1>3, <1>4 DEF Settled
  <2> HIDE DEF c, k
  <2>6. c <= 3 * Steps /\ (c + 1 <= 3 * Steps \/ pc[r] \notin {"save", "plan", "commit"})
    BY <1>1, <2>1, <2>3
  <2>7. calls'["control"][r] <= 3 * Steps BY <1>1, <1>3, <2>6 DEF c
  <2>8. pc'[r] = "plan" => ShouldSave(r) /\ calls'["control"][r] = 3 * k + 1
    BY <1>3, <2>1, <2>3 DEF c
  <2>9. pc'[r] = "commit" => ShouldSave(r) /\ calls'["control"][r] = 3 * k + 2
    BY <1>3, <2>1, <2>3 DEF c
  <2>10. pc'[r] = "saved" => calls'["control"][r] = 3 * Saves(step[r], goal[r])
    <3>1. pc'[r] = "saved" /\ pc[r] = "commit" => calls'["control"][r] = 3 * (k + 1)
      BY <1>3, <2>1, <2>3 DEF c
    <3>2. pc'[r] = "saved" /\ pc[r] # "commit" => ~ ShouldSave(r) /\ calls'["control"][r] = 3 * k
      BY <1>3, <2>1, <2>3 DEF c
    <3> QED BY <1>3, <2>2, <2>3, <3>1, <3>2
  <2>11. pc'[r] \notin {"step", "check", "save"} BY <1>3
  <2> QED BY <1>2, <1>4, <2>4, <2>5, <2>7, <2>8, <2>9, <2>10, <2>11 DEF SaveCalls, k
<1>9. Waits(r)'
  <2>1. Settled(r)' => pc[r] = "commit" \/ ~ ShouldSave(r) BY <1>3, <1>4 DEF Settled
  <2>2. pc[r] = "commit" => done >= Due(step[r]) BY DEF Waited
  <2>3. \A t \in SavedBy(step[r], goal[r]) :
          t < step[r] \/ (t = step[r] /\ ShouldSave(r))
    BY <1>1 DEF SavedBy, ShouldSave
  <2>4. \A t \in SavedBy(step[r], goal[r]) :
          t < step[r] \/ Settled(r)' => done >= Due(t)
    BY <2>1, <2>2, <2>3 DEF Steady, Waits
  <2> QED BY <1>2, <1>4, <2>4 DEF Steady, Waits
<1> QED BY <1>5, <1>6, <1>7, <1>8, <1>9 DEF Steady

(* The barrier of step 1, and a device that goes on.                       *)
LEMMA SteadyBarrier ==
  ASSUME Types, Types', NEW r \in Rank, Steady(r), EnterBarrier(r)
  PROVE  Steady(r)'
<1>1. /\ pc[r] = "saved" /\ pc'[r] = "barrier" /\ step[r] = 1 /\ Issue("world", r)
      /\ UNCHANGED <<step, micro, goal, data, done>>
  BY DEF EnterBarrier, At, Goto, Types
<1>2. /\ calls'["world"][r] = calls["world"][r] + 1
      /\ calls'["control"][r] = calls["control"][r] /\ calls'["model"][r] = calls["model"][r]
  BY <1>1, IssueStep DEF Group
<1>3. /\ ~ HasLeft(r)' /\ ~ RanOut(r)' /\ Settled(r) /\ Settled(r)' /\ Computed(r) /\ Computed(r)'
  BY <1>1 DEF HasLeft, RanOut, Settled, Computed, Between
<1>4. Progress(r)' BY <1>1, <1>2, <1>3 DEF Steady, Progress, Between
<1>5. Budget(r)' BY <1>1, <1>2, <1>3 DEF Steady, Budget
<1>6. SaveCalls(r)' BY <1>1, <1>2, <1>3 DEF Steady, SaveCalls
<1>7. BarrierCalls(r)' BY <1>1, <1>2, <1>3 DEF Steady, BarrierCalls
<1>8. Waits(r)' BY <1>1, <1>3 DEF Steady, Waits
<1> QED BY <1>4, <1>5, <1>6, <1>7, <1>8 DEF Steady

(* A set of naturals has a least element. *)
LEMMA LeastStep ==
  ASSUME NEW S \in SUBSET Nat, S # {}
  PROVE  \E x \in S : \A y \in S : x <= y
<1> DEFINE R == {ss \in Nat \X Nat : ss[1] < ss[2]}
<1>1. IsWellFoundedOn(R, Nat) BY NatLessThanWellFounded DEF OpToRel
<1>2. PICK x \in S : \A y \in S : <<y, x>> \notin R BY <1>1, WFMin
<1>3. \A y \in S : ~ (y < x) BY <1>2
<1> QED BY <1>3

(* Ranks that agree are never stuck. *)
LEMMA NeverStuck == KInv /\ Agreed => ~ Stuck
<1> SUFFICES ASSUME KInv, Agreed, Stuck PROVE FALSE OBVIOUS
<1>1. Types /\ KillsAll /\ (\A q \in Rank : Steady(q)) BY DEF KInv, IInv
<1>2. \A q \in Rank :
        /\ step[q] \in Nat /\ micro[q] \in Nat /\ goal[q] \in Nat /\ data[q] \in Nat
        /\ step[q] <= goal[q] /\ goal[q] <= Steps /\ micro[q] <= GA
        /\ calls["model"][q] \in Nat /\ calls["control"][q] \in Nat
        /\ calls["world"][q] \in Nat /\ done \in Nat
  BY <1>1, Values
<1>3. \A q \in Rank : pc[q] # "killed" /\ (~ Present(q) => pc[q] = "gone")
  BY <1>1 DEF Stuck, KillsAll, Present
<1>4. \A q \in Rank : Present(q) =>
        /\ pc[q] \in {"step", "plan", "commit", "barrier"} /\ step[q] >= 1
        /\ pc[q] # "step" => micro[q] = GA /\ calls["model"][q] = Due(step[q])
  <2> SUFFICES ASSUME NEW q \in Rank, Present(q)
               PROVE  /\ pc[q] \in {"step", "plan", "commit", "barrier"} /\ step[q] >= 1
                      /\ pc[q] # "step" => micro[q] = GA /\ calls["model"][q] = Due(step[q])
    OBVIOUS
  <2>1. pc[q] \in {"step", "plan", "commit", "barrier"} BY DEF Stuck, Blocked, At
  <2>2. step[q] >= 1 /\ (pc[q] # "step" => micro[q] = GA)
    BY <1>1, <2>1 DEF Steady, Progress, Between
  <2> QED BY <1>1, <2>1, <2>2, AllDue
<1>5. PICK r \in Rank : Present(r) /\ \A q \in Rank : Present(q) => step[r] <= step[q]
  <2> DEFINE S == {step[q] : q \in {p \in Rank : Present(p)}}
  <2>1. S \in SUBSET Nat /\ S # {} BY <1>2 DEF Stuck
  <2>2. PICK x \in S : \A y \in S : x <= y BY <2>1, LeastStep
  <2> QED BY <2>2
<1> DEFINE s == step[r]
           g == goal[r]
<1>6. /\ s \in Nat /\ s >= 1 /\ g \in Nat /\ s <= g /\ g <= Steps
      /\ Due(s) \in Nat /\ Due(g) \in Nat /\ Due(Steps) \in Nat
      /\ GA \in Nat /\ GA >= 1 /\ Steps \in Nat /\ s - 1 \in Nat /\ (s - 1) + 1 = s
      /\ MaxAhead \in Nat /\ Due(s) <= Due(g) /\ s \in 1 .. Steps
  <2>1. s \in Nat /\ s >= 1 /\ g \in Nat /\ s <= g /\ g <= Steps BY <1>2, <1>4, <1>5
  <2>2. GA \in Nat /\ GA >= 1 /\ Steps \in Nat /\ MaxAhead \in Nat
    BY Constants, Parameters
  <2>3. Due(s) \in Nat /\ Due(g) \in Nat /\ Due(Steps) \in Nat BY <2>1, <2>2, DueFacts
  <2>4. Due(s) <= Due(g) BY <2>1, DueOrdered
  <2> HIDE DEF s, g
  <2> QED BY <2>1, <2>2, <2>3, <2>4
<1>7. /\ \A q \in Rank : goal[q] = g
      /\ \A p, q \in Rank : data[p] + calls["model"][p] = data[q] + calls["model"][q]
  BY DEF Agreed
<1> HIDE DEF s, g
(* Who has left the loop with its step, and who ran out of data. *)
<1>8. ASSUME NEW q \in Rank, ~ Present(q), micro[q] = GA
      PROVE  HasLeft(q) /\ Settled(q) /\ step[q] = g /\ done >= Due(g) /\ done >= Due(s)
  <2>1. HasLeft(q) /\ Settled(q) BY <1>3, <1>8 DEF HasLeft, Settled
  <2>2. step[q] = g BY <1>1, <1>7, <2>1 DEF Steady, Progress
  <2>3. g \in SavedBy(step[q], goal[q]) BY <1>6, <1>7, <2>2 DEF SavedBy
  <2>4. done >= Due(g) BY <1>1, <2>1, <2>3 DEF Steady, Waits
  <2> QED BY <1>2, <1>6, <2>1, <2>2, <2>4
<1>9. ASSUME NEW q \in Rank, ~ Present(q), micro[q] # GA
      PROVE  /\ RanOut(q) /\ step[q] = Steps /\ g = Steps
             /\ calls["model"][q] < Due(Steps) /\ calls["model"][q] <= done + MaxAhead
             /\ \A p \in Rank : data[p] + calls["model"][p] = calls["model"][q]
  <2>1. micro[q] < GA BY <1>2, <1>6, <1>9
  <2>2. RanOut(q) BY <1>3, <1>9, <2>1 DEF RanOut
  <2>3. data[q] = 0 /\ calls["model"][q] <= done + MaxAhead
        /\ calls["model"][q] \in {Due(Steps), Due(Steps) - 1}
    BY <1>1, <1>2, <2>2 DEF Steady, Budget
  <2>4. step[q] >= 1 /\ calls["model"][q] + GA = Due(step[q]) + micro[q]
    BY <1>1, <1>2, <1>3, <1>9 DEF Steady, Progress
  <2>5. Due(step[q]) \in Nat BY <1>2, DueFacts
  <2>6. calls["model"][q] < Due(step[q]) BY <1>2, <1>6, <2>1, <2>4, <2>5
  <2>7. ~ (step[q] < Steps)
    <3>1. SUFFICES ASSUME step[q] < Steps PROVE FALSE OBVIOUS
    <3>2. Due(step[q]) + GA <= Due(Steps) BY <1>2, <1>6, <3>1, DueGrows
    <3> QED BY <1>2, <1>6, <2>3, <2>5, <2>6, <3>2
  <2>8. step[q] = Steps /\ g = Steps BY <1>2, <1>6, <1>7, <2>7
  <2>9. \A p \in Rank : data[p] + calls["model"][p] = calls["model"][q]
    BY <1>2, <1>7, <2>3
  <2> QED BY <2>2, <2>3, <2>6, <2>8, <2>9
<1>10. ASSUME NEW q \in Rank, Present(q), step[q] > s
       PROVE  calls["model"][q] >= Due(s)
  <2>1. calls["model"][q] + GA = Due(step[q]) + micro[q]
    BY <1>1, <1>4, <1>10 DEF Steady, Progress
  <2>2. Due(s) + GA <= Due(step[q]) /\ Due(step[q]) \in Nat BY <1>2, <1>6, <1>10, DueGrows
  <2> QED BY <1>2, <1>6, <2>1, <2>2
<1>11. \A q \in Rank : Present(q) => step[q] = s \/ step[q] > s
  BY <1>2, <1>5, <1>6 DEF s
(* Nobody waits within the step that is least far. *)
<1>12. ASSUME NEW q \in Rank, Present(q), step[q] = s PROVE pc[q] # "step"
  <2>1. SUFFICES ASSUME pc[q] = "step" PROVE FALSE OBVIOUS
  <2>2. \/ data[q] > 0 /\ calls["model"][q] >= done + MaxAhead
        \/ micro[q] = GA /\ ShouldLog(s) /\ ~ (done >= calls["model"][q])
    BY <1>12, <2>1 DEF Stuck, Blocked, At, DeviceIdle
  <2>3. calls["model"][q] > done BY <1>2, <1>6, <2>2, Parameters
  <2>4. calls["model"][q] + GA = Due(s) + micro[q]
    BY <1>1, <1>4, <1>12 DEF Steady, Progress
  <2>5. calls["model"][q] <= Due(s) BY <1>2, <1>6, <2>4
  <2>6. ASSUME NEW p \in Rank, Present(p) PROVE calls["model"][p] > done
    <3>1. CASE step[p] > s BY <1>2, <1>6, <1>10, <2>3, <2>5, <2>6, <3>1
    <3>2. CASE step[p] = s /\ pc[p] # "step" BY <1>2, <1>4, <1>6, <2>3, <2>5, <2>6, <3>2
    <3>3. CASE step[p] = s /\ pc[p] = "step"
      <4>1. \/ calls["model"][p] >= done + MaxAhead
            \/ ~ (done >= calls["model"][p])
        BY <2>6, <3>3 DEF Stuck, Blocked, At, DeviceIdle
      <4> QED BY <1>2, <1>6, <4>1, Parameters
    <3> QED BY <1>11, <2>6, <3>1, <3>2, <3>3
  <2>7. ASSUME NEW p \in Rank, ~ Present(p) PROVE FALSE
    <3>1. CASE micro[p] = GA BY <1>2, <1>6, <1>8, <2>3, <2>5, <2>7, <3>1
    <3>2. CASE micro[p] # GA
      <4>1. /\ step[p] = Steps /\ calls["model"][p] < Due(Steps)
            /\ calls["model"][p] <= done + MaxAhead
            /\ data[q] + calls["model"][q] = calls["model"][p]
        BY <1>9, <2>7, <3>2
      <4>2. CASE data[q] > 0 /\ calls["model"][q] >= done + MaxAhead
        BY <1>2, <1>6, <4>1, <4>2
      <4>3. CASE micro[q] = GA /\ ShouldLog(s) /\ ~ (done >= calls["model"][q])
        <5>1. calls["model"][q] = Due(s) BY <1>2, <1>6, <2>4, <4>3
        <5>2. s # Steps BY <1>2, <1>6, <4>1, <5>1
        <5>3. s \in 1 .. step[p] /\ s < step[p] BY <1>6, <4>1, <5>2
        <5>4. done >= Due(s) BY <1>1, <4>3, <5>3 DEF Steady, Waits
        <5> QED BY <4>3, <5>1, <5>4
      <4> QED BY <2>2, <4>2, <4>3
    <3> QED BY <3>1, <3>2
  <2> QED BY <2>6, <2>7 DEF Stuck, DeviceReady
<1>13. \A q \in Rank : Present(q) /\ step[q] = s =>
         pc[q] \in {"plan", "commit", "barrier"} /\ calls["model"][q] = Due(s)
  BY <1>4, <1>12
<1>14. ASSUME NEW q \in Rank, ~ Present(q), micro[q] # GA PROVE s < Steps
  <2>1. calls["model"][r] = Due(s) BY <1>5, <1>13 DEF s
  <2>2. data[r] + calls["model"][r] = calls["model"][q] /\ calls["model"][q] < Due(Steps)
    BY <1>9, <1>14
  <2> QED BY <1>2, <1>6, <2>1, <2>2
(* The devices have finished that step. *)
<1>15. done >= Due(s)
  <2>1. SUFFICES ASSUME ~ (done >= Due(s)) PROVE FALSE OBVIOUS
  <2>2. ASSUME NEW q \in Rank, ~ Present(q), micro[q] # GA PROVE done >= Due(s)
    <3>1. s < step[q] /\ s < g /\ goal[q] = g /\ s \in 1 .. step[q]
      BY <1>6, <1>7, <1>9, <1>14, <2>2
    <3>2. CASE pc[r] \in {"plan", "commit"}
      <4>1. s % Interval = 0
        BY <1>1, <3>1, <3>2 DEF Steady, SaveCalls, ShouldSave, s, g
      <4>2. s \in SavedBy(step[q], goal[q]) BY <3>1, <4>1 DEF SavedBy
      <4> QED BY <1>1, <3>1, <4>2 DEF Steady, Waits
    <3>3. CASE pc[r] = "barrier"
      <4>1. ShouldLog(s) BY <1>1, <3>3 DEF Steady, BarrierCalls, ShouldLog, s
      <4> QED BY <1>1, <3>1, <4>1 DEF Steady, Waits
    <3> QED BY <1>5, <1>13, <3>2, <3>3 DEF s
  <2>3. \A q \in Rank : Present(q) BY <1>8, <2>1, <2>2
  <2>4. \A q \in Rank : calls["model"][q] >= Due(s)
    BY <1>2, <1>6, <1>10, <1>11, <1>13, <2>3
  <2>5. DeviceReady BY <1>2, <1>6, <2>1, <2>3, <2>4 DEF DeviceReady
  <2> QED BY <2>5 DEF Stuck
<1>16. \A q \in Rank : Present(q) /\ step[q] = s => DeviceIdle(q)
  BY <1>13, <1>15 DEF DeviceIdle
(* Everybody else has made the calls of that step. *)
<1> DEFINE k == Saves(s - 1, g)
           n == Saves(s, g)
<1>17. k \in Nat /\ n \in Nat /\ k <= n /\ (s = g \/ s % Interval = 0 => n = k + 1)
  <2>1. k \in Nat /\ n \in Nat /\ k <= n
    <3>1. s - 1 <= s BY <1>6
    <3>2. Saves(s - 1, g) \in Nat /\ Saves(s, g) \in Nat /\ Saves(s - 1, g) <= Saves(s, g)
      <4> DEFINE b == s - 1
      <4>1. b \in Nat /\ b <= s BY <1>6, <3>1
      <4> HIDE DEF b
      <4>2. Saves(b, g) \in Nat /\ Saves(s, g) \in Nat /\ Saves(b, g) <= Saves(s, g)
        BY <1>6, <4>1, SavesOrdered
      <4> QED BY <4>2 DEF b
    <3> QED BY <3>2
  <2>2. s = g \/ s % Interval = 0 => n = k + 1
    <3>1. \A v \in Nat : v + 1 = g \/ (v + 1) % Interval = 0 => Saves(v + 1, g) = Saves(v, g) + 1
      BY <1>6, SavesStep
    <3> QED BY <1>6, <3>1
  <2> QED BY <2>1, <2>2
<1>18. \A t \in Nat : s <= t => Saves(t, g) \in Nat /\ n <= Saves(t, g)
  BY <1>6, SavesOrdered
<1> HIDE DEF k, n
<1>19. ASSUME NEW q \in Rank, ~ (Present(q) /\ step[q] = s)
       PROVE  calls["control"][q] >= 3 * n /\ (s = 1 => calls["world"][q] = 1)
  <2>1. CASE ~ Present(q) /\ micro[q] = GA
    <3>1. HasLeft(q) /\ Settled(q) /\ step[q] = g BY <1>8, <2>1
    <3>2. calls["control"][q] = 3 * Saves(g, g) BY <1>1, <1>7, <3>1 DEF Steady, SaveCalls
    <3>3. calls["world"][q] = 1 BY <1>1, <1>6, <3>1 DEF Steady, BarrierCalls
    <3> QED BY <1>6, <1>17, <1>18, <3>2, <3>3
  <2>2. CASE ~ Present(q) /\ micro[q] # GA
    <3>1. RanOut(q) /\ step[q] = Steps /\ s < Steps BY <1>9, <1>14, <2>2
    <3>2. calls["control"][q] = 3 * Saves(Steps - 1, g)
      BY <1>1, <1>7, <3>1 DEF Steady, SaveCalls
    <3>3. Steps - 1 \in Nat /\ s <= Steps - 1 /\ step[q] >= 2 BY <1>6, <3>1
    <3>4. calls["world"][q] = 1 BY <1>1, <3>3 DEF Steady, BarrierCalls
    <3> QED BY <1>17, <1>18, <3>2, <3>3, <3>4
  <2>3. CASE Present(q)
    <3>1. step[q] > s BY <1>11, <1>19, <2>3
    <3>2. step[q] - 1 \in Nat /\ s <= step[q] - 1 /\ s <= step[q] /\ step[q] >= 2
      BY <1>2, <1>6, <3>1
    <3>3. /\ Saves(step[q] - 1, g) \in Nat /\ n <= Saves(step[q] - 1, g)
          /\ Saves(step[q], g) \in Nat /\ n <= Saves(step[q], g)
      BY <1>2, <1>18, <3>2
    <3>4. pc[q] \in {"step", "plan", "commit", "barrier"} BY <1>4, <2>3
    <3>5. \/ calls["control"][q] = 3 * Saves(step[q] - 1, g)
          \/ calls["control"][q] = 3 * Saves(step[q] - 1, g) + 1
          \/ calls["control"][q] = 3 * Saves(step[q] - 1, g) + 2
          \/ calls["control"][q] = 3 * Saves(step[q], g)
      BY <1>1, <1>7, <3>4 DEF Steady, SaveCalls, Settled
    <3>6. calls["control"][q] >= 3 * n BY <1>17, <3>3, <3>5
    <3>7. calls["world"][q] = 1 BY <1>1, <3>2 DEF Steady, BarrierCalls
    <3> QED BY <3>6, <3>7
  <2> QED BY <2>1, <2>2, <2>3
<1>20. \A q \in Rank : Present(q) /\ step[q] = s =>
         /\ pc[q] = "plan" => n = k + 1 /\ calls["control"][q] = 3 * k + 1
         /\ pc[q] = "commit" => n = k + 1 /\ calls["control"][q] = 3 * k + 2
         /\ pc[q] = "barrier" => s = 1 /\ calls["control"][q] = 3 * n /\ calls["world"][q] = 1
  BY <1>1, <1>7, <1>17 DEF Steady, SaveCalls, BarrierCalls, ShouldSave, Settled, k, n
(* So a save in that step goes on, ... *)
<1>21. ASSUME NEW q \in Rank, Present(q), step[q] = s PROVE pc[q] # "plan"
  <2>1. SUFFICES ASSUME pc[q] = "plan" PROVE FALSE OBVIOUS
  <2>2. n = k + 1 /\ calls["control"][q] = 3 * k + 1 BY <1>20, <1>21, <2>1
  <2>3. ~ Joined("control", q) BY <1>16, <1>21, <2>1 DEF Stuck, Blocked, At
  <2>4. PICK p \in Rank : ~ (calls["control"][p] >= calls["control"][q]) BY <2>3 DEF Joined
  <2>5. Present(p) /\ step[p] = s BY <1>2, <1>17, <1>19, <2>2, <2>4
  <2> QED BY <1>2, <1>13, <1>17, <1>20, <2>2, <2>4, <2>5
<1>22. ASSUME NEW q \in Rank, Present(q), step[q] = s PROVE pc[q] # "commit"
  <2>1. SUFFICES ASSUME pc[q] = "commit" PROVE FALSE OBVIOUS
  <2>2. n = k + 1 /\ calls["control"][q] = 3 * k + 2 BY <1>20, <1>22, <2>1
  <2>3. \A p \in Rank : calls["control"][p] >= calls["control"][q]
    <3> TAKE p \in Rank
    <3>1. CASE Present(p) /\ step[p] = s
      BY <1>2, <1>13, <1>17, <1>20, <1>21, <2>2, <3>1
    <3>2. CASE ~ (Present(p) /\ step[p] = s) BY <1>2, <1>17, <1>19, <2>2, <3>2
    <3> QED BY <3>1, <3>2
  <2>4. q # Coordinator /\ calls["control"][Coordinator] <= calls["control"][q]
    BY <1>22, <2>1, <2>3 DEF Stuck, Blocked, At, Joined
  <2>5. Coordinator \in Rank /\ calls["control"][Coordinator] = 3 * k + 2
    BY <1>2, <1>17, <2>2, <2>3, <2>4, Constants
  <2>6. Present(Coordinator) /\ step[Coordinator] = s
    BY <1>17, <1>19, <2>2, <2>5
  <2>7. pc[Coordinator] = "commit"
    BY <1>13, <1>17, <1>20, <1>21, <2>2, <2>5, <2>6
  <2>8. Joined("control", Coordinator) BY <2>2, <2>3, <2>5 DEF Joined
  <2> QED BY <2>5, <2>6, <2>7, <2>8 DEF Stuck, Blocked, At
(* ... and the barrier opens. *)
<1>23. pc[r] = "barrier" /\ Present(r) /\ step[r] = s
  BY <1>5, <1>13, <1>21, <1>22 DEF s
<1>24. Joined("world", r)
  <2>1. s = 1 /\ calls["world"][r] = 1 BY <1>20, <1>23
  <2>2. ASSUME NEW p \in Rank PROVE calls["world"][p] = 1
    <3>1. CASE Present(p) /\ step[p] = s BY <1>13, <1>20, <1>21, <1>22, <3>1
    <3>2. CASE ~ (Present(p) /\ step[p] = s) BY <1>19, <2>1, <3>2
    <3> QED BY <3>1, <3>2
  <2> QED BY <2>1, <2>2 DEF Joined
<1> QED BY <1>16, <1>23, <1>24 DEF Stuck, Blocked, At

(* A host moves its own rank only. *)
LEMMA OneHost ==
  ASSUME Types, Tables, NEW r \in Rank, Host(r), NEW q \in Rank, q # r
  PROVE  /\ pc'[q] = pc[q] /\ step'[q] = step[q] /\ micro'[q] = micro[q]
         /\ goal'[q] = goal[q] /\ data'[q] = data[q] /\ done' = done
         /\ \A g \in Group : calls'[g][q] = calls[g][q]
<1>1. pc'[q] = pc[q]
  <2>1. (\E place \in Place : Goto(r, place)) \/ pc' = pc
    BY DEF Host, BeginStep, Leave, Microbatch, Exhausted, Optimize, Check, SkipSave, Plan,
           Write, Commit, NextStep, EnterBarrier, LeaveBarrier, Close, Place, Between
  <2> QED BY <2>1 DEF Types, Goto
<1>2. step'[q] = step[q]
  BY DEF Host, BeginStep, Leave, Microbatch, Exhausted, Optimize, Check, SkipSave, Plan,
         Write, Commit, NextStep, EnterBarrier, LeaveBarrier, Close, Types
<1>3. micro'[q] = micro[q]
  BY DEF Host, BeginStep, Leave, Microbatch, Exhausted, Optimize, Check, SkipSave, Plan,
         Write, Commit, NextStep, EnterBarrier, LeaveBarrier, Close, Types
<1>4. goal'[q] = goal[q]
  BY DEF Host, BeginStep, Leave, Microbatch, Exhausted, Optimize, Check, SkipSave, Plan,
         Write, Commit, NextStep, EnterBarrier, LeaveBarrier, Close, Tables
<1>5. data'[q] = data[q]
  BY DEF Host, BeginStep, Leave, Microbatch, Exhausted, Optimize, Check, SkipSave, Plan,
         Write, Commit, NextStep, EnterBarrier, LeaveBarrier, Close, Tables
<1>6. done' = done
  BY DEF Host, BeginStep, Leave, Microbatch, Exhausted, Optimize, Check, SkipSave, Plan,
         Write, Commit, NextStep, EnterBarrier, LeaveBarrier, Close, world
<1>7. \A g \in Group : calls'[g][q] = calls[g][q]
  <2>1. (\E g \in Group : Issue(g, r)) \/ calls' = calls
    BY DEF Host, BeginStep, Leave, Microbatch, Exhausted, Optimize, Check, SkipSave, Plan,
           Write, Commit, NextStep, EnterBarrier, LeaveBarrier, Close, world, Group
  <2> QED BY <2>1, IssueStep
<1> QED BY <1>1, <1>2, <1>3, <1>4, <1>5, <1>6, <1>7

(* Every step keeps every rank's part.                                     *)
LEMMA NextSteady ==
  ASSUME KInv, IInv', [Next]_vars
  PROVE  \A q \in Rank : Steady(q)'
<1>1. Types /\ Types' /\ Tables /\ Waited /\ KillsAll /\ \A q \in Rank : Steady(q)
  BY DEF KInv, IInv
<1>2. ASSUME NEW r \in Rank, Host(r), NEW q \in Rank PROVE Steady(q)'
  <2>1. CASE q = r
    <3>1. Steady(r)'
      BY <1>1, <1>2, SteadyLoop, SteadyStep, SteadySave, SteadyBarrier DEF Host, Tables
    <3> QED BY <2>1, <3>1
  <2>2. CASE q # r
    <3>1. done' >= done BY <1>1, <1>2, <2>2, OneHost DEF Types
    <3> QED BY <1>1, <1>2, <2>2, <3>1, OneHost, Unmoved
  <2> QED BY <2>1, <2>2
<1>3. ASSUME UNCHANGED <<pc, step, micro, goal, data, calls>>, done' >= done, NEW q \in Rank
      PROVE  Steady(q)'
  BY <1>1, <1>3, Unmoved
<1>4. ASSUME NEW r \in Rank, HandleSignal(r), NEW q \in Rank PROVE Steady(q)'
  BY <1>1, <1>3, <1>4 DEF HandleSignal, host, world, Types
<1>5. ASSUME DeviceRuns \/ Send \/ UNCHANGED vars, NEW q \in Rank PROVE Steady(q)'
  <2>1. UNCHANGED <<pc, step, micro, goal, data, calls>> /\ done' \in {done, done + 1}
    BY <1>5 DEF DeviceRuns, Send, vars, host, world
  <2> QED BY <1>1, <1>3, <2>1 DEF Types
<1>6. ASSUME Timeout, NEW q \in Rank PROVE Steady(q)'
  <2>1. /\ UNCHANGED <<step, micro, goal, data, calls, done>>
        /\ pc'[q] = IF Present(q) THEN "killed" ELSE pc[q]
    BY <1>6 DEF Timeout, world
  <2>2. CASE ~ Present(q)
    <3>1. done' >= done BY <1>1, <2>1 DEF Types
    <3> QED BY <1>1, <2>1, <2>2, <3>1, Unmoved
  <2>3. CASE Present(q)
    <3>1. pc'[q] = "killed" BY <2>1, <2>3
    <3>2. /\ ~ HasLeft(q)' /\ ~ RanOut(q)' /\ ~ Computed(q)' /\ ~ Settled(q)'
      BY <3>1 DEF HasLeft, RanOut, Computed, Settled, Between
    <3>3. Progress(q)' BY <1>1, <2>1, <3>1, <3>2 DEF Steady, Progress, Between
    <3>4. Budget(q)' BY <1>1, <2>1, <3>2 DEF Steady, Budget
    <3>5. SaveCalls(q)' BY <1>1, <2>1, <3>1, <3>2 DEF Steady, SaveCalls
    <3>6. BarrierCalls(q)' BY <1>1, <2>1, <3>1, <3>2 DEF Steady, BarrierCalls
    <3>7. Waits(q)' BY <1>1, <2>1, <3>2 DEF Steady, Waits
    <3> QED BY <3>3, <3>4, <3>5, <3>6, <3>7 DEF Steady
  <2> QED BY <2>2, <2>3
<1> QED BY <1>2, <1>4, <1>5, <1>6 DEF Next

(* The tables, flags and files keep their types.                           *)
LEMMA NextTables ==
  ASSUME KInv, [Next]_vars
  PROVE  Tables' /\ Bits' /\ Stored'
<1>1. Types /\ Tables /\ Bits /\ Stored /\ \A q \in Rank : Steady(q) BY DEF KInv, IInv
<1>2. ASSUME NEW r \in Rank, Host(r) PROVE Tables' /\ Bits' /\ Stored'
  <2>1. \/ UNCHANGED goal
        \/ goal' = [goal EXCEPT ![r] = step[r]]
    BY <1>2 DEF Host, BeginStep, Leave, Microbatch, Exhausted, Optimize, Check, SkipSave, Plan,
                Write, Commit, NextStep, EnterBarrier, LeaveBarrier, Close
  <2>2. \/ UNCHANGED data
        \/ data' = [data EXCEPT ![r] = @ - 1] /\ data[r] > 0
    BY <1>2 DEF Host, BeginStep, Leave, Microbatch, Exhausted, Optimize, Check, SkipSave, Plan,
                Write, Commit, NextStep, EnterBarrier, LeaveBarrier, Close
  <2>3. UNCHANGED <<flag, sent>>
    BY <1>2 DEF Host, BeginStep, Leave, Microbatch, Exhausted, Optimize, Check, SkipSave, Plan,
                Write, Commit, NextStep, EnterBarrier, LeaveBarrier, Close
  <2>4. \/ UNCHANGED meta
        \/ pc[r] = "commit" /\ meta' = meta \cup {step[r]}
    BY <1>2 DEF Host, BeginStep, Leave, Microbatch, Exhausted, Optimize, Check, SkipSave, Plan,
                Write, Commit, NextStep, EnterBarrier, LeaveBarrier, Close, disk, At
  <2>5. \/ UNCHANGED shards
        \/ pc[r] = "plan" /\ shards' = shards \cup {<<step[r], r, calls["model"][r]>>}
    BY <1>2 DEF Host, BeginStep, Leave, Microbatch, Exhausted, Optimize, Check, SkipSave, Plan,
                Write, Commit, NextStep, EnterBarrier, LeaveBarrier, Close, disk, At
  <2>6. step[r] \in Nat /\ step[r] <= Steps /\ data[r] \in Nat /\ calls["model"][r] \in Nat
        /\ Steps \in Nat /\ Due(Steps) \in Nat /\ Due(Steps) = Steps * GA
    BY <1>1, Values, Parameters
  <2>7. pc[r] \in {"plan", "commit"} => step[r] \in 1 .. Steps
    BY <1>1, <2>6 DEF Steady, Progress
  <2>8. calls["model"][r] \in 0 .. Steps * GA
    BY <1>1, <2>6 DEF Steady, Budget
  <2>9. Tables'
    <3>1. goal' \in [Rank -> Nat] BY <1>1, <2>1, <2>6 DEF Tables
    <3>2. data' \in [Rank -> Nat] BY <1>1, <2>2, <2>6 DEF Tables
    <3> QED BY <3>1, <3>2 DEF Tables
  <2>10. Stored'
    <3>1. meta' \subseteq 1 .. Steps BY <1>1, <2>4, <2>7 DEF Stored
    <3>2. shards' \subseteq (1 .. Steps) \X Rank \X (0 .. Steps * GA)
      <4> HIDE DEF Rank
      <4> QED BY <1>1, <2>5, <2>7, <2>8 DEF Stored
    <3> QED BY <3>1, <3>2 DEF Stored
  <2> QED BY <1>1, <2>3, <2>9, <2>10 DEF Bits
<1>3. ASSUME NEW r \in Rank, HandleSignal(r) PROVE Tables' /\ Bits' /\ Stored'
  BY <1>1, <1>3 DEF HandleSignal, host, disk, Tables, Bits, Stored
<1>4. ASSUME DeviceRuns \/ Send \/ Timeout \/ UNCHANGED vars PROVE Tables' /\ Bits' /\ Stored'
  BY <1>1, <1>4 DEF DeviceRuns, Send, Timeout, vars, host, disk, Tables, Bits, Stored
<1> QED BY <1>2, <1>3, <1>4 DEF Next

(* A job is killed only when its ranks are split, and then it stays so.    *)
LEMMA NextSplit ==
  ASSUME KInv, [Next]_vars
  PROVE  Split'
<1>1. Types /\ KillsAll /\ Split BY DEF KInv, IInv
<1> SUFFICES ASSUME Killed' PROVE (~ Agreed)' BY DEF Split
<1>2. CASE Killed
  <2>1. /\ \A r \in Rank : ~ Present(r) /\ pc[r] \in {"gone", "killed"}
        /\ ~ Agreed
    BY <1>1, <1>2 DEF KillsAll, Killed, At, Present, Split
  <2>2. \A r \in Rank : ~ Host(r) /\ ~ HandleSignal(r)
    BY <2>1 DEF Host, BeginStep, Leave, Microbatch, Exhausted, Optimize, Check, SkipSave, Plan,
                Write, Commit, NextStep, EnterBarrier, LeaveBarrier, Close, At, HandleSignal
  <2>3. UNCHANGED <<goal, data, calls>>
    BY <2>2 DEF Next, DeviceRuns, Send, Timeout, vars, host, world
  <2> QED BY <2>1, <2>3 DEF Agreed
<1>3. CASE ~ Killed
  <2>1. \A r \in Rank : pc[r] # "killed" BY <1>3 DEF Killed, At
  <2>2. ASSUME NEW r \in Rank, Host(r) PROVE ~ Killed'
    <3>1. (\E place \in Place \ {"killed"} : Goto(r, place)) \/ pc' = pc
      BY <2>2 DEF Host, BeginStep, Leave, Microbatch, Exhausted, Optimize, Check, SkipSave, Plan,
             Write, Commit, NextStep, EnterBarrier, LeaveBarrier, Close, Place, Between
    <3> QED BY <1>1, <2>1, <3>1 DEF Types, Goto, Killed, At
  <2>3. ~ UNCHANGED pc BY <2>1 DEF Killed, At
  <2>4. Timeout BY <2>2, <2>3 DEF Next, HandleSignal, DeviceRuns, Send, vars, host
  <2>5. ~ Agreed BY <2>4, NeverStuck DEF Timeout
  <2>6. UNCHANGED <<goal, data, calls>> BY <2>4 DEF Timeout, world
  <2> QED BY <2>5, <2>6 DEF Agreed
<1> QED BY <1>2, <1>3

\* The invariant holds at first.
LEMMA InitKInv == Init => KInv
<1> SUFFICES ASSUME Init PROVE KInv OBVIOUS
<1>1. IInv BY InitIInv
<1>2. \A r \in Rank : Steady(r) BY InitSteady
<1>3. Tables
  <2>1. Steps * GA \in Nat /\ Steps * GA - 1 \in Nat /\ Steps \in Nat
    BY Parameters, DueGrows, DueFacts, Constants
  <2> QED BY <2>1 DEF Init, Tables
<1>4. Bits /\ Stored /\ Split BY DEF Init, Bits, Stored, Split, Killed, At
<1> QED BY <1>1, <1>2, <1>3, <1>4 DEF KInv

\* Every step keeps the invariant.
LEMMA NextKInv == KInv /\ [Next]_vars => KInv'
<1> SUFFICES ASSUME KInv, [Next]_vars PROVE KInv' OBVIOUS
<1>1. IInv' BY NextIInv DEF KInv
<1>2. \A r \in Rank : Steady(r)' BY <1>1, NextSteady
<1>3. Tables' /\ Bits' /\ Stored' BY NextTables
<1>4. Split' BY NextSplit
<1> QED BY <1>1, <1>2, <1>3, <1>4 DEF KInv

(* The bounds of the type invariant follow from the positions.             *)
LEMMA KInvSplit == KInv => KilledOnlyWhenSplit
<1> SUFFICES ASSUME KInv PROVE KilledOnlyWhenSplit OBVIOUS
<1>1. Types /\ Tables /\ Bits /\ Stored /\ Split /\ DeviceBound /\ \A q \in Rank : Steady(q)
  BY DEF KInv, IInv
<1>2. /\ step \in [Rank -> 0 .. Steps] /\ goal \in [Rank -> 1 .. Steps]
      /\ micro \in [Rank -> 0 .. GA]
  BY <1>1 DEF Types, Tables, Steady, Progress
<1>3. Steps \in Nat /\ Due(Steps) \in Nat /\ Due(Steps) = Steps * GA
      /\ Due(Steps) <= 3 * Steps * GA /\ 3 * Steps <= 3 * Steps * GA /\ 1 <= 3 * Steps * GA
      /\ 3 * Steps * GA \in Int
  <2>1. Steps * GA \in Nat /\ GA \in Nat /\ Steps \in Nat BY Parameters, Constants
  <2>2. 3 * Steps * GA \in Int BY <2>1
  <2> QED BY <2>2, Parameters
<1>4. \A q \in Rank : /\ calls["model"][q] \in Nat /\ calls["control"][q] \in Nat
                      /\ calls["world"][q] \in Nat /\ data[q] \in Nat
                      /\ calls["model"][q] <= Due(Steps) /\ data[q] <= Due(Steps)
                      /\ calls["control"][q] <= 3 * Steps /\ calls["world"][q] <= 1
  <2> SUFFICES ASSUME NEW q \in Rank
               PROVE  /\ calls["model"][q] \in Nat /\ calls["control"][q] \in Nat
                      /\ calls["world"][q] \in Nat /\ data[q] \in Nat
                      /\ calls["model"][q] <= Due(Steps) /\ data[q] <= Due(Steps)
                      /\ calls["control"][q] <= 3 * Steps /\ calls["world"][q] <= 1
    OBVIOUS
  <2>1. /\ calls["model"][q] \in Nat /\ calls["control"][q] \in Nat
        /\ calls["world"][q] \in Nat /\ data[q] \in Nat
    BY <1>1, Values
  <2>2. data[q] + calls["model"][q] \in {Due(Steps), Due(Steps) - 1} BY <1>1 DEF Steady, Budget
  <2>3. calls["control"][q] <= 3 * Steps /\ calls["world"][q] <= 1
    BY <1>1 DEF Steady, SaveCalls, BarrierCalls
  <2> QED BY <1>3, <2>1, <2>2, <2>3
<1>5. data \in [Rank -> 0 .. Steps * GA] BY <1>1, <1>3, <1>4 DEF Tables
<1>6. calls \in [Group -> [Rank -> 0 .. 3 * Steps * GA]]
  <2> DEFINE M == 3 * Steps * GA
  <2>1. \A q \in Rank, g \in Group : calls[g][q] \in 0 .. M
    <3>1. M \in Int /\ Due(Steps) <= M /\ 3 * Steps <= M /\ 1 <= M /\ 3 * Steps \in Nat
          /\ Due(Steps) \in Nat
      BY <1>3
    <3> HIDE DEF M
    <3> QED BY <1>4, <3>1 DEF Group
  <2> HIDE DEF M
  <2>2. calls \in [Group -> [Rank -> 0 .. M]] BY <1>1, <2>1 DEF Types
  <2> QED BY <2>2 DEF M
<1>7. done \in 0 .. Steps * GA
  BY <1>1, <1>3, <1>4, Constants DEF DeviceBound, Types
<1>8. TypeOK BY <1>1, <1>2, <1>5, <1>6, <1>7 DEF TypeOK, Bits, Stored
<1> QED BY <1>1, <1>8 DEF KilledOnlyWhenSplit, Split, Agreed

(* The watchdog ends only jobs whose ranks disagree about the last step or *)
(* about their data, for any number of ranks, steps and microbatches:      *)
(* logging, saving, NaN detection, the cutoff and the barrier never leave  *)
(* a rank waiting alone (train_step, set_pg_timeouts, save).               *)
THEOREM KilledMeansSplit == Spec => []KilledOnlyWhenSplit
<1>1. Init => KInv BY InitKInv
<1>2. KInv /\ [Next]_vars => KInv' BY NextKInv
<1>3. KInv => KilledOnlyWhenSplit BY KInvSplit
<1> QED BY <1>1, <1>2, <1>3, PTL DEF Spec
=============================================================================
