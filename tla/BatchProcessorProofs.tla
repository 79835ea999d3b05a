------------------------- MODULE BatchProcessorProofs -------------------------
(***************************************************************************)
(* The safety of the request batcher for any number of clients and any     *)
(* sizes of its queue and batches: the queue's count is exact, no callback *)
(* is called twice, and a shutdown that waits has every pending request    *)
(* served.                                                                 *)
(*                                                                         *)
(* A request is in one place at a time: queued, in the worker's batch, or  *)
(* out of both.  It is fresh until a loop over the batch comes to it, and  *)
(* served once the loop has passed it.  A loop begins anew, in a handler,  *)
(* only where the one before has not called any callback.                  *)
(***************************************************************************)
EXTENDS BatchProcessor, SequenceTheorems, TLAPS

Injective(s) == \A i, j \in DOMAIN s : s[i] = s[j] => i = j

Queued == ElementsOf(queue)
Taken == ElementsOf(batch)

(* A request whose callback nobody has touched, and one that is done with. *)
Fresh(c) == answers[c] = 0 /\ callback[c] = "none"
Served(c) ==
  \/ answers[c] = 1 /\ callback[c] \in {"late", "ended"}
  \/ answers[c] = 0 /\ callback[c] = "unstarted"

Loops == {"distribute", "notify"}
Joins == {"join_response", "join_notice"}

(* One place for each request.                                             *)
Places ==
  /\ Injective(queue) /\ Injective(batch) /\ Queued \cap Taken = {}
  /\ \A c \in Queued : client[c] = "accepted" /\ Fresh(c)
  /\ \A c \in Taken : client[c] = "accepted"
  /\ \A c \in Clients : client[c] # "accepted" => Fresh(c)

(* The batch is emptied before the next round; until a loop over it begins *)
(* its requests are fresh.                                                 *)
Rounds ==
  /\ workerPc \in {"check", "get", "exited"} => batch = << >>
  /\ workerPc \in {"check", "get", "fill", "generate", "exited"} => at = 1
  /\ workerPc \in {"fill", "generate"} => \A c \in Taken : Fresh(c)

(* A loop over the batch has served the requests before the one it is at,  *)
(* and has not touched those after it.                                     *)
Serving ==
  /\ workerPc \in Loops \cup Joins \cup {"report"} =>
       /\ at \in 1 .. Len(batch) + 1
       /\ \A j \in DOMAIN batch : /\ j < at => Served(batch[j])
                                  /\ j > at => Fresh(batch[j])
  /\ workerPc \in Joins \cup {"report"} => at \in DOMAIN batch
  /\ workerPc \in Loops \cup {"report"} /\ at \in DOMAIN batch => Fresh(batch[at])
  /\ workerPc \in Joins => /\ answers[batch[at]] = 1
                           /\ callback[batch[at]] \in {"running", "ended"}

(* A promise is kept, or its request is still on its way.                  *)
Promises ==
  /\ shutdownPc \in {"running", "drain"} => promised = {}
  /\ stop <=> shutdownPc \in {"join_worker", "returned"}
  /\ \A c \in promised : Served(c) \/ c \in Queued \cup Taken

IInv ==
  /\ UnfinishedExact /\ AnsweredAtMostOnce /\ ShutdownWaits
  /\ Places /\ Rounds /\ Serving /\ Promises

-----------------------------------------------------------------------------
(* Sequences without repetition                                            *)

(* Putting a request into a queue that does not have it.                   *)
LEMMA AppendElement ==
  ASSUME NEW s \in Seq(Clients), NEW e \in Clients
  PROVE  /\ Append(s, e) \in Seq(Clients) /\ Len(Append(s, e)) = Len(s) + 1
         /\ ElementsOf(Append(s, e)) = ElementsOf(s) \cup {e}
         /\ Injective(s) /\ e \notin ElementsOf(s) => Injective(Append(s, e))
<1> DEFINE a == Append(s, e)
<1>1. /\ a \in Seq(Clients) /\ Len(a) = Len(s) + 1 /\ DOMAIN a = 1 .. Len(s) + 1
      /\ DOMAIN s = 1 .. Len(s) /\ Len(s) \in Nat
      /\ \A i \in 1 .. Len(s) : a[i] = s[i]
      /\ a[Len(s) + 1] = e
  BY AppendProperties, LenProperties
<1> HIDE DEF a
<1>2. ElementsOf(a) = ElementsOf(s) \cup {e}
  BY <1>1 DEF ElementsOf
<1>3. ASSUME Injective(s), e \notin ElementsOf(s) PROVE Injective(a)
  <2> SUFFICES ASSUME NEW i \in DOMAIN a, NEW j \in DOMAIN a, a[i] = a[j] PROVE i = j
    BY DEF Injective
  <2>1. CASE i \in DOMAIN s /\ j \in DOMAIN s
    BY <1>1, <1>3, <2>1 DEF Injective
  <2>2. CASE i \notin DOMAIN s \/ j \notin DOMAIN s
    BY <1>1, <1>3, <2>2 DEF ElementsOf
  <2> QED
    BY <2>1, <2>2
<1> QED
  BY <1>1, <1>2, <1>3 DEF a

(* Taking the first request out of a queue.                                *)
LEMMA TakeElement ==
  ASSUME NEW s \in Seq(Clients), s # << >>
  PROVE  /\ Head(s) \in ElementsOf(s) /\ Head(s) \in Clients
         /\ Tail(s) \in Seq(Clients) /\ Len(Tail(s)) = Len(s) - 1 /\ Len(s) > 0
         /\ ElementsOf(s) = {Head(s)} \cup ElementsOf(Tail(s))
         /\ Injective(s) => Injective(Tail(s)) /\ Head(s) \notin ElementsOf(Tail(s))
<1> DEFINE t == Tail(s)
<1>1. /\ Len(s) \in Nat \ {0} /\ DOMAIN s = 1 .. Len(s)
      /\ t \in Seq(Clients) /\ Len(t) = Len(s) - 1 /\ DOMAIN t = 1 .. Len(t)
      /\ \A i \in 1 .. Len(t) : t[i] = s[i + 1]
      /\ Head(s) = s[1] /\ Head(s) \in Clients
  BY HeadTailProperties, LenProperties, EmptySeq
<1> HIDE DEF t
<1>2. Head(s) \in ElementsOf(s)
  BY <1>1 DEF ElementsOf
<1>3. ElementsOf(t) \subseteq ElementsOf(s)
  BY <1>1 DEF ElementsOf
<1>4. ASSUME NEW i \in DOMAIN s PROVE s[i] \in {Head(s)} \cup ElementsOf(t)
  <2>1. CASE i = 1
    BY <1>1, <2>1
  <2>2. CASE i # 1
    <3>1. i - 1 \in DOMAIN t /\ t[i - 1] = s[i]
      BY <1>1, <2>2
    <3> QED
      BY <3>1 DEF ElementsOf
  <2> QED
    BY <2>1, <2>2
<1>5. ElementsOf(s) = {Head(s)} \cup ElementsOf(t)
  BY <1>2, <1>3, <1>4 DEF ElementsOf
<1>6. ASSUME Injective(s) PROVE Injective(t) /\ Head(s) \notin ElementsOf(t)
  <2>1. ASSUME NEW i \in DOMAIN t, NEW j \in DOMAIN t, t[i] = t[j] PROVE i = j
    <3>1. s[i + 1] = s[j + 1] /\ i + 1 \in DOMAIN s /\ j + 1 \in DOMAIN s
      BY <1>1, <2>1
    <3> QED
      BY <1>1, <1>6, <3>1 DEF Injective
  <2>2. \A i \in DOMAIN t : t[i] # Head(s)
    BY <1>1, <1>6 DEF Injective
  <2> QED
    BY <2>1, <2>2 DEF Injective, ElementsOf
<1> QED
  BY <1>1, <1>2, <1>5, <1>6 DEF t

(* The empty queue, and a batch of one.                                    *)
LEMMA SmallSequences ==
  /\ ElementsOf(<< >>) = {} /\ Injective(<< >>) /\ Len(<< >>) = 0
  /\ << >> \in Seq(Clients)
  /\ \A c \in Clients : /\ <<c>> \in Seq(Clients) /\ Len(<<c>>) = 1
                        /\ ElementsOf(<<c>>) = {c} /\ Injective(<<c>>)
BY DEF ElementsOf, Injective

(* A sequence of length zero is empty.                                     *)
LEMMA EmptyLength ==
  ASSUME NEW s \in Seq(Clients)
  PROVE  Len(s) \in Nat /\ (Len(s) = 0 => s = << >>)
BY EmptySeq, LenProperties

-----------------------------------------------------------------------------
(* The steps                                                               *)

(* Nothing is queued, taken or promised at first.                          *)
LEMMA InitIInv == Init => IInv
<1> SUFFICES ASSUME Init PROVE IInv
  OBVIOUS
<1>1. UnfinishedExact
  <2>1. flag \in BOOLEAN /\ stop \in BOOLEAN
    BY DEF Init
  <2>2. Len(queue) = 0 /\ Len(batch) = 0 /\ queue \in Seq(Clients) /\ batch \in Seq(Clients)
    BY SmallSequences DEF Init
  <2> QED
    BY <2>1, <2>2, BatcherAssumption DEF Init, UnfinishedExact, TypeOK
<1>2. AnsweredAtMostOnce /\ ShutdownWaits
  BY DEF Init, AnsweredAtMostOnce, ShutdownWaits
<1>3. Places /\ Rounds /\ Serving /\ Promises
  BY SmallSequences
     DEF Init, Places, Fresh, Rounds, Serving, Loops, Joins, Promises, Queued, Taken
<1> QED
  BY <1>1, <1>2, <1>3 DEF IInv

(* A client that reads the flag, or finds the queue full, moves nothing.   *)
LEMMA ClientStep ==
  ASSUME IInv, NEW c \in Clients, CheckFlag(c) \/ PutTimesOut(c)
  PROVE  IInv'
<1> USE DEF IInv
<1>1. /\ client[c] \in {"new", "checked"}
      /\ UNCHANGED <<answers, callback, queueVars, workerVars, shutdownVars>>
      /\ \E v \in {"rejected", "checked", "full"} : client' = [client EXCEPT ![c] = v]
  BY DEF CheckFlag, PutTimesOut
<1>2. \A d \in Clients : client[d] = "accepted" <=> client'[d] = "accepted"
  BY <1>1 DEF UnfinishedExact, TypeOK
<1>3. UnfinishedExact'
  BY <1>1 DEF UnfinishedExact, TypeOK, queueVars, workerVars, shutdownVars
<1>4. AnsweredAtMostOnce' /\ ShutdownWaits'
  BY <1>1, <1>2 DEF AnsweredAtMostOnce, ShutdownWaits, shutdownVars
<1>5. Queued \subseteq Clients /\ Taken \subseteq Clients
  BY DEF UnfinishedExact, TypeOK, Queued, Taken, ElementsOf
<1>6. Queued' = Queued /\ Taken' = Taken
  BY <1>1 DEF Queued, Taken, queueVars, workerVars
<1>7. Places' /\ Rounds' /\ Promises'
  BY <1>1, <1>2, <1>5, <1>6
     DEF Places, Fresh, Served, Rounds, Promises, queueVars, workerVars, shutdownVars
<1>8. Serving'
  BY <1>1 DEF Serving, Fresh, Served, workerVars
<1> QED
  BY <1>3, <1>4, <1>7, <1>8

(* An accepted request joins the queue; it was nowhere before.             *)
LEMMA PutStep == ASSUME IInv, NEW c \in Clients, Put(c) PROVE IInv'
<1> USE DEF IInv
<1>1. /\ client[c] = "checked" /\ client' = [client EXCEPT ![c] = "accepted"]
      /\ Len(queue) < MaxQueueSize /\ queue' = Append(queue, c) /\ unfinished' = unfinished + 1
      /\ UNCHANGED <<answers, callback, workerVars, shutdownVars>>
  BY DEF Put
<1>2. /\ queue \in Seq(Clients) /\ batch \in Seq(Clients)
      /\ client \in [Clients -> {"new", "checked", "accepted", "rejected", "full"}]
      /\ answers \in [Clients -> Nat]
  BY DEF UnfinishedExact, TypeOK
<1>3. c \notin Queued /\ c \notin Taken /\ Fresh(c)
  BY <1>1 DEF Places
<1>4. /\ queue' \in Seq(Clients) /\ Len(queue') = Len(queue) + 1
      /\ Queued' = Queued \cup {c} /\ Injective(queue') /\ Taken' = Taken
  BY <1>1, <1>2, <1>3, AppendElement DEF Places, Queued, Taken, workerVars
<1>5. UnfinishedExact'
  BY <1>1, <1>2, <1>4, EmptyLength, BatcherAssumption
     DEF UnfinishedExact, TypeOK, workerVars, shutdownVars
<1>6. AnsweredAtMostOnce' /\ ShutdownWaits'
  BY <1>1, <1>2, <1>3 DEF AnsweredAtMostOnce, ShutdownWaits, Fresh, shutdownVars
<1>7. \A d \in Clients : client[d] = "accepted" => client'[d] = "accepted"
  BY <1>1, <1>2
<1>8. Places'
  BY <1>1, <1>2, <1>3, <1>4, <1>7 DEF Places, Fresh, workerVars
<1>9. Rounds' /\ Serving' /\ Promises'
  BY <1>1, <1>4 DEF Rounds, Serving, Promises, Fresh, Served, workerVars, shutdownVars
<1> QED
  BY <1>5, <1>6, <1>8, <1>9

(* The head of the worker's loop.                                          *)
LEMMA CheckStep == ASSUME IInv, WorkerChecksStop PROVE IInv'
BY DEF IInv, WorkerChecksStop, UnfinishedExact, TypeOK, AnsweredAtMostOnce, ShutdownWaits,
   Places, Fresh, Served, Rounds, Serving, Loops, Joins, Promises, Queued, Taken, clientVars,
   queueVars, shutdownVars

(* The worker takes a request: it leaves the queue for the batch.          *)
LEMMA TakeStep ==
  ASSUME IInv, queue # << >>, queue' = Tail(queue), workerPc' = "fill",
         \/ workerPc = "get" /\ batch' = <<Head(queue)>>
         \/ workerPc = "fill" /\ batch' = Append(batch, Head(queue)) /\ Len(batch) < MaxBatchSize,
         UNCHANGED <<clientVars, unfinished, at, shutdownVars>>
  PROVE  IInv'
<1> USE DEF IInv
<1> DEFINE h == Head(queue)
<1>1. /\ queue \in Seq(Clients) /\ batch \in Seq(Clients)
      /\ Len(batch) \in Nat /\ Len(batch) <= MaxBatchSize /\ Len(queue) <= MaxQueueSize
      /\ unfinished = Len(queue) + Len(batch)
  BY EmptyLength DEF UnfinishedExact, TypeOK
<1>2. /\ h \in Queued /\ h \in Clients /\ queue' \in Seq(Clients)
      /\ Len(queue') = Len(queue) - 1 /\ Len(queue) > 0 /\ Len(queue) \in Nat
      /\ Queued = {h} \cup Queued' /\ Injective(queue') /\ h \notin Queued'
  BY <1>1, TakeElement, EmptyLength DEF Places, Queued
<1>3. h \notin Taken /\ client[h] = "accepted" /\ Fresh(h)
  BY <1>2 DEF Places
<1> HIDE DEF h
<1>4. /\ batch' \in Seq(Clients) /\ Len(batch') = Len(batch) + 1 /\ Len(batch') <= MaxBatchSize
      /\ Taken' = Taken \cup {h} /\ Injective(batch')
  <2>1. CASE workerPc = "get" /\ batch' = <<h>>
    <3>1. batch = << >>
      BY <2>1 DEF Rounds
    <3> QED
      BY <2>1, <3>1, <1>2, SmallSequences, BatcherAssumption DEF Taken
  <2>2. CASE batch' = Append(batch, h) /\ Len(batch) < MaxBatchSize
    BY <2>2, <1>1, <1>2, <1>3, AppendElement, BatcherAssumption DEF Taken, Places
  <2> QED
    BY <2>1, <2>2 DEF h
<1>5. UnfinishedExact'
  <2>1. unfinished' = Len(queue') + Len(batch') /\ unfinished' \in Nat /\ Len(queue') <= MaxQueueSize
    BY <1>1, <1>2, <1>4, BatcherAssumption
  <2> QED
    BY <1>2, <1>4, <2>1 DEF UnfinishedExact, TypeOK, clientVars, shutdownVars
<1>6. AnsweredAtMostOnce' /\ ShutdownWaits'
  BY DEF AnsweredAtMostOnce, ShutdownWaits, clientVars, shutdownVars
<1>7. Places'
  BY <1>2, <1>3, <1>4 DEF Places, Fresh, clientVars
<1>8. Rounds' /\ Serving'
  <2>1. (\A c \in Taken : Fresh(c)) /\ at = 1
    BY SmallSequences DEF Rounds, Taken
  <2> QED
    BY <2>1, <1>3, <1>4 DEF Rounds, Serving, Loops, Joins, Fresh, clientVars
<1>9. Promises'
  BY <1>2, <1>4 DEF Promises, Served, clientVars, shutdownVars
<1> QED
  BY <1>5, <1>6, <1>7, <1>8, <1>9

(* Otherwise the worker only moves on: it finds nothing, has its batch,    *)
(* comes back from generate(), or cannot read a response.                  *)
LEMMA MoveStep ==
  ASSUME IInv, UNCHANGED <<clientVars, queueVars, batch, at, shutdownVars>>,
         \/ workerPc = "get" /\ workerPc' = "check"
         \/ workerPc = "fill" /\ workerPc' = "generate"
         \/ workerPc = "generate" /\ workerPc' \in Loops
         \/ workerPc = "distribute" /\ workerPc' = "report" /\ at \in DOMAIN batch
  PROVE  IInv'
<1> USE DEF IInv
<1>1. UnfinishedExact' /\ AnsweredAtMostOnce' /\ ShutdownWaits'
  BY DEF UnfinishedExact, TypeOK, AnsweredAtMostOnce, ShutdownWaits, Loops, clientVars,
         queueVars, shutdownVars
<1>2. Places' /\ Rounds' /\ Promises'
  BY DEF Places, Fresh, Served, Rounds, Promises, Queued, Taken, Loops, clientVars, queueVars,
         shutdownVars
<1>3. Serving'
  <2>1. DOMAIN batch = 1 .. Len(batch) /\ Len(batch) \in Nat
    BY LenProperties DEF UnfinishedExact, TypeOK
  <2>2. CASE workerPc = "generate"
    <3>1. at = 1 /\ \A j \in DOMAIN batch : Fresh(batch[j])
      BY <2>2 DEF Rounds, Taken, ElementsOf
    <3> QED
      BY <2>1, <2>2, <3>1 DEF Serving, Fresh, Served, Loops, Joins, clientVars
  <2>3. CASE workerPc # "generate"
    BY <2>1, <2>3 DEF Serving, Fresh, Served, Loops, Joins, clientVars
  <2> QED
    BY <2>2, <2>3
<1> QED
  BY <1>1, <1>2, <1>3

(* A step of a loop over the batch, which concerns the request it is at    *)
(* and no other, keeps the invariant: it is served and the loop goes on,   *)
(* or it was fresh and its callback is under way.                          *)
LEMMA LoopStep ==
  ASSUME IInv, at \in DOMAIN batch, workerPc \in Loops \cup Joins \cup {"report"},
         UNCHANGED <<client, queueVars, batch, shutdownVars>>,
         answers' \in [Clients -> Nat],
         callback' \in [Clients -> {"none", "running", "late", "ended", "unstarted"}],
         \A d \in Clients : d # batch[at] => answers'[d] = answers[d] /\ callback'[d] = callback[d],
         \/ /\ workerPc' \in Loops /\ at' = at + 1
            /\ \/ answers'[batch[at]] = 1 /\ callback'[batch[at]] \in {"late", "ended"}
               \/ answers'[batch[at]] = 0 /\ callback'[batch[at]] = "unstarted"
         \/ /\ workerPc' \in Joins /\ at' = at /\ Fresh(batch[at])
            /\ answers'[batch[at]] = 1 /\ callback'[batch[at]] = "running"
  PROVE  IInv'
<1> USE DEF IInv
<1>0. PICK c \in Clients : c = batch[at]
  BY DEF UnfinishedExact, TypeOK
<1>1. /\ batch \in Seq(Clients) /\ DOMAIN batch = 1 .. Len(batch) /\ Len(batch) \in Nat
      /\ at \in 1 .. Len(batch) /\ at \in Nat
      /\ \A j \in DOMAIN batch : batch[j] \in Clients /\ (j # at => batch[j] # c)
  BY <1>0, LenProperties DEF UnfinishedExact, TypeOK, Places, Injective
<1>2. c \in Taken /\ c \notin Queued /\ client[c] = "accepted"
  BY <1>0, <1>1 DEF Places, Taken, ElementsOf
<1>3. Queued \subseteq Clients /\ Taken \subseteq Clients /\ promised \subseteq Clients
  BY DEF UnfinishedExact, TypeOK, Queued, Taken, ElementsOf
<1>4. Queued' = Queued /\ Taken' = Taken
  BY DEF Queued, Taken, queueVars
<1>5. \A d \in Clients : d # c => (Fresh(d)' <=> Fresh(d)) /\ (Served(d)' <=> Served(d))
  BY <1>0 DEF Fresh, Served
<1>6. UnfinishedExact'
  <2>1. /\ at' \in Nat
        /\ workerPc' \in {"distribute", "notify", "join_response", "join_notice"}
    BY <1>1 DEF Loops, Joins
  <2> QED
    BY <2>1 DEF UnfinishedExact, TypeOK, queueVars, shutdownVars
<1>7. AnsweredAtMostOnce'
  BY <1>0, <1>2 DEF AnsweredAtMostOnce
<1>8. ShutdownWaits'
  BY <1>0, <1>3 DEF ShutdownWaits, Fresh, shutdownVars
<1>9. Places'
  BY <1>2, <1>3, <1>4, <1>5 DEF Places, queueVars
<1>10. Rounds'
  BY DEF Rounds, Loops, Joins
<1>11. Promises'
  BY <1>2, <1>3, <1>4, <1>5 DEF Promises, shutdownVars
<1>12. Serving'
  <2>1. /\ \A j \in DOMAIN batch : /\ j < at => Served(batch[j])
                                   /\ j > at => Fresh(batch[j])
    BY DEF Serving
  <2>2. \A j \in DOMAIN batch : /\ j < at => Served(batch[j])'
                                /\ j > at => Fresh(batch[j])'
    BY <1>1, <1>5, <2>1 DEF Fresh, Served
  <2>3. CASE workerPc' \in Loops
    <3>1. workerPc' \notin Joins
      BY <2>3 DEF Loops, Joins
    <3>2. at' = at + 1 /\ Served(c)'
      BY <1>0, <3>1 DEF Served
    <3>3. \A j \in DOMAIN batch : /\ j < at + 1 => Served(batch[j])'
                                  /\ j > at => Fresh(batch[j])'
      <4> SUFFICES ASSUME NEW j \in DOMAIN batch PROVE (j < at + 1 => Served(batch[j])')
        BY <2>2
      <4>1. CASE j = at
        BY <1>0, <3>2, <4>1 DEF Served
      <4>2. CASE j # at
        BY <1>1, <2>2, <4>2
      <4> QED
        BY <4>1, <4>2
    <3> QED
      BY <1>1, <2>3, <3>2, <3>3 DEF Serving, Loops, Joins
  <2>4. CASE workerPc' \in Joins
    BY <1>1, <2>2, <2>4 DEF Serving, Fresh, Served, Loops, Joins
  <2> QED
    BY <2>3, <2>4
<1> QED
  BY <1>6, <1>7, <1>8, <1>9, <1>10, <1>11, <1>12

(* The request a loop has come to gets its callback, or none can be had.   *)
LEMMA CallbackStep ==
  ASSUME IInv, WorkerDistributes \/ WorkerReports \/ WorkerNotifies
  PROVE  IInv'
<1> USE DEF IInv
<1> DEFINE c == batch[at]
<1>1. /\ at \in DOMAIN batch /\ workerPc \in Loops \cup {"report"}
      /\ batch \in Seq(Clients) /\ Fresh(c) /\ c \in Clients
      /\ answers \in [Clients -> Nat]
      /\ callback \in [Clients -> {"none", "running", "late", "ended", "unstarted"}]
  BY DEF WorkerDistributes, WorkerReports, WorkerNotifies, Serving, Loops, Joins,
         UnfinishedExact, TypeOK
<1>2. CASE SafeCallback
  <2>1. UNCHANGED <<client, queueVars, batch, shutdownVars>>
    BY <1>2 DEF SafeCallback
  <2>2. CASE /\ answers' = [answers EXCEPT ![c] = @ + 1]
             /\ callback' = [callback EXCEPT ![c] = "running"]
             /\ workerPc' = IF workerPc = "notify" THEN "join_notice" ELSE "join_response"
             /\ UNCHANGED at
    <3>1. answers'[c] = 1 /\ callback'[c] = "running" /\ workerPc' \in Joins
      BY <1>1, <2>2 DEF Fresh, Joins
    <3> QED
      BY <1>1, <2>1, <2>2, <3>1, LoopStep
  <2>3. CASE /\ callback' = [callback EXCEPT ![c] = "unstarted"]
             /\ NextRequest /\ UNCHANGED answers
    <3>1. answers'[c] = 0 /\ callback'[c] = "unstarted" /\ workerPc' \in Loops /\ at' = at + 1
      BY <1>1, <2>3 DEF Fresh, NextRequest, Loops
    <3> QED
      BY <1>1, <2>1, <2>3, <3>1, LoopStep
  <2> QED
    BY <1>2, <2>2, <2>3 DEF SafeCallback
<1>3. CASE workerPc = "distribute" /\ workerPc' = "report"
           /\ UNCHANGED <<clientVars, queueVars, batch, at, shutdownVars>>
  BY <1>1, <1>3, MoveStep
<1> QED
  BY <1>2, <1>3 DEF WorkerDistributes, WorkerReports, WorkerNotifies

(* The worker has waited for the callback long enough.                     *)
LEMMA JoinCallbackStep == ASSUME IInv, WorkerJoinsCallback PROVE IInv'
<1> USE DEF IInv
<1> DEFINE c == batch[at]
<1>1. /\ at \in DOMAIN batch /\ workerPc \in Joins /\ batch \in Seq(Clients) /\ c \in Clients
      /\ answers \in [Clients -> Nat] /\ answers[c] = 1 /\ callback[c] \in {"running", "ended"}
      /\ callback \in [Clients -> {"none", "running", "late", "ended", "unstarted"}]
  BY DEF WorkerJoinsCallback, Serving, Joins, UnfinishedExact, TypeOK
<1>2. /\ callback' = [callback EXCEPT ![c] = IF @ = "running" THEN "late" ELSE @]
      /\ answers' = answers /\ at' = at + 1 /\ workerPc' \in Loops
      /\ UNCHANGED <<client, queueVars, batch, shutdownVars>>
  BY DEF WorkerJoinsCallback, NextRequest, Loops
<1> HIDE DEF c
<1>3. /\ callback' \in [Clients -> {"none", "running", "late", "ended", "unstarted"}]
      /\ callback'[c] \in {"late", "ended"}
      /\ \A d \in Clients : d # c => callback'[d] = callback[d]
  BY <1>1, <1>2
<1> QED
  BY <1>1, <1>2, <1>3, LoopStep DEF c

(* A callback ends in its own thread, in time or late.                     *)
LEMMA CallbackEndsStep == ASSUME IInv, NEW c \in Clients, CallbackEnds(c) PROVE IInv'
<1> USE DEF IInv
<1>1. /\ callback[c] \in {"running", "late"} /\ callback' = [callback EXCEPT ![c] = "ended"]
      /\ UNCHANGED <<client, answers, queueVars, workerVars, shutdownVars>>
  BY DEF CallbackEnds
<1>2. callback \in [Clients -> {"none", "running", "late", "ended", "unstarted"}]
  BY DEF UnfinishedExact, TypeOK
<1>3. /\ callback' \in [Clients -> {"none", "running", "late", "ended", "unstarted"}]
      /\ callback'[c] = "ended" /\ \A d \in Clients : d # c => callback'[d] = callback[d]
  BY <1>1, <1>2
<1>4. \A d \in Clients : (Fresh(d) => Fresh(d)') /\ (Served(d) => Served(d)')
  BY <1>1, <1>3 DEF Fresh, Served
<1>5. Queued \subseteq Clients /\ Taken \subseteq Clients /\ promised \subseteq Clients
  BY DEF UnfinishedExact, TypeOK, Queued, Taken, ElementsOf
<1>6. Queued' = Queued /\ Taken' = Taken
  BY <1>1 DEF Queued, Taken, queueVars, workerVars
<1>7. UnfinishedExact' /\ AnsweredAtMostOnce' /\ ShutdownWaits'
  BY <1>1, <1>3, <1>5
     DEF UnfinishedExact, TypeOK, AnsweredAtMostOnce, ShutdownWaits, queueVars, workerVars,
         shutdownVars
<1>8. Places' /\ Rounds' /\ Promises'
  BY <1>1, <1>4, <1>5, <1>6 DEF Places, Rounds, Promises, queueVars, workerVars, shutdownVars
<1>9. Serving'
  <2>1. \A j \in DOMAIN batch : batch[j] \in Clients
    BY DEF UnfinishedExact, TypeOK
  <2>2. \A j \in DOMAIN batch : /\ Fresh(batch[j]) => Fresh(batch[j])'
                                /\ Served(batch[j]) => Served(batch[j])'
    BY <1>1, <1>4, <2>1 DEF Fresh, Served, workerVars
  <2>3. callback[batch[at]] \in {"running", "ended"} /\ batch[at] \in Clients =>
          callback'[batch[at]] \in {"running", "ended"}
    BY <1>3
  <2> QED
    BY <1>1, <2>1, <2>2, <2>3 DEF Serving, workerVars
<1> QED
  BY <1>7, <1>8, <1>9

(* task_done: the loop is over, so the whole batch has been served; and    *)
(* the count covers it, so that task_done does not raise.                  *)
LEMMA DoneStep == ASSUME IInv, WorkerMarksDone PROVE IInv'
<1> USE DEF IInv
<1>1. /\ queue \in Seq(Clients) /\ batch \in Seq(Clients) /\ DOMAIN batch = 1 .. Len(batch)
      /\ Len(batch) \in Nat /\ Len(queue) \in Nat /\ at \in Nat
      /\ unfinished = Len(queue) + Len(batch)
  BY LenProperties DEF UnfinishedExact, TypeOK
<1>2. /\ workerPc \in Loops /\ at > Len(batch) /\ unfinished' = unfinished - Len(batch)
      /\ batch' = << >> /\ at' = 1 /\ workerPc' = "check"
      /\ UNCHANGED <<clientVars, queue, shutdownVars>>
  BY <1>1 DEF WorkerMarksDone, Loops, clientVars
<1>3. Queued' = Queued /\ Taken' = {}
  BY <1>2, SmallSequences DEF Queued, Taken
<1>4. \A c \in Taken : Served(c)
  BY <1>1, <1>2 DEF Serving, Taken, ElementsOf
<1>5. UnfinishedExact'
  BY <1>1, <1>2, SmallSequences, BatcherAssumption
     DEF UnfinishedExact, TypeOK, clientVars, shutdownVars
<1>6. AnsweredAtMostOnce' /\ ShutdownWaits'
  BY <1>2 DEF AnsweredAtMostOnce, ShutdownWaits, clientVars, shutdownVars
<1>7. Places' /\ Rounds' /\ Serving'
  BY <1>2, <1>3, SmallSequences DEF Places, Fresh, Rounds, Serving, Loops, Joins, clientVars
<1>8. Promises'
  BY <1>2, <1>3, <1>4 DEF Promises, Served, clientVars, shutdownVars
<1> QED
  BY <1>5, <1>6, <1>7, <1>8

(* A shutdown that waits promises what is queued or in the batch.          *)
LEMMA SetFlagStep == ASSUME IInv, SetFlag PROVE IInv'
<1> USE DEF IInv
<1>1. UNCHANGED <<clientVars, queueVars, workerVars, stop>> /\ flag' = TRUE /\ shutdownPc = "running"
  BY DEF SetFlag
<1>2. \/ shutdownPc' = "join" /\ promised' = Queued \cup Taken
      \/ shutdownPc' = "drain" /\ promised' = promised
  BY DEF SetFlag, Queued, Taken
<1>3. promised' \subseteq Clients
  BY <1>2 DEF UnfinishedExact, TypeOK, Queued, Taken, ElementsOf
<1>4. UnfinishedExact' /\ AnsweredAtMostOnce'
  BY <1>1, <1>2, <1>3 DEF UnfinishedExact, TypeOK, AnsweredAtMostOnce, clientVars, queueVars, workerVars
<1>5. Queued' = Queued /\ Taken' = Taken
  BY <1>1 DEF Queued, Taken, queueVars, workerVars
<1>6. Places' /\ Rounds' /\ Serving'
  BY <1>1, <1>5 DEF Places, Fresh, Served, Rounds, Serving, clientVars, queueVars, workerVars
<1>7. Promises' /\ ShutdownWaits'
  BY <1>1, <1>2, <1>5 DEF Promises, ShutdownWaits, Served, clientVars
<1> QED
  BY <1>4, <1>6, <1>7

(* join() returns when nothing is queued or taken: every promise is kept.  *)
LEMMA JoinStep == ASSUME IInv, JoinQueue \/ JoinWorker PROVE IInv'
<1> USE DEF IInv
<1>1. UNCHANGED <<clientVars, queueVars, workerVars, flag, promised>>
  BY DEF JoinQueue, JoinWorker
<1>2. Queued' = Queued /\ Taken' = Taken
  BY <1>1 DEF Queued, Taken, queueVars, workerVars
<1>3. /\ shutdownPc \in {"join", "join_worker"} /\ stop' = TRUE
      /\ shutdownPc' \in {"join_worker", "returned"}
  BY DEF JoinQueue, JoinWorker, Promises
<1>4. \A c \in promised : callback[c] \in {"ended", "late", "unstarted"}
  <2>1. CASE JoinWorker
    BY <2>1 DEF JoinWorker, Promises, ShutdownWaits
  <2>2. CASE JoinQueue
    <3>1. Len(queue) = 0 /\ Len(batch) = 0 /\ queue \in Seq(Clients) /\ batch \in Seq(Clients)
      BY <2>2, EmptyLength DEF JoinQueue, UnfinishedExact, TypeOK
    <3>2. Queued = {} /\ Taken = {}
      BY <3>1, EmptyLength, SmallSequences DEF Queued, Taken
    <3> QED
      BY <3>2 DEF Promises, Served
  <2> QED
    BY <2>1, <2>2
<1>5. UnfinishedExact' /\ AnsweredAtMostOnce' /\ ShutdownWaits'
  BY <1>1, <1>3, <1>4
     DEF UnfinishedExact, TypeOK, AnsweredAtMostOnce, ShutdownWaits, clientVars, queueVars, workerVars
<1>6. Places' /\ Rounds' /\ Serving'
  BY <1>1, <1>2 DEF Places, Fresh, Served, Rounds, Serving, clientVars, queueVars, workerVars
<1>7. Promises'
  BY <1>1, <1>2, <1>3 DEF Promises, Served, clientVars
<1> QED
  BY <1>5, <1>6, <1>7

(* A shutdown that does not wait has promised nothing.                     *)
LEMMA DrainStep == ASSUME IInv, DrainQueue PROVE IInv'
<1> USE DEF IInv
<1>1. shutdownPc = "drain" /\ UNCHANGED <<clientVars, workerVars, flag, promised>> /\ promised = {}
  BY DEF DrainQueue, Promises
<1>2. Serving'
  BY <1>1 DEF Serving, Fresh, Served, clientVars, workerVars
<1>3. CASE /\ queue # << >> /\ queue' = Tail(queue) /\ unfinished' = unfinished - 1
           /\ UNCHANGED <<stop, shutdownPc>>
  <2>1. /\ queue' \in Seq(Clients) /\ Len(queue') = Len(queue) - 1 /\ Len(queue) > 0
        /\ Queued' \subseteq Queued /\ Injective(queue') /\ Taken' = Taken
        /\ queue \in Seq(Clients) /\ batch \in Seq(Clients)
    BY <1>1, <1>3, TakeElement DEF UnfinishedExact, TypeOK, Places, Queued, Taken, workerVars
  <2>2. UnfinishedExact'
    BY <1>1, <1>3, <2>1, EmptyLength, BatcherAssumption
       DEF UnfinishedExact, TypeOK, clientVars, workerVars
  <2>3. AnsweredAtMostOnce' /\ ShutdownWaits'
    BY <1>1 DEF AnsweredAtMostOnce, ShutdownWaits, clientVars
  <2>4. Places' /\ Rounds' /\ Promises'
    BY <1>1, <1>3, <2>1 DEF Places, Fresh, Rounds, Promises, clientVars, workerVars
  <2> QED
    BY <1>2, <2>2, <2>3, <2>4
<1>4. CASE queue = << >> /\ stop' = TRUE /\ shutdownPc' = "join_worker" /\ UNCHANGED queueVars
  <2>1. UnfinishedExact' /\ AnsweredAtMostOnce' /\ ShutdownWaits'
    BY <1>1, <1>4
       DEF UnfinishedExact, TypeOK, AnsweredAtMostOnce, ShutdownWaits, clientVars, queueVars,
           workerVars
  <2>2. Places' /\ Rounds' /\ Promises'
    BY <1>1, <1>4
       DEF Places, Fresh, Rounds, Promises, Queued, Taken, clientVars, queueVars, workerVars
  <2> QED
    BY <1>2, <2>1, <2>2
<1> QED
  BY <1>3, <1>4 DEF DrainQueue

-----------------------------------------------------------------------------
(* The theorems                                                            *)

(* The invariant holds in every state of every behaviour.                  *)
THEOREM Invariant == Spec => []IInv
<1>1. IInv /\ [Next]_vars => IInv'
  <2> SUFFICES ASSUME IInv, [Next]_vars PROVE IInv'
    OBVIOUS
  <2>1. CASE \E c \in Clients : CheckFlag(c) \/ Put(c) \/ PutTimesOut(c) \/ CallbackEnds(c)
    BY <2>1, ClientStep, PutStep, CallbackEndsStep
  <2>2. CASE WorkerGets \/ WorkerFills \/ WorkerGenerates
    BY <2>2, TakeStep, MoveStep
       DEF WorkerGets, WorkerFills, WorkerGenerates, CanFill, Loops, queueVars
  <2>3. CASE WorkerDistributes \/ WorkerReports \/ WorkerNotifies \/ WorkerJoinsCallback
    BY <2>3, CallbackStep, JoinCallbackStep
  <2>4. CASE WorkerChecksStop \/ WorkerMarksDone
    BY <2>4, CheckStep, DoneStep
  <2>5. CASE SetFlag \/ Shutdown
    BY <2>5, SetFlagStep, JoinStep, DrainStep DEF Shutdown
  <2>6. CASE UNCHANGED vars
    BY <2>6 DEF IInv, UnfinishedExact, TypeOK, AnsweredAtMostOnce, ShutdownWaits, Places, Fresh,
       Served, Rounds, Serving, Promises, Queued, Taken, vars, clientVars, queueVars, workerVars,
       shutdownVars
  <2> QED
    BY <2>1, <2>2, <2>3, <2>4, <2>5, <2>6 DEF Next, Worker, Terminated
<1> QED
  BY <1>1, InitIInv, PTL DEF Spec

(* The count that join() relies on is that of the requests queued or held  *)
(* in a batch (task_done in _process_batch and in shutdown).               *)
THEOREM CountExact == Spec => []UnfinishedExact
BY Invariant, PTL DEF IInv

(* No callback is called twice, and none for a request that was rejected,  *)
(* although generate() may fail as a whole or for one response, a callback *)
(* may raise or hang, and each of these has a handler that calls callbacks *)
(* (_process_batch, _process_queue).                                       *)
THEOREM OneAnswer == Spec => []AnsweredAtMostOnce
BY Invariant, PTL DEF IInv

(* shutdown(wait_for_pending=True) stops the worker only when what was     *)
(* pending is served (shutdown, _safe_callback).                           *)
THEOREM WaitsForPending == Spec => []ShutdownWaits
BY Invariant, PTL DEF IInv
===============================================================================
