---------------------------- MODULE BatchProcessor ----------------------------
(***************************************************************************)
(* The request batcher of low_bits_training/generate/batcher.py: client    *)
(* threads submit generation requests to a bounded queue, one worker       *)
(* thread answers them in batches, and some thread shuts the processor     *)
(* down, with or without waiting for what is pending.                      *)
(*                                                                         *)
(* Each client submits one request, and stands for it.  generate() may     *)
(* fail as a whole or for one request; a callback may raise, outlast its   *)
(* timeout, hang, or find no thread to run in.                             *)
(***************************************************************************)
EXTENDS Integers, Sequences, FiniteSets

CONSTANTS
  Clients,        \* threads that submit a request
  MaxBatchSize,   \* max_batch_size
  MaxQueueSize    \* max_queue_size

ASSUME BatcherAssumption ==
  /\ MaxBatchSize \in Nat \ {0} /\ MaxQueueSize \in Nat \ {0}

VARIABLES
  client,      \* where each client is in submit_request
  queue,       \* request_queue
  unfinished,  \* the queue's count of requests without task_done
  workerPc,    \* where the worker is in _process_queue
  batch,       \* the batch the worker holds
  at,          \* the request of the batch that a loop over it has come to
  answers,     \* how often each request's callback was called
  callback,    \* what has become of the thread of each request's callback
  flag,        \* shutdown_flag
  stop,        \* stop_event
  shutdownPc,  \* where the thread that shuts down is
  promised     \* history: the requests that a shutdown has to wait for

clientVars == <<client, answers, callback>>
queueVars == <<queue, unfinished>>
workerVars == <<workerPc, batch, at>>
shutdownVars == <<flag, stop, shutdownPc, promised>>
vars == <<clientVars, queueVars, workerVars, shutdownVars>>

ElementsOf(s) == {s[i] : i \in DOMAIN s}

Init ==
  /\ client = [c \in Clients |-> "new"]
  /\ answers = [c \in Clients |-> 0]
  /\ callback = [c \in Clients |-> "none"]
  /\ queue = << >> /\ unfinished = 0
  /\ workerPc = "check" /\ batch = << >> /\ at = 1
  /\ flag = FALSE /\ stop = FALSE
  /\ shutdownPc = "running" /\ promised = {}

-----------------------------------------------------------------------------
(* submit_request                                                          *)

\* The flag is read under shutdown_lock, which is released before the put.
CheckFlag(c) ==
  /\ client[c] = "new"
  /\ client' = [client EXCEPT ![c] = IF flag THEN "rejected" ELSE "checked"]
  /\ UNCHANGED <<answers, callback, queueVars, workerVars, shutdownVars>>

\* request_queue.put, which blocks while the queue is full.
Put(c) ==
  /\ client[c] = "checked"
  /\ Len(queue) < MaxQueueSize
  /\ queue' = Append(queue, c)
  /\ unfinished' = unfinished + 1
  /\ client' = [client EXCEPT ![c] = "accepted"]
  /\ UNCHANGED <<answers, callback, workerVars, shutdownVars>>

\* queue.Full after the timeout of a caller that gave one.
PutTimesOut(c) ==
  /\ client[c] = "checked"
  /\ Len(queue) = MaxQueueSize
  /\ client' = [client EXCEPT ![c] = "full"]
  /\ UNCHANGED <<answers, callback, queueVars, workerVars, shutdownVars>>

-----------------------------------------------------------------------------
(* The worker thread: _process_queue and _process_batch                    *)

\* The head of the loop.
WorkerChecksStop ==
  /\ workerPc = "check"
  /\ workerPc' = IF stop THEN "exited" ELSE "get"
  /\ UNCHANGED <<clientVars, queueVars, batch, at, shutdownVars>>

\* The first request of a batch, or queue.Empty after a second.
WorkerGets ==
  /\ workerPc = "get"
  /\ \/ /\ queue # << >>
        /\ batch' = <<Head(queue)>> /\ queue' = Tail(queue)
        /\ workerPc' = "fill"
     \/ /\ queue = << >>
        /\ workerPc' = "check"
        /\ UNCHANGED <<batch, queue>>
  /\ UNCHANGED <<clientVars, unfinished, at, shutdownVars>>

\* There is another request and room for it.
CanFill == queue # << >> /\ Len(batch) < MaxBatchSize

WorkerFills ==
  /\ workerPc = "fill"
  /\ \/ /\ CanFill
        /\ batch' = Append(batch, Head(queue)) /\ queue' = Tail(queue)
        /\ UNCHANGED workerPc
     \/ /\ ~CanFill
        /\ workerPc' = "generate"
        /\ UNCHANGED <<batch, queue>>
  /\ UNCHANGED <<clientVars, unfinished, at, shutdownVars>>

\* Deviation: nobody is told that generate() failed.
FailSilently ==
  /\ workerPc = "generate"
  /\ \/ workerPc' = "distribute" /\ UNCHANGED at
     \/ workerPc' = "notify" /\ at' = Len(batch) + 1
  /\ UNCHANGED <<clientVars, queueVars, batch, shutdownVars>>

\* generate() returns responses, which are distributed; or it raises or returns no
\* valid result, of which every request of the batch is notified.
WorkerGenerates ==
  /\ workerPc = "generate"
  /\ workerPc' \in {"distribute", "notify"}
  /\ UNCHANGED <<clientVars, queueVars, batch, at, shutdownVars>>

\* A loop over the batch, in _process_batch, goes on to the next request.
NextRequest ==
  /\ at' = at + 1
  /\ workerPc' = IF workerPc \in {"notify", "join_notice"} THEN "notify" ELSE "distribute"

\* _safe_callback starts a thread that calls the callback; where it cannot, the
\* exception is swallowed and the loop goes on.
SafeCallback ==
  /\ \/ /\ answers' = [answers EXCEPT ![batch[at]] = @ + 1]
        /\ callback' = [callback EXCEPT ![batch[at]] = "running"]
        /\ workerPc' = IF workerPc = "notify" THEN "join_notice" ELSE "join_response"
        /\ UNCHANGED at
     \/ /\ callback' = [callback EXCEPT ![batch[at]] = "unstarted"]
        /\ NextRequest
        /\ UNCHANGED answers
  /\ UNCHANGED <<client, queueVars, batch, shutdownVars>>

\* Deviation: with too few responses the last requests are skipped.
SkipMissing ==
  /\ workerPc = "distribute" /\ at \in DOMAIN batch
  /\ \/ SafeCallback
     \/ NextRequest /\ UNCHANGED <<clientVars, queueVars, batch, shutdownVars>>

\* The response, or the notice that there are too few of them, goes to the
\* callback; or the response cannot be read, which raises before any callback.
WorkerDistributes ==
  /\ workerPc = "distribute" /\ at \in DOMAIN batch
  /\ \/ SafeCallback
     \/ /\ workerPc' = "report"
        /\ UNCHANGED <<clientVars, queueVars, batch, at, shutdownVars>>

\* Deviation: the exception is left to the handler around the whole batch.
RaiseFromLoop ==
  /\ workerPc = "report"
  /\ workerPc' = "notify" /\ at' = 1
  /\ UNCHANGED <<clientVars, queueVars, batch, shutdownVars>>

\* The handler inside the loop tells this request of the exception.
WorkerReports ==
  /\ workerPc = "report"
  /\ SafeCallback

\* The handler around the batch, or the else branch, tells each request.
WorkerNotifies ==
  /\ workerPc = "notify" /\ at \in DOMAIN batch
  /\ SafeCallback

\* callback_thread.join: the callback has ended, or callback_timeout is over.
WorkerJoinsCallback ==
  /\ workerPc \in {"join_response", "join_notice"}
  /\ callback' = [callback EXCEPT ![batch[at]] = IF @ = "running" THEN "late" ELSE @]
  /\ NextRequest
  /\ UNCHANGED <<client, answers, queueVars, batch, shutdownVars>>

\* A callback returns or raises, in its own thread, which catches everything.
CallbackEnds(c) ==
  /\ callback[c] \in {"running", "late"}
  /\ callback' = [callback EXCEPT ![c] = "ended"]
  /\ UNCHANGED <<client, answers, queueVars, workerVars, shutdownVars>>

\* Deviation: task_done is called once for the whole batch.
MarksBatchDone ==
  /\ workerPc \in {"distribute", "notify"} /\ at > Len(batch)
  /\ unfinished' = unfinished - 1
  /\ batch' = << >> /\ at' = 1
  /\ workerPc' = "check"
  /\ UNCHANGED <<clientVars, queue, shutdownVars>>

\* The finally clause: task_done for each request of the batch.  Were it called too
\* often it would raise, out of _process_batch into the handler of _process_queue;
\* this one calls the first callback itself, and its own task_done ends the thread.
WorkerMarksDone ==
  /\ workerPc \in {"distribute", "notify"} /\ at > Len(batch)
  /\ IF unfinished >= Len(batch)
     THEN /\ unfinished' = unfinished - Len(batch)
          /\ workerPc' = "check"
          /\ UNCHANGED answers
     ELSE /\ unfinished' = 0
          /\ workerPc' = "exited"
          /\ answers' = [answers EXCEPT ![batch[1]] = @ + 1]
  /\ batch' = << >> /\ at' = 1
  /\ UNCHANGED <<client, callback, queue, shutdownVars>>

-----------------------------------------------------------------------------
(* shutdown                                                                *)

\* shutdown(wait_for_pending=True) or (False) begins.
SetFlag ==
  /\ shutdownPc = "running"
  /\ flag' = TRUE
  /\ \/ /\ shutdownPc' = "join"
        /\ promised' = ElementsOf(queue) \cup ElementsOf(batch)
     \/ /\ shutdownPc' = "drain"
        /\ UNCHANGED promised
  /\ UNCHANGED <<clientVars, queueVars, workerVars, stop>>

\* request_queue.join, then stop_event.set.
JoinQueue ==
  /\ shutdownPc = "join" /\ unfinished = 0
  /\ stop' = TRUE
  /\ shutdownPc' = "join_worker"
  /\ UNCHANGED <<clientVars, queueVars, workerVars, flag, promised>>

\* Deviation: requests are taken out without task_done.
DrainSilently ==
  /\ shutdownPc = "drain"
  /\ \/ /\ queue # << >>
        /\ queue' = Tail(queue)
        /\ UNCHANGED <<unfinished, stop, shutdownPc>>
     \/ /\ queue = << >>
        /\ stop' = TRUE
        /\ shutdownPc' = "join_worker"
        /\ UNCHANGED queueVars
  /\ UNCHANGED <<clientVars, workerVars, flag, promised>>

\* Without waiting the queue is emptied; its requests get no answer.
DrainQueue ==
  /\ shutdownPc = "drain"
  /\ \/ /\ queue # << >>
        /\ queue' = Tail(queue)
        /\ unfinished' = unfinished - 1
        /\ UNCHANGED <<stop, shutdownPc>>
     \/ /\ queue = << >>
        /\ stop' = TRUE
        /\ shutdownPc' = "join_worker"
        /\ UNCHANGED queueVars
  /\ UNCHANGED <<clientVars, workerVars, flag, promised>>

\* worker_thread.join returns: the worker has exited, or the timeout is over.
JoinWorker ==
  /\ shutdownPc = "join_worker"
  /\ shutdownPc' = "returned"
  /\ UNCHANGED <<clientVars, queueVars, workerVars, flag, stop, promised>>

Terminated ==
  /\ shutdownPc = "returned" /\ workerPc = "exited"
  /\ UNCHANGED vars

Worker ==
  \/ WorkerChecksStop \/ WorkerGets \/ WorkerFills \/ WorkerGenerates
  \/ WorkerDistributes \/ WorkerReports \/ WorkerNotifies
  \/ WorkerJoinsCallback \/ WorkerMarksDone

Shutdown == JoinQueue \/ DrainQueue \/ JoinWorker

Next ==
  \/ \E c \in Clients : CheckFlag(c) \/ Put(c) \/ PutTimesOut(c) \/ CallbackEnds(c)
  \/ Worker
  \/ SetFlag \/ Shutdown
  \/ Terminated

\* The worker runs, generate() ends, and a shutdown once begun goes on; nobody has
\* to submit or to shut down, and a callback may hang.
Fairness == WF_vars(Worker) /\ WF_vars(Shutdown)

Spec == Init /\ [][Next]_vars /\ Fairness

-----------------------------------------------------------------------------
(* Properties                                                              *)

\* The values the variables range over.
TypeOK ==
  /\ client \in [Clients -> {"new", "checked", "accepted", "rejected", "full"}]
  /\ answers \in [Clients -> Nat]
  /\ queue \in Seq(Clients) /\ Len(queue) <= MaxQueueSize /\ unfinished \in Nat
  /\ callback \in [Clients -> {"none", "running", "late", "ended", "unstarted"}]
  /\ workerPc \in {"check", "get", "fill", "generate", "distribute", "report", "notify",
                   "join_response", "join_notice", "exited"}
  /\ batch \in Seq(Clients) /\ Len(batch) <= MaxBatchSize /\ at \in Nat
  /\ flag \in BOOLEAN /\ stop \in BOOLEAN
  /\ shutdownPc \in {"running", "join", "drain", "join_worker", "returned"}
  /\ promised \subseteq Clients

\* The queue's own count, on which join() relies, matches the requests that are
\* queued or held in a batch: each path that takes one out calls task_done once.
UnfinishedExact == TypeOK /\ unfinished = Len(queue) + Len(batch)

\* No callback is called twice, and none for a request that was not accepted: the
\* three handlers that notify requesters of an exception (in the loop over the
\* responses, around the batch, in _process_queue) never overlap.
AnsweredAtMostOnce ==
  \A c \in Clients : answers[c] <= IF client[c] = "accepted" THEN 1 ELSE 0

\* A shutdown that waits has the callback of every request that was pending when it
\* began ended, given up after callback_timeout, or without a thread to run in,
\* before the worker is told to stop; also when generate() has failed.
ShutdownWaits ==
  stop => \A c \in promised : callback[c] \in {"ended", "late", "unstarted"}

\* A request the worker has taken out of the queue is answered, whatever generate()
\* and the other callbacks do and however the shutdown runs against it, unless no
\* thread could be started for its callback.
TakenIsAnswered ==
  \A c \in Clients :
    c \in ElementsOf(batch) ~> answers[c] > 0 \/ callback[c] = "unstarted"

\* shutdown() returns and the worker ends, although join() has no timeout.
ShutdownEnds == flag ~> (shutdownPc = "returned" /\ workerPc = "exited")

\* The comment in shutdown(): setting the flag first prevents new submissions,
\* so nothing is left in the queue of a processor that was shut down.
NothingLeftBehind ==
  workerPc = "exited" /\ shutdownPc = "returned" => queue = << >>
===============================================================================
