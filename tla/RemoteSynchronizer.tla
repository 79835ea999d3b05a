-------------------------- MODULE RemoteSynchronizer --------------------------
(***************************************************************************)
(* The thread that uploads a job's folder with `aws s3 sync`, and the life *)
(* of the process around it: Trainer's constructor starts the thread,      *)
(* Trainer.close stops it, and main ends with os._exit, which kills it, or *)
(* without, and then the interpreter waits for it.                         *)
(*                                                                         *)
(* The folder is the number of files in it, since the program only uploads *)
(* and never removes a remote file.  An `aws` call lists the folder when   *)
(* it starts and ends at some later time, well or not.                     *)
(***************************************************************************)
EXTENDS Integers

CONSTANT Files      \* bound: files written in a behaviour

ASSUME SomeFiles == Files \in Nat \ {0}

VARIABLES
  options,   \* [fastExit: USE_LBT_SAFE_FAST_EXIT, aligned: save_aligned_checkpoint]
  at,        \* where main is
  status,    \* _status_loop
  thread,    \* where _synchronize_loop is
  call,      \* its _synchronize is one of the loop's rounds, or the last
  local, listed, remote,   \* files in the folder, in aws's listing, uploaded
  lastCall,  \* how the last _synchronize ended
  due        \* files in the folder when stop() was called

main == <<options, at, due>>
loop == <<thread, call, lastCall>>
files == <<local, listed, remote>>
syncVars == <<main, status, loop, files>>

SyncInit ==
  /\ options \in [fastExit : BOOLEAN, aligned : BOOLEAN]
  /\ at = "construct" /\ due = 0
  /\ status = "INIT"
  /\ thread = "none" /\ call = "round" /\ lastCall = "none"
  /\ local = 0 /\ listed = 0 /\ remote = 0

Goto(a, b) == at = a /\ at' = b
-----------------------------------------------------------------------------
(* main.                                                                   *)

(* A constructor that raises leaves `trainer` unset: nothing is closed.    *)
ConstructorRaises ==
  /\ Goto("construct", "finish")
  /\ UNCHANGED <<options, due, status, loop, files>>

Start ==
  /\ Goto("construct", "started")
  /\ status' = "RUNNING" /\ thread' = "test"
  /\ UNCHANGED <<options, due, call, lastCall, files>>

(* save_aligned_checkpoint calls a method that Trainer does not have.      *)
ConstructorReturns ==
  /\ Goto("started", IF options.aligned THEN "finish" ELSE "train")
  /\ UNCHANGED <<options, due, status, loop, files>>

(* The trainer, the other ranks of the node and close() itself write.      *)
WriteFile ==
  /\ at \notin {"construct", "ended"} /\ local < Files
  /\ local' = local + 1
  /\ UNCHANGED <<main, status, loop, listed, remote>>

(* train() returns or raises: main closes the trainer in either case.      *)
TrainEnds ==
  /\ Goto("train", "close")
  /\ UNCHANGED <<options, due, status, loop, files>>

(* The checkpointer's or the metrics' close raises: so does main, past     *)
(* stop() and past the fast exit.                                          *)
CloseRaises ==
  /\ Goto("close", "unwound")
  /\ UNCHANGED <<options, due, status, loop, files>>

Stop ==
  /\ Goto("close", "waiting")
  /\ due' = local
  /\ status' = "EXITING"
  /\ UNCHANGED <<options, loop, files>>

WaitedEnoughDeviation == at = "waiting"
WaitedEnough == at = "waiting" /\ status # "EXITING"
StopReturns ==
  /\ WaitedEnough
  /\ at' = "finish"
  /\ UNCHANGED <<options, due, status, loop, files>>

(* The end of the finally block.                                           *)
Finish ==
  /\ at = "finish"
  /\ IF options.fastExit
     THEN at' = "ended" /\ thread' = IF thread \in {"none", "returned"} THEN thread ELSE "killed"
     ELSE at' = "unwound" /\ UNCHANGED thread
  /\ UNCHANGED <<options, due, status, call, lastCall, files>>

(* The interpreter joins the threads that are not daemons.                 *)
InterpreterExits ==
  /\ Goto("unwound", "ended") /\ thread \in {"none", "returned"}
  /\ UNCHANGED <<options, due, status, loop, files>>
-----------------------------------------------------------------------------
(* The thread.                                                             *)

(* The test of the while loop, and the dry run's start: another round, or  *)
(* the last call.                                                          *)
TestAndList ==
  /\ thread = "test" /\ at # "ended"
  /\ call' = IF status = "RUNNING" THEN "round" ELSE "last"
  /\ thread' = "list" /\ listed' = local
  /\ UNCHANGED <<main, status, lastCall, local, remote>>

StatusAfterDeviation(outcome) == IF call = "last" /\ outcome = "ok" THEN "EXITED" ELSE status
StatusAfter(outcome) == IF call = "last" THEN "EXITED" ELSE status
(* _synchronize returns or raises: the loop sleeps, or is over.            *)
CallEnds(outcome) ==
  /\ lastCall' = outcome
  /\ thread' = IF call = "last" THEN "returned" ELSE "sleep"
  /\ status' = StatusAfter(outcome)
  /\ UNCHANGED <<main, call, local>>

NothingNew ==
  /\ thread = "list" /\ at # "ended" /\ listed = remote
  /\ CallEnds("ok") /\ UNCHANGED <<listed, remote>>

DryRunFails ==
  /\ thread = "list" /\ at # "ended"
  /\ CallEnds("failed") /\ UNCHANGED <<listed, remote>>

(* The upload lists the folder again.                                      *)
UploadStarts ==
  /\ thread = "list" /\ at # "ended" /\ listed # remote
  /\ thread' = "upload" /\ listed' = local
  /\ UNCHANGED <<main, status, call, lastCall, local, remote>>

UploadDone ==
  /\ thread = "upload" /\ at # "ended"
  /\ remote' = listed
  /\ CallEnds("ok") /\ UNCHANGED listed

(* It may have got any part of the way.  The callback only logs.           *)
UploadFails ==
  /\ thread = "upload" /\ at # "ended"
  /\ remote' \in remote .. listed
  /\ CallEnds("failed") /\ UNCHANGED listed

(* The ticks, cut short when the loop is to end.                           *)
Wake ==
  /\ thread = "sleep" /\ at # "ended"
  /\ thread' = "test"
  /\ UNCHANGED <<main, status, call, lastCall, files>>
-----------------------------------------------------------------------------
Main == \/ ConstructorRaises \/ Start \/ ConstructorReturns \/ TrainEnds
        \/ CloseRaises \/ Stop \/ StopReturns \/ Finish \/ InterpreterExits
Thread == \/ TestAndList \/ NothingNew \/ DryRunFails \/ UploadStarts
          \/ UploadDone \/ UploadFails \/ Wake

SyncNext == Main \/ Thread \/ WriteFile

SyncSpec == SyncInit /\ [][SyncNext]_syncVars

(* Training ends, and an `aws` call does; the scheduler runs both threads. *)
SyncFairSpec == SyncSpec /\ WF_syncVars(Main) /\ WF_syncVars(Thread)
-----------------------------------------------------------------------------
Statuses == {"INIT", "RUNNING", "EXITING", "EXITED"}
SyncTypeOK ==
  /\ status \in Statuses /\ call \in {"round", "last"}
  /\ lastCall \in {"none", "ok", "failed"}
  /\ at \in {"construct", "started", "train", "close", "waiting", "finish", "unwound", "ended"}
  /\ thread \in {"none", "test", "list", "upload", "sleep", "returned", "killed"}
  /\ local \in 0 .. Files /\ listed \in 0 .. local /\ remote \in 0 .. local
  /\ due \in 0 .. local

(* No data is left behind, the comment at the last call: once stop() has   *)
(* returned, every file that was in the folder when it was called has been *)
(* uploaded, unless the last upload itself failed; and os._exit never cuts *)
(* an upload short of a trainer that was closed.                           *)
StopReturned == status \in {"EXITING", "EXITED"} /\ at \in {"finish", "unwound", "ended"}
NoDataLeftBehind ==
  /\ SyncTypeOK
  /\ StopReturned => /\ thread = "returned"
                     /\ lastCall = "ok" => remote >= due

(* The process ends, whether or not the last upload succeeds.  It is only  *)
(* abandoned, with the thread uploading for ever, when close() raises      *)
(* before it comes to stop(), or when the constructor raises after it has  *)
(* started the thread and the fast exit is switched off.                   *)
Abandoned ==
  /\ at = "unwound" /\ status = "RUNNING"
  /\ options.aligned => ~options.fastExit
ProcessEnds == <>(at = "ended" \/ Abandoned)
=============================================================================
