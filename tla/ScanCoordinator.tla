---------------------------- MODULE ScanCoordinator ----------------------------
(***************************************************************************)
(* application/scan_coordinator.py: at most one scan at a time and one     *)
(* merged request behind it; application/scan_scheduler.py and the initial *)
(* scan, which ask for scans on their own; and the shutdown of runtime.py. *)
(* What a scan does to the document is module FindingScan.                 *)
(*                                                                         *)
(* The steps of the runner are the stretches between its awaits.  A        *)
(* projection hook calls the listeners of the runtime projection, which    *)
(* may raise.                                                              *)
(***************************************************************************)
EXTENDS Integers

CONSTANTS
  Callers,            \* manual requests: buttons, services, webhooks, repairs
  MaxFailures,        \* bound on failing steps of a scan
  MaxRaises           \* bound on projection hooks that raise

Timer == "timer"      \* ScanScheduler._tick
Initial == "initial"  \* HamieRuntime._async_initial_scan
Requesters == Callers \union {Timer, Initial}

VARIABLES
  request,            \* where each request is
  active, pending,    \* _active_waiters, _pending_waiters
  runner,             \* where the scan task is; "none" when there is none
  phase,              \* HamieRuntime: up, or how far its shutdown is
  closed,             \* ScanScheduler._closed
  unseen,             \* history: requests made since the last capture began
  stale,              \* history: requests answered from an earlier capture
  failures, raises    \* mishaps so far

history == <<unseen, stale>>
mishaps == <<failures, raises>>
scanVars == <<request, active, pending, runner, phase, closed, history, mishaps>>

RequestStates ==
  {"idle", "armed", "waiting", "answered", "failed", "cancelled", "refused"}

RunnerStates == {"none", "load", "capture", "commit", "sync", "fail", "queue"}

ScanTypeOK ==
  /\ request \in [Requesters -> RequestStates]
  /\ active \in SUBSET Requesters
  /\ pending \in SUBSET Requesters
  /\ active \intersect pending = {}
  /\ runner = "none" /\ phase = "up" => active = {}
  /\ runner \in RunnerStates
  /\ phase \in {"up", "stopping", "cancelling", "down"}
  /\ closed \in BOOLEAN
  /\ unseen \in SUBSET Requesters
  /\ stale \in SUBSET Requesters
  /\ failures \in 0 .. MaxFailures
  /\ raises \in 0 .. MaxRaises

(* async_initialize has armed the scheduler and the initial scan. *)
ScanInit ==
  /\ request = [r \in Requesters |-> IF r \in {Timer, Initial} THEN "armed" ELSE "idle"]
  /\ active = {} /\ pending = {}
  /\ runner = "none"
  /\ phase = "up" /\ closed = FALSE
  /\ unseen = {} /\ stale = {}
  /\ failures = 0 /\ raises = 0

Waiting(r) == request[r] = "waiting"

Failure == failures < MaxFailures /\ failures' = failures + 1

Raise == raises < MaxRaises /\ raises' = raises + 1

-----------------------------------------------------------------------------
(* Requests                                                                  *)

(* async_request_scan, under the lock: the first request of a new runner, or
   merged into the one pending request behind it, which the projection is then
   told of. *)
Join_Running(r) ==
  IF runner = "none"
  THEN active' = {r} /\ runner' = "load" /\ UNCHANGED pending
  ELSE active' = active \union {r} /\ UNCHANGED <<pending, runner>>

Join(r) ==
  IF runner = "none"
  THEN active' = {r} /\ runner' = "load" /\ UNCHANGED pending
  ELSE pending' = pending \union {r} /\ UNCHANGED <<active, runner>>

(* A timer asks only before it is stopped; a caller may still hold the runtime
   after its shutdown, as a repair does that was under way.  A waiter left behind
   by a raising hook is served before its caller asks again. *)
Request(r) ==
  /\ request[r] \in {"idle", "armed"}
  /\ r \notin active \union pending
  /\ r \in {Timer, Initial} => phase = "up"
  /\ IF phase = "cancelling"
     THEN request' = [request EXCEPT ![r] = "refused"]
          /\ UNCHANGED <<active, pending, runner, raises>>
     ELSE /\ Join(r)
          /\ \/ request' = [request EXCEPT ![r] = "waiting"] /\ UNCHANGED raises
             \/ /\ runner # "none" /\ Raise
                /\ request' = [request EXCEPT ![r] = "failed"]
  /\ unseen' = unseen \union {r}
  /\ stale' = stale \ {r}
  /\ UNCHANGED <<phase, closed, failures>>

(* _tick after its request: armed again, unless the scheduler was stopped.  A
   cancellation is no Exception and ends it. *)
Rearm_Always == request[Timer] \in {"answered", "failed", "refused"}

Rearm == request[Timer] \in {"answered", "failed", "refused"} /\ ~closed

TickEnds ==
  /\ Rearm
  /\ request' = [request EXCEPT ![Timer] = "armed"]
  /\ UNCHANGED <<active, pending, runner, phase, closed, history, mishaps>>

(* A caller that got its answer may ask again. *)
AskAgain(r) ==
  /\ request[r] \in {"answered", "failed"}
  /\ phase = "up"
  /\ request' = [request EXCEPT ![r] = "idle"]
  /\ UNCHANGED <<active, pending, runner, phase, closed, history, mishaps>>

-----------------------------------------------------------------------------
(* The runner                                                                *)

(* _execute: the document is loaded and the start is published. *)
LoadState ==
  /\ runner = "load"
  /\ \/ runner' = "capture" /\ UNCHANGED mishaps
     \/ Failure /\ runner' = "fail" /\ UNCHANGED raises
     \/ Raise /\ runner' = "fail" /\ UNCHANGED failures
  /\ UNCHANGED <<request, active, pending, phase, closed, history>>

(* The entities are captured, or the capture raises or runs out of time. *)
Capture ==
  /\ runner = "capture"
  /\ unseen' = {}
  /\ \/ runner' = "commit" /\ UNCHANGED failures
     \/ Failure /\ runner' = "fail"
  /\ UNCHANGED <<request, active, pending, phase, closed, stale, raises>>

(* Analysis, reconciliation and commit; or they raise, time out or conflict. *)
Commit ==
  /\ runner = "commit"
  /\ \/ runner' = "sync" /\ UNCHANGED failures
     \/ Failure /\ runner' = "fail"
  /\ UNCHANGED <<request, active, pending, phase, closed, history, raises>>

(* The loop hands the outcome to the waiters of this scan and goes on with the
   merged request, or ends. *)
Handover_Ends ==
  active' = {} /\ UNCHANGED pending /\ runner' = "none"

Handover ==
  /\ active' = pending
  /\ pending' = {}
  /\ runner' = IF pending = {} THEN "none" ELSE "queue"

Settle(outcome) ==
  /\ request' = [r \in Requesters |->
                   IF r \in active /\ Waiting(r) THEN outcome ELSE request[r]]
  /\ stale' = stale \union {r \in active \intersect unseen : Waiting(r) /\ outcome = "answered"}
  /\ Handover

(* A hook that raises outside _execute ends the task: the finally clause forgets
   the waiters it was working for, and the merged request stays. *)
Die == active' = {} /\ runner' = "none" /\ UNCHANGED <<request, stale, pending>>

(* The projection takes the new document; it may raise after the commit. *)
Sync ==
  /\ runner = "sync"
  /\ \/ Settle("answered") /\ UNCHANGED raises
     \/ Raise /\ runner' = "fail" /\ UNCHANGED <<request, active, pending, stale>>
  /\ UNCHANGED <<phase, closed, unseen, failures>>

(* The projection is told of the failure before the waiters are. *)
Fail ==
  /\ runner = "fail"
  /\ \/ Settle("failed") /\ UNCHANGED raises
     \/ Raise /\ Die
  /\ UNCHANGED <<phase, closed, unseen, failures>>

(* The projection is told that the merged request is being served. *)
Queue ==
  /\ runner = "queue"
  /\ \/ runner' = "load" /\ UNCHANGED <<request, active, pending, stale, raises>>
     \/ Raise /\ Die
  /\ UNCHANGED <<phase, closed, unseen, failures>>

-----------------------------------------------------------------------------
(* HamieRuntime.async_shutdown                                               *)

(* The initial scan is cancelled, whether it waits for its delay or for its
   answer, and the scheduler is stopped; its own request goes on. *)
StopTimers ==
  /\ phase = "up"
  /\ phase' = "stopping"
  /\ closed' = TRUE
  /\ request' = [r \in Requesters |->
                   IF \/ r = Initial /\ request[r] \in {"armed", "waiting"}
                      \/ r = Timer /\ request[r] = "armed"
                   THEN "cancelled" ELSE request[r]]
  /\ UNCHANGED <<active, pending, runner, history, mishaps>>

CancelWaiters ==
  /\ request' = [r \in Requesters |->
                   IF r \in active \union pending /\ Waiting(r) THEN "cancelled"
                   ELSE request[r]]
  /\ active' = {} /\ pending' = {}

(* async_cancel, up to its wait for the runner. *)
CancelBegins ==
  /\ phase = "stopping"
  /\ phase' = "cancelling"
  /\ CancelWaiters
  /\ UNCHANGED <<runner, closed, history, mishaps>>

(* The cancellation reaches the runner at one of its awaits. *)
RunnerCancelled ==
  /\ phase = "cancelling"
  /\ runner # "none"
  /\ runner' = "none" /\ active' = {}
  /\ UNCHANGED <<request, pending, phase, closed, history, mishaps>>

CancelEnds ==
  /\ phase = "cancelling"
  /\ runner = "none"
  /\ phase' = "down"
  /\ CancelWaiters
  /\ UNCHANGED <<runner, closed, history, mishaps>>

Run == LoadState \/ Capture \/ Commit \/ Sync \/ Fail \/ Queue

Shutdown == StopTimers \/ CancelBegins \/ RunnerCancelled \/ CancelEnds

ScanNext ==
  \/ \E r \in Requesters : Request(r)
  \/ TickEnds
  \/ \E r \in Callers : AskAgain(r)
  \/ Run
  \/ Shutdown

ScanSpec == ScanInit /\ [][ScanNext]_scanVars

(* The event loop resumes the scan task, the timer's job and the shutdown. *)
ScanFairness ==
  /\ WF_scanVars(Run)
  /\ WF_scanVars(TickEnds)
  /\ WF_scanVars(CancelBegins \/ RunnerCancelled \/ CancelEnds)

-----------------------------------------------------------------------------

(* The answer to a request comes from a capture that began after the request: a
   caller that changed something and asks for a scan is never answered by the
   scan that was already running (async_request_scan, 240-256). *)
AnswerIsFresh == stale = {}

(* After the shutdown no timer is armed, none waits unless a hook had raised, and a
   scan runs only for a caller that asked afterwards: no old work outlives it
   (async_shutdown, async_stop and async_cancel). *)
ShutdownIsQuiet ==
  phase = "down" =>
    /\ \A r \in {Timer, Initial} :
         request[r] # "armed" /\ (raises = 0 => request[r] # "waiting")
    /\ active \union pending \subseteq Callers
    /\ runner = "none" => active = {}

(* A request is answered, failed or cancelled, also when scans fail or the runtime
   shuts down, unless a projection hook raised (_run_loop, 289-345). *)
EveryRequestAnswered ==
  \A r \in Requesters :
    Waiting(r) ~> (~Waiting(r) \/ raises > 0)

=============================================================================
