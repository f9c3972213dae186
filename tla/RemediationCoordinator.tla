------------------------ MODULE RemediationCoordinator ------------------------
(***************************************************************************)
(* application/remediation/coordinator.py and locks.py: executing one      *)
(* approved plan (async_execute_plan) and reversing one verified execution *)
(* (async_rollback_execution).                                             *)
(*                                                                         *)
(* Every read-modify-write of the document is one action: the commit loop  *)
(* is atomic (module RepositoryCommit) or fails because its attempts are   *)
(* exhausted, which happens at most MaxExhausted times here.  Everything   *)
(* else that is awaited - a load, the backup check, an adapter call - is   *)
(* an action of its own, and any other call may run in between.            *)
(*                                                                         *)
(* A definition Name_Variant is a plausible bug in Name that a property    *)
(* below detects.                                                          *)
(***************************************************************************)
EXTENDS RemediationRecords

CONSTANTS
  AdapterResults,     \* what an adapter call may do: "ok", "fail", "raise"
  MaxClock,           \* bound on the clock
  MaxExhausted,       \* bound on commits that lose all their attempts
  MaxCrashes          \* bound on the restarts of Home Assistant

VARIABLES
  planState,          \* document: the state of each plan
  approvals,          \* document: the approval of each identifier
  executions,         \* document: the execution records
  rollbacks,          \* document: the rollback records
  locks,              \* document: the execution locks
  tokens,             \* document: the remembered replay tokens, oldest first
  pc,                 \* where each call is
  arg,                \* the arguments of each call
  now,                \* the time each call was made at, fixed for its duration
  step,               \* the action step each execution is at
  done,               \* the steps whose execution succeeded
  todo,               \* the steps each call still has to reverse
  undo,               \* the rollback outcome of each call so far
  verdict,            \* the outcome each call is about to record
  ending,             \* how each call ends once its lock is released
  clock,              \* the time
  inEffect,           \* world: the executed steps whose change is in place
  accepted,           \* history: the tokens that passed the replay gate
  exhausted,          \* commits that lost all their attempts so far
  crashes             \* restarts so far

records == <<planState, approvals, executions, rollbacks, locks, tokens>>
progress == <<step, done, todo, undo, verdict, ending>>
world == <<clock, inEffect, accepted, exhausted, crashes>>
vars == <<records, pc, arg, now, progress, world>>

Argument == [plan : Plans, approval : Approvals, token : Tokens, execution : Executions]

Resting == {"idle", "returned", "rejected", "raised", "lost"}

Places ==
  Resting \union {"token", "load", "lock", "check", "execute", "verify", "undo",
                  "refuse", "record", "block", "release"}

Verdicts == {"none", "unknown_plan", "succeeded", "failed", "rolled_back",
             "rollback_failed"}

RecordsOK ==
  /\ planState \in [Plans -> PlanStates]
  /\ approvals \in [Approvals -> ApprovalRecord \union {NoRecord}]
  /\ executions \in SUBSET ExecutionRecord
  /\ rollbacks \in SUBSET RollbackRecord
  /\ locks \in SUBSET LockRecord
  /\ tokens \in Seq(Tokens)

ControlOK ==
  /\ pc \in [Calls -> Places]
  /\ verdict \in [Calls -> Verdicts]
  /\ ending \in [Calls -> {"returned", "rejected", "raised"}]

LocalsOK ==
  /\ arg \in [Calls -> Argument]
  /\ now \in [Calls -> Nat]
  /\ step \in [Calls -> Nat]
  /\ done \in [Calls -> SUBSET Nat]
  /\ todo \in [Calls -> SUBSET Nat]
  /\ undo \in [Calls -> {"none", "succeeded", "failed"}]

WorldOK ==
  /\ clock \in Nat
  /\ inEffect \in SUBSET (Executions \X Nat)
  /\ accepted \in Seq(Tokens)
  /\ exhausted \in Nat
  /\ crashes \in Nat

TypeOK == RecordsOK /\ ControlOK /\ LocalsOK /\ WorldOK

-----------------------------------------------------------------------------

PlanOf(c) == arg[c].plan

(* The execution whose steps a call runs or reverses. *)
Subject(c) == IF c \in Executions THEN c ELSE arg[c].execution

RolledBack(e) == \E r \in rollbacks : r.execution = e

Goto(c, place) == pc' = [pc EXCEPT ![c] = place]

(* A blocked record (coordinator.py _block): before the lock is taken, and
   while it is held. *)
Refuse_Silently(c) == Goto(c, "returned") /\ UNCHANGED verdict

Refuse_ByRaising(c) == Goto(c, "raised") /\ UNCHANGED verdict

Refuse(c) == Goto(c, "refuse") /\ verdict' = [verdict EXCEPT ![c] = "failed"]

Block(c) == Goto(c, "block") /\ verdict' = [verdict EXCEPT ![c] = "failed"]

(* The commit loop gives up: LockConflictError. *)
Exhaust == exhausted < MaxExhausted /\ exhausted' = exhausted + 1

(* A call's locals before it is made. *)
LocalInit ==
  /\ pc = [c \in Calls |-> "idle"]
  /\ arg = [c \in Calls |-> CHOOSE a \in Argument : TRUE]
  /\ now = [c \in Calls |-> 0]
  /\ step = [c \in Calls |-> 1]
  /\ done = [c \in Calls |-> {}]
  /\ todo = [c \in Calls |-> {}]
  /\ undo = [c \in Calls |-> "none"]
  /\ verdict = [c \in Calls |-> "none"]
  /\ ending = [c \in Calls |-> "returned"]

(* The document the coordinator starts from: a plan is approved when one of
   its approvals was granted; nothing has been executed yet. *)
Init ==
  /\ planState \in [Plans -> {"absent", "ready_for_review", "approved"}]
  /\ approvals \in [Approvals -> [plan : Plans, state : {"granted"}, revoked : {FALSE},
                                  expires : {ApprovalLease}] \union {NoRecord}]
  /\ \A p \in Plans :
       planState[p] = "approved" <=>
         \E a \in Approvals : approvals[a] # NoRecord /\ approvals[a].plan = p
  /\ executions = {} /\ rollbacks = {} /\ locks = {} /\ tokens = <<>>
  /\ LocalInit
  /\ clock = 0 /\ inEffect = {} /\ accepted = <<>> /\ exhausted = 0 /\ crashes = 0

-----------------------------------------------------------------------------
(* Making a call.                                                            *)

(* async_execute_plan is called; whether its arguments exist is judged later. *)
BeginExecution(c, p, a, t) ==
  /\ c \in Executions
  /\ pc[c] = "idle"
  /\ arg' = [arg EXCEPT ![c].plan = p, ![c].approval = a, ![c].token = t]
  /\ now' = [now EXCEPT ![c] = clock]
  /\ Goto(c, "token")
  /\ UNCHANGED <<records, progress, world>>

(* service.py async_rollback_execution: a call for a recorded execution. *)
BeginRollback(c, e, t) ==
  /\ c \in Rollbacks
  /\ pc[c] = "idle"
  /\ e \in executions
  /\ arg' = [arg EXCEPT ![c].plan = e.plan, ![c].execution = e.id, ![c].token = t]
  /\ now' = [now EXCEPT ![c] = clock]
  /\ Goto(c, "load")
  /\ UNCHANGED <<records, progress, world>>

(* The replay gate.  A replayed execution is recorded as blocked and leaves
   its plan alone; a replayed rollback is rejected. *)
Token(c) ==
  /\ pc[c] = "token"
  /\ IF TokenKnown(tokens, arg[c].token)
     THEN /\ IF c \in Executions
             THEN Goto(c, "refuse") /\ verdict' = [verdict EXCEPT ![c] = "unknown_plan"]
             ELSE Goto(c, "rejected") /\ UNCHANGED verdict
          /\ UNCHANGED <<tokens, accepted>>
     ELSE /\ tokens' = WithToken(tokens, arg[c].token)
          /\ accepted' = Append(accepted, arg[c].token)
          /\ UNCHANGED verdict
          /\ Goto(c, IF c \in Executions THEN "load"
                     ELSE IF todo[c] = {} THEN "rejected" ELSE "lock")
  /\ UNCHANGED <<planState, approvals, executions, rollbacks, locks, arg, now,
                 step, done, todo, undo, ending, clock, inEffect, exhausted, crashes>>

(* The token could not be recorded: the call raises, recording nothing. *)
TokenExhausted(c) ==
  /\ pc[c] = "token"
  /\ Exhaust
  /\ Goto(c, "raised")
  /\ UNCHANGED <<records, arg, now, progress, clock, inEffect, accepted, crashes>>

-----------------------------------------------------------------------------
(* async_execute_plan                                                        *)

(* Steps 2-5: the plan and the approval are loaded once and judged. *)
LoadPlan(c) ==
  /\ c \in Executions
  /\ pc[c] = "load"
  /\ LET p == PlanOf(c) IN
     \/ /\ planState[p] = "absent"
        /\ Goto(c, "refuse")
        /\ verdict' = [verdict EXCEPT ![c] = "unknown_plan"]
     \/ /\ planState[p] # "absent"
        /\ \/ planState[p] \notin ExecutableStates
           \/ now[c] >= PlanExpiry[p]
           \/ ~ValidFor(approvals[arg[c].approval], p, now[c])
        /\ Refuse(c)
     \/ /\ planState[p] \in ExecutableStates
        /\ now[c] < PlanExpiry[p]
        /\ ValidFor(approvals[arg[c].approval], p, now[c])
        /\ Goto(c, "lock")
        /\ UNCHANGED verdict
  /\ UNCHANGED <<records, arg, now, step, done, todo, undo, ending, world>>

(* Step 6: the lock on the plan and on its target. *)
AcquireLock(c) ==
  /\ pc[c] = "lock"
  /\ ~LockConflict(locks, PlanOf(c), now[c])
  /\ locks' = WithLock(locks, c, PlanOf(c), now[c])
  /\ Goto(c, IF c \in Executions THEN "check" ELSE "undo")
  /\ UNCHANGED <<planState, approvals, executions, rollbacks, tokens, arg, now,
                 progress, world>>

(* The lock is refused: an execution is recorded as blocked, a rollback
   raises LockConflictError. *)
LockRefused(c) ==
  /\ pc[c] = "lock"
  /\ \/ LockConflict(locks, PlanOf(c), now[c]) /\ UNCHANGED exhausted
     \/ Exhaust
  /\ IF c \in Executions THEN Refuse(c) ELSE Goto(c, "raised") /\ UNCHANGED verdict
  /\ UNCHANGED <<records, arg, now, step, done, todo, undo, ending, clock,
                 inEffect, accepted, crashes>>

(* Steps 7-8: backup and preconditions.  The recommendation and the backup
   are outside this module: the check passes, fails or raises. *)
Check(c) ==
  /\ pc[c] = "check"
  /\ \/ Goto(c, "execute") /\ UNCHANGED verdict
     \/ Goto(c, "record") /\ verdict' = [verdict EXCEPT ![c] = "failed"]
     \/ Block(c)
  /\ UNCHANGED <<records, arg, now, step, done, todo, undo, ending, world>>

(* Something failed: the completed reversible steps are to be reversed. *)
StopAndUndo(c, completed) ==
  LET reversible == completed \intersect Reversible[PlanOf(c)] IN
  /\ todo' = [todo EXCEPT ![c] = reversible]
  /\ IF reversible = {}
     THEN /\ Goto(c, "record")
          /\ verdict' = [verdict EXCEPT ![c] = "failed"]
     ELSE Goto(c, "undo") /\ UNCHANGED verdict

(* adapter.execute of the current step.  A step that fails or raises may have
   left its change in place. *)
ExecuteStep(c) ==
  /\ pc[c] = "execute"
  /\ \/ /\ "ok" \in AdapterResults
        /\ done' = [done EXCEPT ![c] = @ \union {step[c]}]
        /\ inEffect' = inEffect \union {<<c, step[c]>>}
        /\ Goto(c, "verify")
        /\ UNCHANGED <<todo, verdict>>
     \/ /\ "fail" \in AdapterResults
        /\ inEffect' \in {inEffect, inEffect \union {<<c, step[c]>>}}
        /\ StopAndUndo(c, done[c])
        /\ UNCHANGED done
     \/ /\ "raise" \in AdapterResults
        /\ inEffect' \in {inEffect, inEffect \union {<<c, step[c]>>}}
        /\ done' = [done EXCEPT ![c] = {}]
        /\ Block(c)
        /\ UNCHANGED todo
  /\ UNCHANGED <<records, arg, now, step, undo, ending, clock, accepted, exhausted,
                 crashes>>

(* adapter.verify of the current step. *)
VerifyStep(c) ==
  /\ pc[c] = "verify"
  /\ \/ /\ "ok" \in AdapterResults
        /\ IF step[c] < StepCount[PlanOf(c)]
           THEN /\ step' = [step EXCEPT ![c] = @ + 1]
                /\ Goto(c, "execute")
                /\ UNCHANGED verdict
           ELSE /\ Goto(c, "record")
                /\ verdict' = [verdict EXCEPT ![c] = "succeeded"]
                /\ UNCHANGED step
        /\ UNCHANGED <<done, todo>>
     \/ /\ "fail" \in AdapterResults
        /\ StopAndUndo(c, done[c])
        /\ UNCHANGED <<step, done>>
     \/ /\ "raise" \in AdapterResults
        /\ Block(c)
        /\ done' = [done EXCEPT ![c] = {}]
        /\ UNCHANGED <<step, todo>>
  /\ UNCHANGED <<records, arg, now, undo, ending, world>>

-----------------------------------------------------------------------------
(* _run_rollback: reverse order, never stopping at a failure.               *)

Latest(steps) == CHOOSE s \in steps : \A other \in steps : other <= s

(* The rollback succeeds only if every step did. *)
UndoOutcome_OfLastStep(previous, ok) == IF ok THEN "succeeded" ELSE "failed"

UndoOutcome(previous, ok) ==
  IF previous # "failed" /\ ok THEN "succeeded" ELSE "failed"

StillToUndo(steps, s, ok) == steps \ {s}

(* adapter.rollback of the latest step left; an exception is a failure. *)
UndoStep(c) ==
  /\ pc[c] = "undo"
  /\ \E ok \in BOOLEAN :
       LET s == Latest(todo[c])
           outcome == UndoOutcome(undo[c], ok)
           left == StillToUndo(todo[c], s, ok)
       IN
       /\ AdapterResults \intersect (IF ok THEN {"ok"} ELSE {"fail", "raise"}) # {}
       /\ inEffect' = IF ok THEN inEffect \ {<<Subject(c), s>>} ELSE inEffect
       /\ undo' = [undo EXCEPT ![c] = outcome]
       /\ todo' = [todo EXCEPT ![c] = left]
       /\ IF left # {}
          THEN UNCHANGED <<pc, verdict>>
          ELSE /\ Goto(c, "record")
               /\ verdict' = [verdict EXCEPT ![c] = IF outcome = "succeeded"
                                                    THEN "rolled_back"
                                                    ELSE "rollback_failed"]
  /\ UNCHANGED <<records, arg, now, step, done, ending, clock, accepted, exhausted,
                 crashes>>

-----------------------------------------------------------------------------
(* Recording the outcome: _persist_and_return, _persist_explicit_rollback.  *)

Record(c) ==
  [id |-> c, plan |-> PlanOf(c), done |-> done[c],
   outcome |-> IF verdict[c] = "unknown_plan" THEN "failed" ELSE verdict[c]]

UndoRecord(c) == [id |-> c, execution |-> Subject(c), outcome |-> undo[c]]

(* RepositoryState.__post_init__ accepts the document with the new records. *)
RoomFor(c) ==
  /\ c \in Executions => Cardinality(executions) < MaxExecutions
  /\ undo[c] # "none" => Cardinality(rollbacks) < MaxRollbacks

(* The call ends this way; if it holds the lock, once that is released. *)
Leave(c, how) ==
  IF pc[c] = "refuse"
  THEN Goto(c, how) /\ UNCHANGED ending
  ELSE Goto(c, "release") /\ ending' = [ending EXCEPT ![c] = how]

(* A record of an execution: the plan takes the state of the outcome, and the
   automatic rollback is recorded with it. *)
RecordExecution(c) ==
  /\ c \in Executions
  /\ pc[c] \in {"record", "block", "refuse"}
  /\ RoomFor(c)
  /\ executions' = executions \union {Record(c)}
  /\ rollbacks' = IF undo[c] = "none" THEN rollbacks
                                      ELSE rollbacks \union {UndoRecord(c)}
  /\ planState' = IF verdict[c] = "unknown_plan" THEN planState
                  ELSE [planState EXCEPT ![PlanOf(c)] = verdict[c]]
  /\ Leave(c, "returned")
  /\ UNCHANGED <<approvals, locks, tokens, arg, now, step, done, todo, undo,
                 verdict, world>>

(* The record cannot be stored.  Inside _run_execution the exception becomes a
   blocked record without steps; from there it reaches the caller. *)
RecordFails(c) ==
  /\ c \in Executions
  /\ pc[c] \in {"record", "block", "refuse"}
  /\ \/ ~RoomFor(c) /\ UNCHANGED exhausted
     \/ Exhaust
  /\ IF pc[c] = "record"
     THEN /\ Block(c)
          /\ done' = [done EXCEPT ![c] = {}]
          /\ undo' = [undo EXCEPT ![c] = "none"]
          /\ UNCHANGED ending
     ELSE Leave(c, "raised") /\ UNCHANGED <<done, undo, verdict>>
  /\ UNCHANGED <<records, arg, now, step, todo, clock, inEffect, accepted, crashes>>

(* _persist_explicit_rollback's last test, inside the commit: rollback_already_
   recorded.  (A plan is never deleted and its fingerprint never changes.) *)
UndoRefused_Never(c) == FALSE

UndoRefused(c) == RolledBack(arg[c].execution)

(* The record of an explicit rollback, unless there is one already. *)
RecordRollback(c) ==
  /\ c \in Rollbacks
  /\ pc[c] = "record"
  /\ ~UndoRefused(c)
  /\ RoomFor(c)
  /\ rollbacks' = rollbacks \union {UndoRecord(c)}
  /\ planState' = [planState EXCEPT ![PlanOf(c)] = verdict[c]]
  /\ Leave(c, "returned")
  /\ UNCHANGED <<approvals, executions, locks, tokens, arg, now, step, done, todo,
                 undo, verdict, world>>

(* The rollback was carried out but is not recorded. *)
RecordRollbackFails(c) ==
  /\ c \in Rollbacks
  /\ pc[c] = "record"
  /\ \/ UndoRefused(c) /\ Leave(c, "rejected") /\ UNCHANGED exhausted
     \/ ~UndoRefused(c) /\ ~RoomFor(c) /\ Leave(c, "raised") /\ UNCHANGED exhausted
     \/ Leave(c, "raised") /\ Exhaust
  /\ UNCHANGED <<records, arg, now, step, done, todo, undo, verdict, clock, inEffect,
                 accepted, crashes>>

(* finally: the lock is released; a failure to release it is only logged. *)
Release(c) ==
  /\ pc[c] = "release"
  /\ \/ locks' = WithRelease(locks, c) /\ UNCHANGED exhausted
     \/ Exhaust /\ UNCHANGED locks
  /\ Goto(c, ending[c])
  /\ UNCHANGED <<planState, approvals, executions, rollbacks, tokens, arg, now,
                 progress, clock, inEffect, accepted, crashes>>

-----------------------------------------------------------------------------
(* async_rollback_execution                                                  *)

(* Everything is judged before the token is recorded and the lock taken. *)
LoadExecution(c) ==
  /\ c \in Rollbacks
  /\ pc[c] = "load"
  /\ LET e == CHOOSE r \in executions : r.id = arg[c].execution IN
     IF /\ e.outcome = "succeeded"
        /\ now[c] < UndoExpiry[e.plan]
        /\ ~RolledBack(e.id)
     THEN /\ todo' = [todo EXCEPT ![c] = e.done \intersect Reversible[e.plan]]
          /\ Goto(c, "token")
     ELSE Goto(c, "rejected") /\ UNCHANGED todo
  /\ UNCHANGED <<records, arg, now, step, done, undo, verdict, ending, world>>

-----------------------------------------------------------------------------

Tick ==
  /\ clock < MaxClock
  /\ clock' = clock + 1
  /\ UNCHANGED <<records, pc, arg, now, progress, inEffect, accepted, exhausted,
                 crashes>>

(* Home Assistant stops and starts: the document survives, the calls do not. *)
Crash ==
  /\ crashes < MaxCrashes
  /\ crashes' = crashes + 1
  /\ pc' = [c \in Calls |-> IF pc[c] \in Resting THEN pc[c] ELSE "lost"]
  /\ UNCHANGED <<records, arg, now, progress, clock, inEffect, accepted, exhausted>>

Begin(c) ==
  \/ \E p \in Plans, a \in Approvals, t \in Tokens : BeginExecution(c, p, a, t)
  \/ \E e \in executions, t \in Tokens : BeginRollback(c, e, t)

(* A step of a call that has been made. *)
Step(c) ==
  \/ Token(c) \/ TokenExhausted(c)
  \/ LoadPlan(c) \/ LoadExecution(c)
  \/ AcquireLock(c) \/ LockRefused(c)
  \/ Check(c) \/ ExecuteStep(c) \/ VerifyStep(c) \/ UndoStep(c)
  \/ RecordExecution(c) \/ RecordFails(c)
  \/ RecordRollback(c) \/ RecordRollbackFails(c)
  \/ Release(c)

Next ==
  \/ \E c \in Calls : Begin(c) \/ Step(c)
  \/ Tick
  \/ Crash

Spec == Init /\ [][Next]_vars

(* The event loop runs every call that can run, and every adapter call
   returns or raises. *)
FairSpec == Spec /\ \A c \in Calls : WF_vars(Step(c))

-----------------------------------------------------------------------------

(* The call has its lock and has not yet released it. *)
Working(c) ==
  pc[c] \in {"check", "execute", "verify", "undo", "record", "block", "release"}

LeaseEnd(c) == now[c] + Lease

SameWork(c, d) ==
  PlanOf(c) = PlanOf(d) \/ TargetOf[PlanOf(c)] = TargetOf[PlanOf(d)]

(* Two calls work on one plan or one target only when the lease of one of them
   has run out: locks.py async_acquire_lock, under calls whose "now" is old,
   crashes, and locks that are dropped or not released. *)
LeaseExclusion ==
  \A c, d \in Calls :
    c # d /\ Working(c) /\ Working(d) /\ SameWork(c, d)
      => LeaseEnd(c) <= clock \/ LeaseEnd(d) <= clock

(* A token passes the replay gate a second time only after more than MaxTokens
   others have: locks.py async_check_and_record_replay_token. *)
ReplayWindow ==
  \A i, j \in 1 .. Len(accepted) :
    i < j /\ accepted[i] = accepted[j] => j - i > MaxTokens

(* An execution is rolled back on record at most once, automatically or on
   request, however the requests overlap. *)
SingleRollback ==
  \A r1, r2 \in rollbacks : r1.execution = r2.execution => r1 = r2

(* The records tell what happened to the target: after "succeeded" every step
   is in place until a request reverses it, after a successful rollback none of
   the completed reversible steps is. *)
RecordsAreTrue ==
  \A e \in executions :
    /\ e.outcome = "succeeded" =>
         \A s \in Steps(e.plan) :
           \/ <<e.id, s>> \in inEffect
           \/ \E c \in Rollbacks : arg[c].execution = e.id /\ undo[c] # "none"
    /\ (e.outcome = "rolled_back" \/ \E r \in rollbacks :
          r.execution = e.id /\ r.outcome = "succeeded") =>
         \A s \in e.done \intersect Reversible[e.plan] : <<e.id, s>> \notin inEffect

(* A call that returned an execution left exactly its one record; a call that
   raised left none. *)
ReturnedIsRecorded ==
  \A c \in Executions :
    LET mine == {e \in executions : e.id = c} IN
    /\ pc[c] = "returned" => Cardinality(mine) = 1
    /\ pc[c] \in {"idle", "token", "load", "lock", "check", "raised"} => mine = {}

(* Every execution that is asked for is recorded and every rollback answered
   (coordinator.py 8-11), unless a commit lost all its attempts, the document had
   no room or Home Assistant restarted meanwhile. *)
EveryCallAnswered ==
  /\ \A c \in Executions :
       pc[c] = "token" ~>
         \/ \E e \in executions : e.id = c
         \/ exhausted > 0 \/ crashes > 0 \/ Cardinality(executions) = MaxExecutions
  /\ \A c \in Rollbacks :
       pc[c] = "load" ~> pc[c] \in {"returned", "rejected", "raised"} \/ crashes > 0

=============================================================================
