-------------------------- MODULE RemediationRecords --------------------------
(***************************************************************************)
(* The remediation records of the repository document                      *)
(* (application/persistence.py RepositoryState) and the pure rules about   *)
(* them: when a lock is held, when an approval authorises an execution,    *)
(* which replay tokens are remembered.                                     *)
(*                                                                         *)
(* A definition Name_Variant is a plausible bug in Name that a property    *)
(* of the modules built on this one detects.                               *)
(***************************************************************************)
EXTENDS Integers, Sequences, FiniteSets

CONSTANTS
  Plans,              \* remediation plans
  Targets,            \* identity keys of what they change
  TargetOf,           \* the target of each plan's first action
  StepCount,          \* the number of action steps of each plan
  Reversible,         \* the reversible steps of each plan
  PlanExpiry,         \* when each plan expires
  UndoExpiry,         \* when each plan's rollback expires, 0 if unsupported
  Approvals,          \* approval identifiers
  Executions,         \* execution identifiers, fresh for every call
  Rollbacks,          \* rollback identifiers, fresh for every call
  Tokens,             \* client idempotency tokens
  Lease,              \* DEFAULT_LEASE of a lock, 10 minutes
  ApprovalLease,      \* DEFAULT_APPROVAL_LEASE, 24 hours
  MaxTokens,          \* MAX_REMEDIATION_REPLAY_TOKENS = 512
  MaxExecutions,      \* MAX_REMEDIATION_EXECUTIONS = 512
  MaxRollbacks,       \* MAX_REMEDIATION_ROLLBACKS = 256
  NoRecord            \* an approval that is not in the document

ASSUME PlansAssumption ==
  /\ TargetOf \in [Plans -> Targets]
  /\ StepCount \in [Plans -> Nat \ {0}]
  /\ Reversible \in [Plans -> SUBSET Nat]
  /\ PlanExpiry \in [Plans -> Nat]
  /\ UndoExpiry \in [Plans -> Nat]
ASSUME LeaseAssumption == Lease \in Nat \ {0} /\ ApprovalLease \in Nat \ {0}
ASSUME LimitsAssumption ==
  MaxTokens \in Nat \ {0} /\ MaxExecutions \in Nat /\ MaxRollbacks \in Nat
ASSUME CallsAssumption == Executions \intersect Rollbacks = {}
ASSUME ArgumentsAssumption == {} \notin {Plans, Approvals, Executions, Tokens}

Calls == Executions \union Rollbacks

Steps(p) == 1 .. StepCount[p]

-----------------------------------------------------------------------------
(* The document.  "absent" stands for a plan that was never created.        *)

PlanStates ==
  {"absent", "draft", "ready_for_review", "snoozed", "approved", "rejected",
   "expired", "execution_pending", "succeeded", "failed", "rolled_back",
   "rollback_failed", "invalidated"}

(* coordinator.py: the states from which an execution may start. *)
ExecutableStates == {"approved", "execution_pending"}

ExecutionOutcomes == {"succeeded", "failed", "rolled_back", "rollback_failed"}

ApprovalRecord ==
  [plan : Plans, state : {"granted", "rejected"}, revoked : BOOLEAN, expires : Nat]

ASSUME NoRecordAssumption == NoRecord \notin ApprovalRecord

ExecutionRecord ==
  [id : Executions, plan : Plans, outcome : ExecutionOutcomes, done : SUBSET Nat]

RollbackRecord ==
  [id : Calls, execution : Executions, outcome : {"succeeded", "failed"}]

LockRecord ==
  [owner : Calls, plan : Plans, target : Targets, acquired : Nat, expires : Nat,
   released : BOOLEAN]

-----------------------------------------------------------------------------
(* ExecutionLockRecord.is_held_at *)
HeldAt(lock, t) == ~lock.released /\ t < lock.expires

SameObject_PlanOnly(lock, p) == lock.plan = p

SameObject(lock, p) == lock.plan = p \/ lock.target = TargetOf[p]

(* async_acquire_lock: a still-held lock on either dimension is a conflict. *)
LockConflict(locks, p, t) == \E lock \in locks : HeldAt(lock, t) /\ SameObject(lock, p)

NewLock(c, p, t) ==
  [owner |-> c, plan |-> p, target |-> TargetOf[p], acquired |-> t,
   expires |-> t + Lease, released |-> FALSE]

(* The new lock joins those still held; the others are dropped. *)
WithLock(locks, c, p, t) ==
  {lock \in locks : HeldAt(lock, t)} \union {NewLock(c, p, t)}

(* async_release_lock: a lock already dropped or released stays as it is. *)
WithRelease(locks, c) ==
  {IF lock.owner = c THEN [lock EXCEPT !.released = TRUE] ELSE lock : lock \in locks}

(* async_check_and_record_replay_token: the last MaxTokens are remembered. *)
TokenKnown(tokens, t) == \E i \in 1 .. Len(tokens) : tokens[i] = t

WithToken_KeepsOldest(tokens, t) ==
  IF Len(tokens) < MaxTokens THEN Append(tokens, t) ELSE tokens

WithToken(tokens, t) ==
  IF Len(tokens) < MaxTokens THEN Append(tokens, t)
                             ELSE Append(Tail(tokens), t)

(* ApprovalRecord.is_valid_for: granted, not revoked, bound to this plan's
   fingerprint, not past its lease. *)
ValidFor_EvenExpired(approval, p, t) ==
  /\ approval # NoRecord
  /\ approval.state = "granted"
  /\ ~approval.revoked
  /\ approval.plan = p

ValidFor(approval, p, t) ==
  /\ approval # NoRecord
  /\ approval.state = "granted"
  /\ ~approval.revoked
  /\ approval.plan = p
  /\ t < approval.expires

=============================================================================
