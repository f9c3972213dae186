-------------------------- MODULE RemediationSystem --------------------------
(***************************************************************************)
(* The remediation subsystem as the service exposes it: operators review   *)
(* plans (module PlanReview) while plans are executed and executions are   *)
(* rolled back (module RemediationCoordinator), all on one document.       *)
(* application/remediation/service.py wraps each call of the coordinator:  *)
(* it looks its arguments up, records the start, and records the outcome   *)
(* the coordinator returned.                                               *)
(***************************************************************************)
EXTENDS RemediationCoordinator

CONSTANTS
  Clients,            \* the review requests, one each
  ApprovalOf,         \* approval_id, the digest of a plan and a token
  MaxSnooze,          \* the longest snooze, 30 days
  MaxAudits,          \* MAX_AUDIT_RECORDS = 500
  Horizon             \* PlanReview's bound on the clock; MaxClock bounds it here

ASSUME ApprovalOfAssumption ==
  /\ ApprovalOf \in [Plans \X Tokens -> Approvals]
  /\ \A x, y \in Plans \X Tokens : ApprovalOf[x] = ApprovalOf[y] => x = y
ASSUME ReviewAssumption ==
  MaxSnooze \in Nat \ {0} /\ MaxAudits \in Nat \ {0} /\ IsFiniteSet(Plans)

VARIABLES
  snoozedFrom,        \* document: the state each plan was last snoozed in
  snoozeUntil,        \* document: when its last snooze ends
  audits,             \* document: the last MaxAudits audit records
  place,              \* where each review request is
  request,            \* what it asks
  asked,              \* when it was asked
  kept,               \* what it keeps of the plan it loaded
  appended,           \* history: how many audit records were ever appended
  snoozings,          \* history: the snoozes carried out
  closed              \* the coordinator's calls whose outcome is reported or lost

Review == INSTANCE PlanReview

Ledger == INSTANCE ApprovalLedger
  WITH subject <- Review!Subject, decision <- Review!Decision

reviewDocument == <<snoozedFrom, snoozeUntil, audits>>
reviewCalls == <<place, request, asked, kept>>
reviewHistory == <<appended, snoozings>>
reviewVars == <<reviewDocument, reviewCalls, reviewHistory>>

systemVars == <<vars, reviewVars, closed>>

SystemInit ==
  /\ Review!ReviewInit
  /\ executions = {} /\ rollbacks = {} /\ locks = {} /\ tokens = <<>>
  /\ LocalInit
  /\ clock = 0 /\ inEffect = {} /\ accepted = <<>> /\ exhausted = 0 /\ crashes = 0
  /\ closed = {}

-----------------------------------------------------------------------------
(* The service around the coordinator.                                       *)

Reports(c, event) ==
  /\ Review!AppendsAudit([event |-> event, token |-> arg'[c].token])
  /\ UNCHANGED <<snoozedFrom, snoozeUntil, reviewCalls, snoozings>>

(* async_execute_plan: the plan and the approval exist (neither is ever
   deleted), the start is recorded, the coordinator is called. *)
RequestExecution(c, p, a, t) ==
  /\ planState[p] # "absent"
  /\ approvals[a] # NoRecord
  /\ BeginExecution(c, p, a, t)
  /\ Reports(c, "execution_started")
  /\ UNCHANGED closed

(* async_rollback_execution: likewise, for a recorded execution. *)
RequestRollback(c, e, t) ==
  /\ BeginRollback(c, e, t)
  /\ Reports(c, "rollback_started")
  /\ UNCHANGED closed

OutcomeEvent(c) ==
  IF c \in Executions
  THEN CASE Record(c).outcome = "succeeded" -> "execution_succeeded"
         [] Record(c).outcome = "failed" -> "execution_failed"
         [] Record(c).outcome = "rolled_back" -> "rollback_succeeded"
         [] Record(c).outcome = "rollback_failed" -> "rollback_failed"
  ELSE IF pc[c] = "returned" /\ undo[c] = "succeeded" THEN "rollback_succeeded"
                                                      ELSE "rollback_failed"

(* The outcome of a call that returned, or of a rollback that was rejected. *)
ReportOutcome(c) ==
  /\ pc[c] \in {"returned", "rejected"}
  /\ c \notin closed
  /\ UNCHANGED vars
  /\ Reports(c, OutcomeEvent(c))
  /\ closed' = closed \union {c}

(* The outcome cannot be recorded: the caller gets an exception although the
   record of the execution or rollback is in the document. *)
ReportFails(c) ==
  /\ pc[c] \in {"returned", "rejected"}
  /\ c \notin closed
  /\ Exhaust
  /\ UNCHANGED <<records, pc, arg, now, progress, clock, inEffect, accepted, crashes,
                 reviewVars>>
  /\ closed' = closed \union {c}

-----------------------------------------------------------------------------

Restart ==
  /\ Crash
  /\ place' = [c \in Clients |-> IF place[c] \in {"load", "commit"}
                                 THEN "lost" ELSE place[c]]
  /\ closed' = closed \union {c \in Calls : pc[c] \in {"returned", "rejected"}}
  /\ UNCHANGED <<reviewDocument, request, asked, kept, reviewHistory>>

Reviewing(c) ==
  /\ Review!Arrival(c) \/ Review!Step(c)
  /\ UNCHANGED <<rollbacks, tokens, pc, arg, now, progress, inEffect, accepted,
                 exhausted, crashes, closed>>

Repairing(c) ==
  \/ \E p \in Plans, a \in Approvals, t \in Tokens : RequestExecution(c, p, a, t)
  \/ \E e \in executions, t \in Tokens : RequestRollback(c, e, t)
  \/ Step(c) /\ UNCHANGED <<reviewVars, closed>>
  \/ ReportOutcome(c)
  \/ ReportFails(c)

SystemNext ==
  \/ \E c \in Clients : Reviewing(c)
  \/ \E c \in Calls : Repairing(c)
  \/ Tick /\ UNCHANGED <<reviewVars, closed>>
  \/ Restart

SystemSpec == SystemInit /\ [][SystemNext]_systemVars

-----------------------------------------------------------------------------

(* Both halves keep the document they share well-formed, for each other. *)
SystemTypeOK == TypeOK /\ Review!TypeOK /\ closed \in SUBSET Calls

(* The approval a call names was granted for its plan and had not run out. *)
Authorised(c) ==
  LET approval == approvals[arg[c].approval] IN
  /\ approval # NoRecord
  /\ approval.state = "granted"
  /\ approval.plan = PlanOf(c)
  /\ now[c] < approval.expires

(* Whatever is done is done under an approval that a human granted for this very
   plan and that had not run out when the execution was asked for, however the
   decisions and the executions overlap (coordinator.py 443-469). *)
AuthorisedExecution == \A x \in inEffect : Authorised(x[1])

(* An approval identifier stands for one decision for ever, also while executions,
   rollbacks and restarts change the document under the review requests
   (domain/remediation_approval.py 53-61). *)
ImplementsApprovalLedger == Ledger!Spec

(* A snooze request that is retried does not snooze its plan again, unless
   MaxAudits other records, of reviews or of executions, have been appended since
   (service.py 266-278, 1044). *)
SnoozedOnce == Review!SnoozedOnce

=============================================================================
