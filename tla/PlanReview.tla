------------------------------ MODULE PlanReview ------------------------------
(***************************************************************************)
(* application/remediation/service.py: what operators do with remediation  *)
(* plans - create, approve, reject, revoke, snooze, resume - and the       *)
(* expiry of snoozes that listing the queue performs.                      *)
(*                                                                         *)
(* Every operation loads the document, judges what it loaded, and commits  *)
(* later: the commit (one action, module RepositoryCommit) changes the     *)
(* document as it is by then, but replaces the plan by a copy of the plan  *)
(* it loaded.  Only the state of that copy matters: the snooze fields are  *)
(* read while a plan is snoozed, and the commit that snoozes it sets all   *)
(* of them.  The evidence behind a plan (recommendation, planner, preview) *)
(* is outside this module: whatever depends on it may go either way.       *)
(*                                                                         *)
(* A definition Name_Variant is a plausible bug in Name that a property    *)
(* below detects.                                                          *)
(***************************************************************************)
EXTENDS RemediationRecords, SequencesExt

CONSTANTS
  Clients,            \* the requests, one each
  ApprovalOf,         \* approval_id, the digest of a plan and a token
  MaxSnooze,          \* the longest snooze, 30 days
  MaxAudits,          \* MAX_AUDIT_RECORDS = 500
  Horizon             \* bound on the clock

VARIABLES
  planState,          \* document: the state of each plan
  approvals,          \* document: the approval of each identifier
  executions,         \* document: the execution records
  locks,              \* document: the execution locks
  snoozedFrom,        \* document: the state each plan was last snoozed in
  snoozeUntil,        \* document: when its last snooze ends
  audits,             \* document: the last MaxAudits audit records
  place,              \* where each request is
  request,            \* what was asked
  asked,              \* when it was asked
  kept,               \* what is kept of the loaded plan: its state, or the
                      \* state a resume restores
  clock,              \* the time
  appended,           \* history: how many audit records were ever appended
  snoozings           \* history: the snoozes carried out, oldest first

document == <<planState, approvals, snoozedFrom, snoozeUntil, audits>>
history == <<appended, snoozings>>
others == <<executions, locks, clock>>
vars == <<document, place, request, asked, kept, history, others>>

SnoozeEligibleStates == {"draft", "ready_for_review"}

Operations == {"none", "create", "approve", "reject", "revoke", "snooze", "resume",
               "list"}

Events == {"plan_created", "llm_proposal_accepted", "llm_proposal_rejected",
           "approval_granted", "approval_rejected", "approval_revoked",
           "proposal_snoozed", "proposal_resumed",
           "execution_started", "execution_succeeded", "execution_failed",
           "rollback_started", "rollback_succeeded", "rollback_failed"}

Request ==
  [op : Operations, plan : Plans, approval : Approvals, token : Tokens, until : Nat]

(* _audit: the identifier is a digest of the event and of the token, which for
   an expiry is made of the plan and of the end of its snooze. *)
Audit == [event : Events, token : Tokens]

ExpiryAudit == [event : {"proposal_snooze_expired"}, plan : Plans, until : Nat]

Ended == {"answered", "refused", "raised", "lost"}

TypeOK ==
  /\ planState \in [Plans -> PlanStates]
  /\ approvals \in [Approvals -> ApprovalRecord \union {NoRecord}]
  /\ snoozedFrom \in [Plans -> SnoozeEligibleStates]
  /\ snoozeUntil \in [Plans -> Nat]
  /\ audits \in Seq(Audit \union ExpiryAudit) /\ Len(audits) <= MaxAudits
  /\ place \in [Clients -> {"idle", "load", "commit"} \union Ended]
  /\ request \in [Clients -> Request]
  /\ asked \in [Clients -> Nat]
  /\ kept \in [Clients -> PlanStates]
  /\ clock \in Nat
  /\ appended \in Nat
  /\ snoozings \in Seq([token : Tokens, plan : Plans, at : Nat])

(* An empty document, or one with a first plan in it. *)
ReviewInit ==
  /\ \/ planState = [p \in Plans |-> "absent"] /\ audits = <<>>
     \/ \E p \in Plans, t \in Tokens :
          /\ planState = [q \in Plans |-> IF q = p THEN "ready_for_review" ELSE "absent"]
          /\ audits = <<[event |-> "plan_created", token |-> t]>>
  /\ approvals = [a \in Approvals |-> NoRecord]
  /\ snoozedFrom = [p \in Plans |-> "draft"]
  /\ snoozeUntil = [p \in Plans |-> 0]
  /\ place = [c \in Clients |-> "idle"]
  /\ request = [c \in Clients |-> [op |-> "none", plan |-> CHOOSE p \in Plans : TRUE,
                                approval |-> CHOOSE a \in Approvals : TRUE,
                                token |-> CHOOSE t \in Tokens : TRUE, until |-> 0]]
  /\ asked = [c \in Clients |-> 0]
  /\ kept = [c \in Clients |-> "absent"]
  /\ appended = Len(audits) /\ snoozings = <<>>

(* Nothing is executed when the review is considered on its own. *)
Init == ReviewInit /\ executions = {} /\ locks = {} /\ clock = 0

-----------------------------------------------------------------------------
(* Rules.                                                                    *)

PlanOf(c) == request[c].plan

AuditOf(c, event) == [event |-> event, token |-> request[c].token]

Holds(log, audit) == \E i \in 1 .. Len(log) : log[i] = audit

Known(audit) == Holds(audits, audit)

Latest(records) ==
  IF Len(records) <= MaxAudits
  THEN records
  ELSE SubSeq(records, Len(records) - MaxAudits + 1, Len(records))

Appends(new) ==
  /\ audits' = Latest(audits \o new)
  /\ appended' = appended + Len(new)

(* An audit record is appended once. *)
Missing(log, audit) == IF Holds(log, audit) THEN <<>> ELSE <<audit>>

AppendsAudit(audit) == Appends(Missing(audits, audit))

Move(c, to) == place' = [place EXCEPT ![c] = to]

SetPlan(p, state) == planState' = [planState EXCEPT ![p] = state]

(* A new approval record, unless its identifier is already in the document. *)
NewApproval_Replacing(c, record) ==
  approvals' = [approvals EXCEPT ![ApprovalOf[<<PlanOf(c), request[c].token>>]] = record]

NewApproval(c, record) ==
  LET a == ApprovalOf[<<PlanOf(c), request[c].token>>] IN
  approvals' = [approvals EXCEPT ![a] = IF @ = NoRecord THEN record ELSE @]

(* _state_after_snooze: the state from before, if the evidence still holds. *)
StateAfterSnooze(p, t) ==
  IF PlanExpiry[p] <= t THEN {"expired"} ELSE {snoozedFrom[p], "invalidated"}

Due(p, t) == planState[p] = "snoozed" /\ snoozeUntil[p] <= t

-----------------------------------------------------------------------------
(* A request arrives; the time it carries is the time of its arrival.        *)

Arrive(c, r) ==
  /\ place[c] = "idle"
  /\ request' = [request EXCEPT ![c] = r]
  /\ asked' = [asked EXCEPT ![c] = clock]
  /\ Move(c, "load")
  /\ UNCHANGED <<document, kept, history, others>>

Ask(c, op, p, t) ==
  /\ op \in {"create", "approve", "reject", "resume"}
  /\ Arrive(c, [request[c] EXCEPT !.op = op, !.plan = p, !.token = t])

(* Revoking needs the identifier of an approval somebody was given. *)
AskToRevoke(c, a, t) ==
  /\ approvals[a] # NoRecord
  /\ Arrive(c, [request[c] EXCEPT !.op = "revoke", !.approval = a, !.token = t])

AskToSnooze(c, p, t, until) ==
  /\ clock < until /\ until <= clock + MaxSnooze
  /\ Arrive(c, [request[c] EXCEPT !.op = "snooze", !.plan = p, !.token = t,
                                  !.until = until])

AskToList(c) == Arrive(c, [request[c] EXCEPT !.op = "list"])

-----------------------------------------------------------------------------
(* The document is loaded and judged.                                        *)

Judge(c, op) ==
  /\ place[c] = "load"
  /\ request[c].op = op
  /\ UNCHANGED <<document, request, asked, history, others>>

(* The recommendation is missing or the planner declines, or not. *)
LoadCreate(c) ==
  /\ Judge(c, "create")
  /\ Move(c, "commit") \/ Move(c, "refused")
  /\ UNCHANGED kept

(* Any state is approved except these; the evidence must be current, the plan
   unexpired and every acknowledgement given. *)
LoadApprove(c) ==
  /\ Judge(c, "approve")
  /\ \/ /\ planState[PlanOf(c)] \notin {"absent", "snoozed", "invalidated"}
        /\ asked[c] < PlanExpiry[PlanOf(c)]
        /\ Move(c, "commit")
     \/ Move(c, "refused")
  /\ UNCHANGED kept

(* Any plan is rejected, whatever its state. *)
LoadReject(c) ==
  /\ Judge(c, "reject")
  /\ Move(c, IF planState[PlanOf(c)] = "absent" THEN "refused" ELSE "commit")
  /\ UNCHANGED kept

LoadRevoke(c) ==
  /\ Judge(c, "revoke")
  /\ LET record == approvals[request[c].approval] IN
     Move(c, IF record.state = "granted" /\ ~record.revoked
             THEN "commit" ELSE "refused")
  /\ UNCHANGED kept

(* Reviewable, never executed, and not locked; a retry is answered. *)
LoadSnooze(c) ==
  LET p == PlanOf(c) IN
  /\ Judge(c, "snooze")
  /\ kept' = [kept EXCEPT ![c] = planState[p]]
  /\ \/ /\ planState[p] # "absent"
        /\ Known(AuditOf(c, "proposal_snoozed"))
        /\ Move(c, "answered")
     \/ /\ ~Known(AuditOf(c, "proposal_snoozed"))
        /\ planState[p] \in SnoozeEligibleStates
        /\ ~\E e \in executions : e.plan = p
        /\ ~\E lock \in locks : lock.plan = p /\ ~lock.released
        /\ Move(c, "commit")
     \/ /\ \/ planState[p] = "absent"
           \/ /\ ~Known(AuditOf(c, "proposal_snoozed"))
              /\ \/ planState[p] \notin SnoozeEligibleStates
                 \/ \E e \in executions : e.plan = p
                 \/ \E lock \in locks : lock.plan = p /\ ~lock.released
        /\ Move(c, "refused")

(* Only a snoozed plan is resumed; a retry is answered. *)
LoadResume(c) ==
  LET p == PlanOf(c)
      retry == planState[p] # "absent" /\ Known(AuditOf(c, "proposal_resumed"))
  IN
  /\ Judge(c, "resume")
  /\ \/ retry /\ Move(c, "answered") /\ UNCHANGED kept
     \/ ~retry /\ planState[p] # "snoozed" /\ Move(c, "refused") /\ UNCHANGED kept
     \/ /\ ~retry
        /\ planState[p] = "snoozed"
        /\ \E state \in StateAfterSnooze(p, asked[c]) : kept' = [kept EXCEPT ![c] = state]
        /\ Move(c, "commit")

LoadList(c) ==
  /\ Judge(c, "list")
  /\ Move(c, IF \E p \in Plans : Due(p, asked[c]) THEN "commit" ELSE "answered")
  /\ UNCHANGED kept

-----------------------------------------------------------------------------
(* The commit.                                                               *)

Commit(c, op) ==
  /\ place[c] = "commit"
  /\ request[c].op = op
  /\ Move(c, "answered")
  /\ UNCHANGED <<request, asked, kept, others>>

(* A plan that exists stays as it is, whatever has become of it.  The record of a
   verdict may push an older one of the creation out of a full log. *)
CommitCreate(c) ==
  LET created == AuditOf(c, "plan_created") IN
  /\ Commit(c, "create")
  /\ planState' = [planState EXCEPT ![PlanOf(c)] =
                     IF @ = "absent" THEN "ready_for_review" ELSE @]
  /\ \/ AppendsAudit(created)
     \/ \E verdict \in {"llm_proposal_accepted", "llm_proposal_rejected"} :
          LET first == Missing(audits, AuditOf(c, verdict))
          IN  Appends(first \o Missing(Latest(audits \o first), created))
  /\ UNCHANGED <<approvals, snoozedFrom, snoozeUntil, snoozings>>

CommitApprove(c) ==
  /\ Commit(c, "approve")
  /\ SetPlan(PlanOf(c), "approved")
  /\ NewApproval(c, [plan |-> PlanOf(c), state |-> "granted", revoked |-> FALSE,
                     expires |-> asked[c] + ApprovalLease])
  /\ AppendsAudit(AuditOf(c, "approval_granted"))
  /\ UNCHANGED <<snoozedFrom, snoozeUntil, snoozings>>

CommitReject(c) ==
  /\ Commit(c, "reject")
  /\ SetPlan(PlanOf(c), "rejected")
  /\ NewApproval(c, [plan |-> PlanOf(c), state |-> "rejected", revoked |-> FALSE,
                     expires |-> 0])
  /\ AppendsAudit(AuditOf(c, "approval_rejected"))
  /\ UNCHANGED <<snoozedFrom, snoozeUntil, snoozings>>

(* Apart from its revocation an approval never changes, so the copy that was
   loaded and revoked is the current one revoked. *)
CommitRevoke(c) ==
  LET a == request[c].approval IN
  /\ Commit(c, "revoke")
  /\ approvals' = [approvals EXCEPT ![a].revoked = TRUE]
  /\ SetPlan(approvals[a].plan, "ready_for_review")
  /\ AppendsAudit(AuditOf(c, "approval_revoked"))
  /\ UNCHANGED <<snoozedFrom, snoozeUntil, snoozings>>

(* The duplicate test of the commit: another call with this token got there
   first. *)
Duplicate_Never(audit) == FALSE

Duplicate(audit) == Known(audit)

CommitSnooze(c) ==
  LET p == PlanOf(c)
      audit == AuditOf(c, "proposal_snoozed")
  IN
  /\ Commit(c, "snooze")
  /\ IF Duplicate(audit)
     THEN UNCHANGED <<document, history>>
     ELSE /\ SetPlan(p, "snoozed")
          /\ snoozedFrom' = [snoozedFrom EXCEPT ![p] = kept[c]]
          /\ snoozeUntil' = [snoozeUntil EXCEPT ![p] = request[c].until]
          /\ AppendsAudit(audit)
          /\ snoozings' = Append(snoozings, [token |-> request[c].token, plan |-> p,
                                             at |-> appended])
          /\ UNCHANGED approvals

CommitResume(c) ==
  LET audit == AuditOf(c, "proposal_resumed") IN
  /\ Commit(c, "resume")
  /\ IF Duplicate(audit)
     THEN UNCHANGED <<document, history>>
     ELSE /\ SetPlan(PlanOf(c), kept[c])
          /\ AppendsAudit(audit)
          /\ UNCHANGED <<approvals, snoozedFrom, snoozeUntil, snoozings>>

(* _expire_due_snoozes: every snooze that is over by now, in the document as it
   is now. *)
CommitList(c) ==
  LET due == {p \in Plans : Due(p, asked[c])}
      records == {[event |-> "proposal_snooze_expired", plan |-> p,
                   until |-> snoozeUntil[p]] : p \in due}
  IN
  /\ Commit(c, "list")
  /\ planState' \in {[p \in Plans |-> IF p \in due THEN restored[p] ELSE planState[p]] :
                       restored \in {f \in [due -> PlanStates] :
                                       \A p \in due : f[p] \in StateAfterSnooze(p, asked[c])}}
  /\ \E new \in SetToSeqs({r \in records : ~Known(r)}) : Appends(new)
  /\ UNCHANGED <<approvals, snoozedFrom, snoozeUntil, snoozings>>

(* All attempts lost, or no room in the document: the request raises. *)
CommitFails(c) ==
  /\ place[c] = "commit"
  /\ Move(c, "raised")
  /\ UNCHANGED <<document, request, asked, kept, history, others>>

-----------------------------------------------------------------------------

Arrival(c) ==
  \/ \E op \in Operations, p \in Plans, t \in Tokens : Ask(c, op, p, t)
  \/ \E a \in Approvals, t \in Tokens : AskToRevoke(c, a, t)
  \/ \E p \in Plans, t \in Tokens : \E until \in clock + 1 .. clock + MaxSnooze :
       AskToSnooze(c, p, t, until)
  \/ AskToList(c)

Step(c) ==
  \/ LoadCreate(c) \/ LoadApprove(c) \/ LoadReject(c) \/ LoadRevoke(c)
  \/ LoadSnooze(c) \/ LoadResume(c) \/ LoadList(c)
  \/ CommitCreate(c) \/ CommitApprove(c) \/ CommitReject(c) \/ CommitRevoke(c)
  \/ CommitSnooze(c) \/ CommitResume(c) \/ CommitList(c)
  \/ CommitFails(c)

Tick ==
  /\ clock < Horizon
  /\ clock' = clock + 1
  /\ UNCHANGED <<document, place, request, asked, kept, history, executions, locks>>

(* Home Assistant stops and starts: unanswered requests are lost. *)
Restart ==
  /\ place' = [c \in Clients |-> IF place[c] \in {"load", "commit"}
                                 THEN "lost" ELSE place[c]]
  /\ place' # place
  /\ UNCHANGED <<document, request, asked, kept, history, others>>

Next ==
  \/ \E c \in Clients : Arrival(c) \/ Step(c)
  \/ Tick
  \/ Restart

Spec == Init /\ [][Next]_vars

-----------------------------------------------------------------------------

(* What the approval records say, as the ledger sees it. *)
Subject ==
  [a \in Approvals |-> IF approvals[a] = NoRecord THEN "none" ELSE approvals[a].plan]

Decision ==
  [a \in Approvals |->
     CASE approvals[a] = NoRecord -> "none"
       [] approvals[a] # NoRecord /\ approvals[a].revoked -> "revoked"
       [] approvals[a] # NoRecord /\ ~approvals[a].revoked -> approvals[a].state]

(* A snooze request that is retried, also while the first is still being carried
   out, does not snooze its plan again, unless MaxAudits other records have been
   appended since (service.py 266-278, 1044). *)
SnoozedOnce ==
  \A i, j \in 1 .. Len(snoozings) :
    i < j /\ snoozings[i].token = snoozings[j].token
      => snoozings[j].at - snoozings[i].at > MaxAudits

=============================================================================
