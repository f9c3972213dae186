----------------------------- MODULE FindingLedger -----------------------------
(***************************************************************************)
(* What a scan and an operator do to the findings of the document:         *)
(* application/reconciliation.py, the suppression policies of              *)
(* domain/intelligence.py, the review commands of application_service.py,  *)
(* the coverage a supervisor claims for what it looked at, and the         *)
(* incidents that are made of the findings.                                *)
(*                                                                         *)
(* A finding is known by its analyzer and its subject.  A condition is 0   *)
(* when there is nothing to report, and otherwise stands for the material  *)
(* digest of what is reported.                                             *)
(***************************************************************************)
EXTENDS Integers

CONSTANTS
  Analyzers,
  Subjects,           \* entities
  MaxDigest,          \* how many different conditions of one subject there are
  MaxRevision,        \* bound on the content revision of a finding
  MaxTime,            \* bound on the clock
  NoFinding

Keys == Analyzers \X Subjects

Conditions == [Keys -> 0 .. MaxDigest]

ReviewStates == {"new", "acknowledged", "snoozed", "retained", "dismissed"}

(* Finding, as the document has it: only what decides about it.  "until" is 0 without a snooze, and
   "partial" tells that the analyzer that last saw it did not see everything. *)
StoredFinding ==
  [open : BOOLEAN, review : ReviewStates, until : 0 .. MaxTime,
   revision : Nat \ {0}, digest : 1 .. MaxDigest, partial : BOOLEAN]

ASSUME LedgerAssumption ==
  /\ MaxDigest \in Nat /\ MaxRevision \in Nat \ {0} /\ MaxTime \in Nat
  /\ NoFinding \notin StoredFinding

(* ALLOWED_PRIOR_STATES *)
Allowed(from, to) ==
  CASE to = "acknowledged" -> from = "new"
    [] to = "snoozed" -> from \in {"new", "acknowledged", "retained"}
    [] to = "retained" -> from \in {"new", "acknowledged"}
    [] to = "dismissed" -> from # "dismissed"
    [] to = "new" -> from # "new"

-----------------------------------------------------------------------------
(* One scan                                                                  *)

(* A capture that is inconsistent, incomplete or too old covers nothing and
   reports nothing; otherwise an analyzer reports on the subjects it covered,
   and may leave some uncovered. *)
Evaluation(capture, usable, covered) ==
  [covered |-> [a \in Analyzers |-> IF usable THEN covered[a] ELSE {}],
   condition |-> [k \in Keys |-> IF usable /\ k[2] \in covered[k[1]] THEN capture[k] ELSE 0]]

Partial(key, result) == result.covered[key[1]] # Subjects

(* reconcile_findings: a condition that is reported. *)
Candidate(finding, digest, partial) ==
  IF finding = NoFinding
  THEN [open |-> TRUE, review |-> "new", until |-> 0, revision |-> 1, digest |-> digest,
        partial |-> partial]
  ELSE LET changed == finding.digest # digest
           reset == changed \/ ~finding.open
       IN [open |-> TRUE,
           review |-> IF reset THEN "new" ELSE finding.review,
           until |-> IF reset THEN 0 ELSE finding.until,
           revision |-> IF changed THEN finding.revision + 1 ELSE finding.revision,
           digest |-> digest,
           partial |-> partial]

(* A condition that is not reported is gone only where its analyzer looked. *)
ConclusivelyAbsent_EvenUncovered(finding, key, result) == finding # NoFinding /\ finding.open

ConclusivelyAbsent(finding, key, result) ==
  finding # NoFinding /\ finding.open /\ key[2] \in result.covered[key[1]]

(* Each analyzer touches its own findings only. *)
ReconcileFindings(findings, result) ==
  [k \in Keys |->
     IF result.condition[k] # 0
     THEN Candidate(findings[k], result.condition[k], Partial(k, result))
     ELSE IF ConclusivelyAbsent(findings[k], k, result)
     THEN [findings[k] EXCEPT !.open = FALSE, !.partial = Partial(k, result)]
     ELSE findings[k]]

(* record_policy_reopens: a review that reconciliation reset is recorded. *)
WasReset_OnlyChanged(before, after) ==
  before # NoFinding /\ before.review # "new" /\ after.review = "new"
    /\ before.digest # after.digest

WasReset(before, after) ==
  /\ before # NoFinding /\ before.review # "new" /\ after.review = "new"
  /\ ~before.open \/ before.digest # after.digest

(* reopen_expired_snoozes: only when this scan saw the condition again. *)
SnoozeEnds_Unconfirmed(finding, key, result, at) ==
  finding # NoFinding /\ finding.open /\ finding.review = "snoozed" /\ finding.until <= at

SnoozeEnds(finding, key, result, at) ==
  /\ result.condition[key] # 0
  /\ finding.open /\ finding.review = "snoozed" /\ finding.until # 0 /\ finding.until <= at

(* apply_suppression_reviews: of the matching rules only the one of highest
   precedence counts, and only two kinds change a review. *)
PolicyReview(rules) ==
  IF "hide" \in rules THEN "none"
  ELSE IF "snooze" \in rules THEN "snoozed"
  ELSE IF "acknowledge" \in rules THEN "acknowledged"
  ELSE "none"

PolicyApplies(finding, rules) ==
  /\ finding # NoFinding /\ finding.open
  /\ PolicyReview(rules) # "none"
  /\ Allowed(finding.review, PolicyReview(rules))

(* What one scan makes of the findings, and of what the newest review record of
   each tells.  "ends" is when the snooze policy expires; it is not active any
   more after that. *)
ScanOf(findings, told, result, rules, ends, at) ==
  LET active == IF at < ends THEN rules ELSE rules \ {"snooze"}
      to == PolicyReview(active)
      reconciled == ReconcileFindings(findings, result)
      reset == {k \in Keys : WasReset(findings[k], reconciled[k])}
      ended == {k \in Keys : SnoozeEnds(reconciled[k], k, result, at)}
      awake == [k \in Keys |->
                  IF k \in ended
                  THEN [reconciled[k] EXCEPT !.review = "new", !.until = 0]
                  ELSE reconciled[k]]
      ruled == {k \in Keys : PolicyApplies(awake[k], active)}
  IN [findings |->
        [k \in Keys |->
           IF k \in ruled
           THEN [awake[k] EXCEPT !.review = to, !.until = IF to = "snoozed" THEN ends ELSE 0]
           ELSE awake[k]],
      told |->
        [k \in Keys |->
           IF k \in ruled THEN to ELSE IF k \in reset \union ended THEN "new" ELSE told[k]]]

-----------------------------------------------------------------------------
(* One review command: the finding is open, its content is the one the operator
   saw, and the review is allowed from the present one. *)

Reviewable(finding, revision, to) ==
  /\ finding # NoFinding
  /\ finding.open
  /\ finding.revision = revision
  /\ Allowed(finding.review, to)

Reviewed(finding, to, until) == [finding EXCEPT !.review = to, !.until = until]

-----------------------------------------------------------------------------
(* Incidents (domain/incidents.py): the findings of one analyzer share a root. *)

UserStates == {"investigating", "confirmed", "dismissed", "ignored"}

IncidentStates == UserStates \union {"none", "new", "resolved", "recurring", "regressed"}

Counts_Unreviewed(finding) ==
  finding # NoFinding /\ finding.open /\ finding.review = "new"

Counts(finding) ==
  /\ finding # NoFinding
  /\ finding.open
  /\ finding.review \notin {"dismissed", "retained", "snoozed"}

(* _candidate_from_bucket: the members, what they report, and whether all of
   that was seen completely. *)
Material(findings, root) ==
  {<<k, findings[k].digest, findings[k].partial>> :
     k \in {k \in Keys : k[1] = root /\ Counts(findings[k])}}

(* reconcile_incidents, for one root *)
IncidentAfter(incident, material) ==
  LET waived == incident.state \in {"dismissed", "ignored"}
      changed == incident.material # material
      next == IF incident.state = "none" THEN "new"
              ELSE IF incident.state = "resolved" \/ (waived /\ changed) THEN "regressed"
              ELSE IF incident.state \in UserStates THEN incident.state
              ELSE "recurring"
  IN IF material # {} THEN [material |-> material, state |-> next]
     ELSE IF incident.state = "none" THEN incident
     ELSE [incident EXCEPT !.state = "resolved"]

=============================================================================
