--------------------------- MODULE ApprovalLedger ---------------------------
(***************************************************************************)
(* What the approval records promise (domain/remediation_approval.py,      *)
(* ApprovalRecord): an identifier stands for exactly one human decision    *)
(* about one plan.  A decision is never replaced; a granted one may be     *)
(* revoked, once and for all.                                              *)
(***************************************************************************)

CONSTANTS
  Approvals,          \* approval identifiers
  Plans               \* remediation plans

VARIABLES
  subject,            \* the plan each decision is about, or "none"
  decision            \* what was decided under each identifier

vars == <<subject, decision>>

Decisions == {"none", "granted", "rejected", "revoked"}

Init ==
  /\ subject = [a \in Approvals |-> "none"]
  /\ decision = [a \in Approvals |-> "none"]

(* A human decides about a plan. *)
Decide(a, p, d) ==
  /\ decision[a] = "none"
  /\ decision' = [decision EXCEPT ![a] = d]
  /\ subject' = [subject EXCEPT ![a] = p]

(* Authority that was granted is taken back. *)
Revoke(a) ==
  /\ decision[a] = "granted"
  /\ decision' = [decision EXCEPT ![a] = "revoked"]
  /\ UNCHANGED subject

Next ==
  \E a \in Approvals :
    \/ \E p \in Plans, d \in {"granted", "rejected"} : Decide(a, p, d)
    \/ Revoke(a)

Spec == Init /\ [][Next]_vars

=============================================================================
