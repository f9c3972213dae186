----------------------------- MODULE RecoveryRules -----------------------------
(***************************************************************************)
(* domain/durable_baseline.py: the durable record of one repair, what a    *)
(* restart may conclude from it and from the files as they are now         *)
(* (reconcile_interrupted_remediation), and which records are retained.    *)
(*                                                                         *)
(* A file is known by its content: whether it holds the stale reference    *)
(* ("stale"), the replacement ("fixed") or was cut short by a write that   *)
(* failed ("torn"), and how often its owner has edited it.  Contents are   *)
(* equal exactly when their hashes are.                                    *)
(***************************************************************************)
EXTENDS Integers, FiniteSets

CONSTANTS
  Files,              \* configuration files
  Repairs,            \* calls of async_execute
  MaxEdits,           \* bound on the edits of the files by their owner
  MaxRetained,        \* MAX_RETAINED_REMEDIATION_BASELINES = 25
  Absent,             \* a file that does not exist
  Unreadable,         \* a file that cannot be read now
  NoPlan              \* no plan can be derived

ASSUME RetainedAssumption == MaxRetained \in Nat /\ MaxEdits \in Nat

Content == [ref : {"stale", "fixed", "torn"}, edit : 0 .. MaxEdits]

(* async_plan_locations: before.replace(old_entity, new_entity). *)
Repaired(content) ==
  IF content.ref = "stale" THEN [content EXCEPT !.ref = "fixed"] ELSE content

(* RepairPlan.plan_identity: of what can differ here, the files that hold the
   stale reference and their contents. *)
Plans == UNION {[locations -> Content] : locations \in SUBSET Files}

(* RemediationBaseline.  "id" is the plan identity, "pre" the content of each
   file before the repair; the expected post-state follows from it. *)
Baseline ==
  [id : Plans, owner : Repairs, pre : Plans,
   backupComplete : BOOLEAN, writeBegan : BOOLEAN, writeComplete : BOOLEAN,
   validationPassed : BOOLEAN, rollbackBegan : BOOLEAN, complete : BOOLEAN]

RecoveryOutcomes ==
  {"not_started", "pre_state_confirmed", "backup_created", "post_state_confirmed",
   "validated_success", "rollback_required", "rolled_back", "diverged", "stale_plan",
   "approval_invalid", "incident_no_longer_present", "protected_effect_changed",
   "recovery_required", "manual_review_required", "material_retired"}

(* NO_MUTATION_OUTCOMES, by what is left: the mutation may still be applied. *)
MayApply(outcome) == outcome \in {"not_started", "pre_state_confirmed", "backup_created"}

(* TERMINAL_RECOVERY_OUTCOMES: nothing further is owed. *)
Terminal(outcome) ==
  outcome \in {"incident_no_longer_present", "rolled_back", "validated_success",
               "material_retired"}

-----------------------------------------------------------------------------
(* reconcile_interrupted_remediation                                         *)

AtPre(b, o) == {f \in DOMAIN b.pre : o.seen[f] = b.pre[f]}

AtPost(b, o) == {f \in DOMAIN b.pre : o.seen[f] = Repaired(b.pre[f])} \ AtPre(b, o)

Unmatched(b, o) == DOMAIN b.pre \ (AtPre(b, o) \union AtPost(b, o))

(* Removal of everything was observed, and nothing needs it any more. *)
MaterialGone(b, o) ==
  /\ DOMAIN b.pre # {}
  /\ o.readerAvailable
  /\ \A f \in DOMAIN b.pre : o.seen[f] = Absent
  /\ ~o.referenced
  /\ ~o.incidentPresent
  /\ o.fresh

WhenPost(b) ==
  IF b.rollbackBegan THEN "rollback_required"
  ELSE IF b.validationPassed THEN "validated_success"
  ELSE "post_state_confirmed"

(* No file was changed, and the approved plan is still the current one. *)
WhenUnchanged_RollbackForgotten(b, o) ==
  IF b.writeBegan THEN "pre_state_confirmed"
  ELSE IF ~b.backupComplete THEN "not_started"
  ELSE IF o.backupsPresent THEN "backup_created"
  ELSE "manual_review_required"

WhenUnchanged(b, o) ==
  IF b.rollbackBegan THEN "rolled_back"
  ELSE IF b.writeBegan THEN "pre_state_confirmed"
  ELSE IF ~b.backupComplete THEN "not_started"
  ELSE IF o.backupsPresent THEN "backup_created"
  ELSE "manual_review_required"

(* No file was changed: may the repair still be applied? *)
WhenPre(b, o) ==
  IF ~o.incidentPresent THEN "incident_no_longer_present"
  ELSE IF o.identity # NoPlan /\ o.protectionChanged THEN "protected_effect_changed"
  ELSE IF o.identity = NoPlan THEN "stale_plan"
  ELSE IF o.identity # b.id THEN "approval_invalid"
  ELSE WhenUnchanged(b, o)

(* What forbids continuing comes before what permits it. *)
Decide(b, o) ==
  IF MaterialGone(b, o) THEN "material_retired"
  ELSE IF Unmatched(b, o) # {} THEN "diverged"
  ELSE IF AtPre(b, o) # {} /\ AtPost(b, o) # {} THEN "recovery_required"
  ELSE IF AtPost(b, o) # {} THEN WhenPost(b)
  ELSE WhenPre(b, o)

-----------------------------------------------------------------------------

Incomplete(baselines) == {b \in baselines : ~b.complete}

(* prune_remediation_baselines: incomplete records are always kept, complete
   ones as far as room is left.  Which complete ones are newest is not
   modelled: any may be. *)
Retained(baselines) ==
  {kept \in SUBSET baselines :
     /\ Incomplete(baselines) \subseteq kept
     /\ LET completed == Cardinality(baselines) - Cardinality(Incomplete(baselines))
            room == MaxRetained - Cardinality(Incomplete(baselines))
        IN Cardinality(kept) - Cardinality(Incomplete(baselines))
             = IF room < 0 THEN 0 ELSE IF room < completed THEN room ELSE completed}

(* runtime.py _save_remediation_baseline: the record of the same repair is
   replaced as a whole. *)
Replaced(baselines, b) == {other \in baselines : other.id # b.id} \union {b}

=============================================================================
