----------------------------- MODULE CleanupRules -----------------------------
(* The rule book of the cleanup engine, without state: how one unavailable
   entity is classified, how the entities that are not acted upon are grouped
   and merged into the durable work list, and which mode of operation may act
   without asking.

   Of the evidence about an entity the rules read: whether it is excluded,
   disabled, how long the finding says it was down, how many siblings of its
   device are down, whether something refers to it and how well the references
   were scanned.  Durations are compared with the policy's minimum, so they are
   "none", "short" or "long".                                               *)
EXTENDS Integers, FiniteSets

Ratio == 6          \* PARENT_FAILURE_RATIO_THRESHOLD, in tenths
MinSiblings == 3    \* MIN_SIBLINGS_FOR_PARENT_FAILURE
Rank == [low |-> 0, medium |-> 1, high |-> 2, none |-> 3]

OptionalCategories == {"diagnostic", "config"}

(* The first entry of a list of <<condition, answer>> whose condition holds. *)
FirstOf(list) ==
  LET held == {i \in DOMAIN list : list[i][1]} IN
  list[CHOOSE i \in held : \A j \in held : i <= j][2]

-----------------------------------------------------------------------------
(* compute_parent_unavailable_ratios: only primary members of the device, and
   all of them, not only those that are findings.                           *)
Primary(members) == {m \in members : m.category \notin OptionalCategories}

Siblings(members) ==
  LET primary == Primary(members) IN
  [down |-> Cardinality({m \in primary : m.down}), all |-> Cardinality(primary)]

ParentFailed(c) ==
  /\ c.category \notin OptionalCategories
  /\ c.siblings.all >= MinSiblings
  /\ 10 * c.siblings.down >= Ratio * c.siblings.all

(* "complete": every scanned source answered; "missing": some are unavailable;
   "failed": some failed.                                                    *)
CoverageSuffices(c, policy) ==
  IF policy.coverage = "complete" THEN c.coverage = "complete" ELSE c.coverage # "failed"

Verdicts(c, policy) ==
  << <<c.excluded, <<"manual_review", "policy_excluded">> >>,
     <<c.disabled, <<"already_clean", "already_disabled">> >>,
     <<c.down = "none", <<"already_clean", "currently_available">> >>,
     <<c.expected, <<"expected_behavior", "expected_unavailable">> >>,
     <<ParentFailed(c), <<"parent_integration_failure", "parent_health_unknown">> >>,
     <<c.down = "short", <<"transient_issue", "unavailable_duration_insufficient">> >>,
     <<c.referenced, <<"blocked_dependency", "dynamic_reference_unresolved">> >>,
     <<~CoverageSuffices(c, policy),
       <<"blocked_uncertain", "dependency_coverage_incomplete">> >>,
     <<Rank[c.confidence] < Rank[policy.confidence],
       <<"blocked_uncertain", "ai_confidence_below_minimum">> >>,
     <<c.category \in OptionalCategories, <<"safe_auto_fix", "safe_optional_entity">> >>,
     <<TRUE, <<"safe_with_approval", "safe_primary_entity">> >> >>

(* classify_cleanup_candidate: <<classification, reason code>>. *)
Classify(c, policy) == FirstOf(Verdicts(c, policy))

-----------------------------------------------------------------------------
(* The durable work list.                                                    *)

LifecycleOf ==
  [manual_review |-> "manual_repair", blocked_dependency |-> "dependency_blocked",
   blocked_uncertain |-> "needs_evidence",
   parent_integration_failure |-> "ai_investigation"]

UserManaged == {"snoozed", "completed"}

(* DECISION_LIFECYCLE *)
DecisionLifecycle == [keep |-> "completed", unsure |-> "needs_evidence"]

(* Grouping by verdict; one device, so the device adds nothing to the key. The
   evidence fingerprint stands for the group's members.                      *)
Grouped(verdicts) ==
  LET durable == {v \in {verdicts[e] : e \in DOMAIN verdicts} : v[1] \in DOMAIN LifecycleOf}
  IN [v \in durable |->
        [life |-> LifecycleOf[v[1]], evidence |-> {e \in DOMAIN verdicts : verdicts[e] = v}]]

(* merge_maintenance_work_records: what the user manages stays, the rest is
   what this pass found.                                                     *)
Merged(existing, fresh) ==
  LET managed == {k \in DOMAIN existing : existing[k].life \in UserManaged} IN
  [k \in managed \cup DOMAIN fresh |-> IF k \in managed THEN existing[k] ELSE fresh[k]]

-----------------------------------------------------------------------------
(* Modes of operation.                                                       *)

(* AI Control needs the option and a current acknowledgement. *)
EffectiveMode(configured, acknowledged) ==
  IF configured = "ai_control" /\ acknowledged # "current"
  THEN "assisted_cleanup" ELSE configured

LowAllowed(mode, setting) == mode # "observe" /\ setting
MediumAllowed(mode, setting) == mode = "ai_control" /\ setting

(* is_risk_class_auto_executable *)
AutoExecutable(risk, mode, low, medium) ==
  \/ risk = "low" /\ LowAllowed(mode, low)
  \/ risk = "medium" /\ MediumAllowed(mode, medium)

=============================================================================
