----------------------------- MODULE MCAiAnalysis -----------------------------
(* Two groups of findings, two provider configurations. *)
EXTENDS AiAnalysis

CONSTANTS f1, f2, f3, g1, g2, c1, c2

TwoFindings == {f1, f2}
TwoGroups == [f \in Findings |-> IF f = f1 THEN g1 ELSE g2]
OneIncident == {{f1}}
OneConfig == {c1}
TwoConfigs == {c1, c2}

Right ==
  [code |-> "none", cites |-> "given", proposes |-> FALSE, lacks |-> TRUE, flags |-> TRUE,
   confidence |-> "medium", causes |-> TRUE, long |-> FALSE]

(* Every answer right; a repair for everything; answers too long half of the
   time; no answer at all; no answer but one. *)
Careful == [run \in Runs |-> Right]
Eager ==
  [run \in Runs |-> [Right EXCEPT !.proposes = TRUE, !.confidence = "high", !.lacks = FALSE]]
Wordy ==
  [run \in Runs |->
     IF run[2] = 1 THEN [Right EXCEPT !.code = "ai_response_truncated"] ELSE Right]
Away == [run \in Runs |-> [Right EXCEPT !.code = "timeout"]]
Once ==
  [run \in Runs |->
     IF run = <<Probe(<<"entity_still_exists", 0>>, 2, {"identifiers", "no_repair"}, "none"), 1>>
     THEN Right ELSE Away[run]]

OneModel == [c \in Configs |-> {Careful, Eager}]
TwoModels == [c \in Configs |-> IF c = c1 THEN {Careful, Eager} ELSE {Wordy}]

(* The verdicts on these, the last of them by the rule that leaves
   connectivity out as soon as one run reached the provider. *)
ASSUME VerdictAssumption ==
  /\ ComputeVerdict(Careful) = "capable"
  /\ ComputeVerdict(Eager) = "degraded"
  /\ ComputeVerdict(Wordy) = "incapable"
  /\ ComputeVerdict(Away) = "provider_unavailable"
  /\ ComputeVerdict(Once) = "capable"

=============================================================================
