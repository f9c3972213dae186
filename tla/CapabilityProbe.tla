---------------------------- MODULE CapabilityProbe ----------------------------
(***************************************************************************)
(* application/capability_probe.py and compute_verdict of                  *)
(* domain/capability.py: what the probes ask of a model, what one answer   *)
(* shows, and the verdict on all of them.  An answer here has passed the   *)
(* parser and the schema, so it always follows the instructions; how often *)
(* attempts of one probe agree is reported and decides nothing.            *)
(***************************************************************************)
EXTENDS Integers, FiniteSets, FiniteSetsExt

Probe(name, repeats, expects, kind) ==
  [name |-> name, repeats |-> repeats, expects |-> expects, kind |-> kind]

(* The conflicts that HAMIE's order of evidence settles, and the others. *)
ContradictionClasses == ({"resolvable"} \X (1 .. 11)) \cup ({"unresolvable"} \X (1 .. 9))

contradiction_probe_cases ==
  {Probe(class, 1, {"contradiction"}, class[1]) : class \in ContradictionClasses}

default_probe_cases ==
  {Probe(<<"stale_reference_obvious", 0>>, 3, {"identifiers"}, "none"),
   Probe(<<"entity_still_exists", 0>>, 2, {"identifiers", "no_repair"}, "none"),
   Probe(<<"ambiguous_successor", 0>>, 2, {"identifiers", "contradiction"}, "none"),
   Probe(<<"insufficient_evidence", 0>>, 2, {"abstention"}, "none"),
   Probe(<<"contradictory_evidence", 0>>, 2, {"contradiction"}, "none"),
   Probe(<<"realistic_group_size", 0>>, 2, {}, "none"),
   Probe(<<"opaque_identifier_preservation", 0>>, 3, {"identifiers"}, "none")}
  \cup contradiction_probe_cases

Runs == UNION {{c} \X (1 .. c.repeats) : c \in default_probe_cases}

-----------------------------------------------------------------------------
(* A call that failed                                                        *)

ConnectivityFailures ==
  {"timeout", "authentication_failed", "model_unavailable", "model_not_found",
   "entity_not_found", "connection_failed", "endpoint_not_allowed"}

Codes ==
  ConnectivityFailures \cup
  {"provider_response_not_json", "schema_validation_failed", "ai_response_truncated",
   "evidence_payload_too_large", "semantic_validation_failed"}

(* A code that is not listed counts against the form of the answer; two of
   the failures to connect are not. *)
ErrorDimension(code) ==
  CASE code \in {"ai_response_truncated", "evidence_payload_too_large"} -> "boundedness"
    [] code = "semantic_validation_failed" -> "semantic_validity"
    [] code \in ConnectivityFailures \ {"connection_failed", "endpoint_not_allowed"} ->
         "connectivity"
    [] OTHER -> "structured_output"

-----------------------------------------------------------------------------
(* One answer                                                                *)

(* code: why there is no answer, the rest meaning nothing then; cites: which
   finding ids; flags: it records missing evidence, which lacks says, or
   assumptions; long: beyond the budget. *)
Answer ==
  [code : Codes \cup {"none"}, cites : {"given", "invented", "nothing"}, proposes : BOOLEAN,
   lacks : BOOLEAN, flags : BOOLEAN, confidence : {"low", "medium", "high"},
   causes : BOOLEAN, long : BOOLEAN]

Abstained(a) == ~a.proposes /\ a.lacks /\ a.confidence # "high"

(* An unlabelled conflict counts as one that nothing settles. *)
HandledContradiction(a, kind) ==
  IF kind = "resolvable"
  THEN ~(a.confidence = "low" /\ a.flags /\ ~a.causes)
  ELSE a.confidence # "high" /\ a.flags

Meets(a, case, expectation) ==
  CASE expectation = "identifiers" -> a.cites = "given"
    [] expectation = "no_repair" -> ~a.proposes
    [] expectation = "abstention" -> Abstained(a)
    [] expectation = "contradiction" -> HandledContradiction(a, case.kind)

DimensionOf ==
  [identifiers |-> "identifier_preservation", no_repair |-> "semantic_validity",
   abstention |-> "abstention", contradiction |-> "contradiction_handling"]

-----------------------------------------------------------------------------
(* All runs: a manner is what each of them met                               *)

Failed(manner, run) == manner[run].code # "none"

Result(dimension, by, passed) == [dimension |-> dimension, by |-> by, passed |-> passed]

Measured(manner, run) ==
  LET met == manner[run]
      case == run[1]
  IN IF Failed(manner, run)
     THEN {Result("connectivity", "call", met.code \notin ConnectivityFailures),
           Result(ErrorDimension(met.code), "code", FALSE)}
     ELSE {Result(d, "pipeline", TRUE) :
             d \in {"connectivity", "structured_output", "semantic_validity"}}
          \cup {Result("boundedness", "length", ~met.long)}
          \cup {Result(DimensionOf[e], e, Meets(met, case, e)) : e \in case.expects}

Tally(manner, dimension, passing) ==
  LET Of(run) == {r \in Measured(manner, run) : r.dimension = dimension /\ (passing => r.passed)}
  IN MapThenSumSet(LAMBDA run : Cardinality(Of(run)), Runs)

(* DimensionResult, in tenths: below four of ten the model cannot do the job,
   from eight of ten the dimension is satisfied. *)
Level(manner, dimension) ==
  LET attempted == Tally(manner, dimension, FALSE)
      passed == Tally(manner, dimension, TRUE)
  IN IF attempted = 0 THEN "unmeasured"
     ELSE IF passed * 10 >= attempted * 8 THEN "satisfied"
     ELSE IF passed * 10 >= attempted * 4 THEN "short" ELSE "below"

RequiredDimensions ==
  {"connectivity", "structured_output", "semantic_validity",
   "identifier_preservation", "boundedness"}

JudgementDimensions == {"abstention", "contradiction_handling"}

ConnectivityOk(manner) ==
  \E run \in Runs : manner[run].code \notin ConnectivityFailures

Verdicts == {"capable", "degraded", "incapable", "provider_unavailable"}

(* Connectivity counts among the required dimensions only when no run at all
   reached the provider. *)
ComputeVerdict(manner) ==
  LET required == {Level(manner, d) : d \in RequiredDimensions \ {"connectivity"}}
      judgement == {Level(manner, d) : d \in JudgementDimensions}
  IN IF ~ConnectivityOk(manner) THEN "provider_unavailable"
     ELSE IF "below" \in required THEN "incapable"
     ELSE IF required # {"satisfied"} \/ judgement \cap {"short", "below"} # {}
     THEN "degraded" ELSE "capable"

=============================================================================
