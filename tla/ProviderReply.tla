----------------------------- MODULE ProviderReply -----------------------------
(***************************************************************************)
(* connectors/schemas.py, base.py and the two executors (ai_executor.py,   *)
(* ollama.py): what becomes of one answer of a model.  The first stage     *)
(* that refuses it names the failure; only a mistake of form is asked for  *)
(* again.                                                                  *)
(***************************************************************************)
EXTENDS Integers

(* The text: JSON on its own, inside a fence or prose, cut off, or none. *)
Texts == {"json", "wrapped", "cut", "prose"}

(* The object: every field, only advisory lists absent, a required field
   absent or unknown, a value of the wrong type. *)
Shapes == {"complete", "lists_absent", "fields_differ", "ill_typed"}

(* called: the provider answered with an envelope; stopped: it says that its
   output budget ended the answer; executable: a YAML key in the advice. *)
Replies ==
  [called: BOOLEAN, text: Texts, stopped: BOOLEAN, shape: Shapes, executable: BOOLEAN]

(* parse_llm_json: a whole value, alone or as the one span found in the text. *)
Parses(r) == r.text \in {"json", "wrapped"}

(* Only the direct connector reads the provider's reason for stopping. *)
CutOff(r, direct) == direct /\ r.stopped

(* repair_ai_response: an absent advisory list is an empty one. *)
Repaired(shape) == IF shape = "lists_absent" THEN "complete" ELSE shape

Stage(r, direct) ==
  IF ~r.called THEN "call_provider"
  ELSE IF ~Parses(r) \/ CutOff(r, direct) THEN "parse_response"
  ELSE IF Repaired(r.shape) # "complete" THEN "validate_schema"
  ELSE IF r.executable THEN "validate_semantics"
  ELSE "accepted"

RecoverableStages == {"parse_response", "validate_schema"}

ParseRetries == 2

=============================================================================
