---------------------------- MODULE AtomicUpdate ----------------------------
(***************************************************************************)
(* What HAMIE's repository promises to every caller of _commit_with_retry: *)
(* an update is applied once, atomically, to the latest document, or it is *)
(* refused and the document does not change.                               *)
(***************************************************************************)
EXTENDS Sequences

CONSTANT Writers      \* the calls that update the repository document

VARIABLES
  history,            \* the updates the document holds, oldest first
  outcome             \* what has become of each call

vars == <<history, outcome>>

Init ==
  /\ history = <<>>
  /\ outcome = [w \in Writers |-> "pending"]

(* The update takes effect on the document as it is at that moment. *)
Apply(w) ==
  /\ outcome[w] = "pending"
  /\ history' = Append(history, w)
  /\ outcome' = [outcome EXCEPT ![w] = "applied"]

(* The caller is told, or dies believing, that nothing was written. *)
Refuse(w) ==
  /\ outcome[w] = "pending"
  /\ outcome' = [outcome EXCEPT ![w] = "refused"]
  /\ UNCHANGED history

(* A crash may end several calls at once, none of which has taken effect. *)
RefuseAll(ws) ==
  /\ \A w \in ws : outcome[w] = "pending"
  /\ outcome' = [w \in Writers |-> IF w \in ws THEN "refused" ELSE outcome[w]]
  /\ UNCHANGED history

Next ==
  \/ \E w \in Writers : Apply(w) \/ Refuse(w)
  \/ \E ws \in SUBSET Writers : RefuseAll(ws)

Spec == Init /\ [][Next]_vars

=============================================================================
