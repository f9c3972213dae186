--------------------------- MODULE MCEntryLifecycle ---------------------------
(* One connector, and documents of every kind a start may find. *)
EXTENDS EntryLifecycle

CONSTANT n8n

MCConnectors == {n8n}

Plain(version, covers, body, whole) ==
  [version |-> version, covers |-> covers, body |-> body, whole |-> whole, gen |-> 1,
   author |-> 0, journal |-> "none", checkpoint |-> Nothing]

Whole == {Plain(v, TRUE, "valid", TRUE) : v \in {0, 1, 8, 10, 11}}
Damaged ==
  {Plain(v, TRUE, b, w) : v \in {0, 1, 8, 10}, b \in {"invalid", "none"}, w \in BOOLEAN}
  \cup {Plain(v, TRUE, "valid", FALSE) : v \in {1, 8, 10}}
  \cup {Plain(v, FALSE, "valid", TRUE) : v \in {1, 8, 10}}
Interrupted ==
  {[Plain(v, TRUE, "valid", TRUE) EXCEPT !.journal = "open", !.checkpoint = c] :
     v \in {8, 10}, c \in {Nothing, Plain(8, TRUE, "valid", TRUE), Plain(1, TRUE, "invalid", TRUE)}}

MCDocuments == {Nothing} \cup Whole \cup Damaged \cup Interrupted

=============================================================================
