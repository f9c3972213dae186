--------------------------- MODULE MCEntityCleanup ---------------------------
(* Two optional entities and one primary entity of a device with two further
   primary entities; the optional ones are interchangeable.  The second pass may
   act on its own on what the first has proposed or done.                    *)
EXTENDS EntityCleanup, TLC

CONSTANTS d1, d2, m1, b1, b2

MCEntities == {d1, d2, m1}
MCCategory == [e \in Entities |-> IF e = m1 THEN "primary" ELSE "diagnostic"]
MCBackground == {b1, b2}
NoEntity == {}
MCModes == <<{"observe"}, {"assisted_cleanup"}>>
AnyOrder == Permutations({d1, d2})

=============================================================================
