---------------------------- MODULE MCAnalyzerScan -----------------------------
(* Six installations: an automation registered again under a numbered id, or under
   two; a sensor with an abandoned fork; a lamp that moved to another domain; and
   two whose scans may be refused. *)
EXTENDS AnalyzerScan, TLC

CONSTANTS x, x2, x3, x4, m, m2, light, switch, d1, d2

MCEntities == {x, x2, x3, x4, m, m2, light, switch}
MCBase == x2 :> x @@ x4 :> x @@ x3 :> x2 @@ m2 :> m
MCTwin == light :> switch
MCNewer == {<<x, x2>>}
MCCreated == [e \in MCEntities |-> CASE e \in {x, m} -> 1 [] e = x2 -> 2 [] e \in {x3, x4} -> 3 [] OTHER -> 0]

R(listed, disabled, signal, home, removed) ==
  [listed |-> listed, disabled |-> disabled, signal |-> signal, home |-> home,
   removed |-> removed]

Fine == R(TRUE, FALSE, "ok", NoHome, FALSE)
Owned == R(TRUE, FALSE, "ok", d1, FALSE)
Elsewhere == R(TRUE, FALSE, "ok", d2, FALSE)
Down == R(TRUE, FALSE, "down", d1, FALSE)
Ghost == R(TRUE, FALSE, "ghost", NoHome, FALSE)
Off == R(TRUE, TRUE, "ghost", NoHome, FALSE)
Gone == R(TRUE, FALSE, "down", NoHome, TRUE)
Bare == R(FALSE, FALSE, "ok", NoHome, FALSE)

World(rows, defines, mentions, calls, refs) ==
  [rows |-> [e \in Entities |-> IF e \in DOMAIN rows THEN rows[e] ELSE Absent],
   defines |-> defines, mentions |-> mentions, calls |-> calls, refs |-> refs]

Renumbered ==
  {World(x :> p[1] @@ x2 :> p[2], {d}, using, <<>>, using) :
     p \in {<<Fine, Fine>>, <<Fine, Ghost>>, <<Off, Fine>>},
     d \in {x, x2}, using \in SUBSET {x}}

Forked ==
  {World(m :> r1 @@ m2 :> r2, {}, {}, <<>>, refs) :
     r1 \in {Owned, Gone}, r2 \in {Absent, Owned, Elsewhere, Off}, refs \in SUBSET {m2}}
    \union {World(m :> Owned @@ m2 :> r2, {m2}, {}, <<>>, {}) : r2 \in {Bare, Owned}}

(* A call is a reference. *)
Moved ==
  {World(light :> r1 @@ switch :> r2, {}, {}, calls, {light} \intersect {calls[i] : i \in DOMAIN calls}) :
     r1 \in {Absent, Owned, Down, Gone}, r2 \in {Absent, Owned}, calls \in {<<>>, <<light>>}}

(* The same call twice, and a numbered id numbered again: scans of these fail
   as long as they stay as they are. *)
Twice == {World(light :> Gone @@ switch :> Owned, {}, {}, <<light, light>>, {light})}
Nested ==
  {World(x :> Fine @@ x2 :> Fine @@ x3 :> r3, {x}, {}, <<>>, {}) : r3 \in {Absent, Ghost}}

(* Two numbered ids beside the base: they are a group also without it. *)
Crowded ==
  {World(x :> Fine @@ x2 :> Fine @@ x4 :> r4, {x2}, {}, <<>>, {}) : r4 \in {Absent, Off}}

Scenes == {Renumbered, Forked, Moved, Twice, Nested, Crowded}
CrowdedOnly == {Crowded}

V(usable, source, topology, index, skipped) ==
  [usable |-> usable, source |-> source, topology |-> topology, index |-> index,
   skipped |-> skipped]

MCViews ==
  {V(TRUE, TRUE, TRUE, "complete", {}), V(FALSE, TRUE, TRUE, "complete", {}),
   V(TRUE, FALSE, TRUE, "partial", {}), V(TRUE, TRUE, FALSE, "hiding", {}),
   V(TRUE, TRUE, TRUE, "complete", {x, m2})}

=============================================================================
