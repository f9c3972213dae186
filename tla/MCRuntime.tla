------------------------------- MODULE MCRuntime -------------------------------
(* Three parts of a running HAMIE that share no state, each explored on its own:
   a behaviour is one of the part it starts with.
   - commits: four concurrent writers with two attempts each, so that a call can
     lose both, and one more if the limit is off by one;
   - scans: a manual caller beside the two timers;
   - connectors: a queue of two; an analysis and a lookup beside two publishers
     that share an event; the second does not drain. *)
EXTENDS RepositoryCommit, ScanCoordinator, ConnectorManager

CONSTANTS
  w1, w2, w3, w4,
  c1, c2,
  p1, p2, e1, e2

MCWriters == {w1, w2, w3, w4}
MCCallers == {c1}

TwoCalls == {c1, c2}
KindOfCall == [c \in TwoCalls |-> IF c = c1 THEN "explain" ELSE "mcp"]
TwoEvents == {e1, e2}
TwoPublishers == {p1, p2}
BatchOf == [p \in TwoPublishers |-> IF p = p1 THEN <<e1, e2>> ELSE <<e2>>]
SecondIsSilent == {p2}

VARIABLE part

runtimeVars == <<vars, part, scanVars, connectionVars>>

RuntimeInit ==
  /\ Init /\ ScanInit /\ ConnectionsInit
  /\ part \in {"commits", "scans", "connectors"}

RuntimeNext ==
  \/ part = "commits" /\ Next /\ UNCHANGED <<part, scanVars, connectionVars>>
  \/ part = "scans" /\ ScanNext /\ UNCHANGED <<part, vars, connectionVars>>
  \/ part = "connectors" /\ ConnectionsNext /\ UNCHANGED <<part, vars, scanVars>>

RuntimeSpec ==
  /\ RuntimeInit /\ [][RuntimeNext]_runtimeVars
  /\ ScanFairness /\ ConnectionsFairness

=============================================================================
