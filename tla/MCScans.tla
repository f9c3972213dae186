-------------------------------- MODULE MCScans --------------------------------
(* What scans do to findings, in two parts that share no state, each explored on
   its own: a behaviour is one of the part it starts with.
   - analyzers: what is found in six installations, and when it is over;
   - ledger: one analyzer over two entities that share a root, the condition of one
     of which comes and goes, while operators review. *)
EXTENDS MCAnalyzerScan, FindingScan

CONSTANTS a1, s1, s2

OneAnalyzer == {a1}
TwoSubjects == {s1, s2}
OneRestless == {s1}
SomePolicies == {{}, {"snooze", "acknowledge"}}
SomeReviews == {"acknowledged", "snoozed", "dismissed"}
OneDecision == {"dismissed"}

VARIABLE part

scanVars == <<vars, part, ledgerVars>>

ScansInit ==
  /\ Init /\ LedgerInit
  /\ \/ part = "ledger" /\ scene = Renumbered
     \/ part = "analyzers" /\ rules = {} /\ \A k \in DOMAIN world : world[k] = 1

ScansNext ==
  \/ part = "analyzers" /\ Next /\ UNCHANGED <<part, ledgerVars>>
  \/ part = "ledger" /\ LedgerNext /\ UNCHANGED <<part, vars>>

ScansSpec == ScansInit /\ [][ScansNext]_scanVars

=============================================================================
