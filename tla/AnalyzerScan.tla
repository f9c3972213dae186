----------------------------- MODULE AnalyzerScan ------------------------------
(***************************************************************************)
(* The installation changes, scans capture it more or less completely, and *)
(* the analyzers' outcomes decide which findings are open.                 *)
(*                                                                         *)
(* Only what opens and closes a finding is kept of it: its id, and what it *)
(* advises.  Reviews, snoozes and revisions are in module FindingLedger.   *)
(***************************************************************************)
EXTENDS AnalyzerRules

CONSTANTS
  Installations,    \* the installations to look at, in sets within which one
                    \* changes into another
  Views,            \* how well a scan sees them
  MaxOpen           \* bound on the findings open at once

VARIABLES
  scene,            \* the set the installation belongs to
  open,             \* document: the open findings
  seen,             \* history: the capture of the last scan that committed
  reported          \* history: what that scan's analyzers emitted

vars == <<scene, open, seen, reported>>

View ==
  [usable : BOOLEAN, source : BOOLEAN, topology : BOOLEAN,
   index : {"none", "hiding", "partial", "complete"}, skipped : SUBSET Entities]

ASSUME SceneAssumption ==
  /\ IsFiniteSet(Entities) /\ Automations \subseteq Entities
  /\ Views \subseteq View
  /\ \A scenes \in Installations : \A world \in scenes :
       world.rows \in [Entities -> Row \union {Absent}]

(* What the analyzers read: an entity that cannot be read is left out. *)
Capture(w, view) ==
  [rows |-> [e \in Entities |-> IF e \in view.skipped THEN Absent ELSE w.rows[e]],
   defines |-> w.defines, mentions |-> w.mentions, calls |-> w.calls, refs |-> w.refs,
   usable |-> view.usable, source |-> view.source, topology |-> view.topology,
   index |-> view.index, skipped |-> {e \in view.skipped : w.rows[e] # Absent}]

Unseen == [usable |-> FALSE]

Emitted(outcomes) == UNION {o[2].findings : o \in outcomes}

Ids(findings) == {f.id : f \in findings}

(* What an analyzer looked at and found nothing wrong with is over. *)
Conclusive(outcomes, f) ==
  \E o \in outcomes : o[1] = f.id[1] /\ Subject(f) \in o[2].covered \union o[2].excluded

(* reconcile_findings, over all supervisors *)
Reconciled(findings, outcomes) ==
  LET emitted == Emitted(outcomes)
      ids == Ids(emitted)
  IN emitted \union {f \in findings : f.id \notin ids /\ ~Conclusive(outcomes, f)}

Init ==
  /\ scene \in Installations
  /\ open = {}
  /\ seen = Unseen
  /\ reported = {}

(* ScanCoordinator._execute: one refused outcome fails the whole scan.  Between
   two scans people and integrations change the installation. *)
Scan(world, view) ==
  LET c == Capture(world, view)
      outcomes == Outcomes(c)
  IN IF \E o \in outcomes : Refused(o[2])
     THEN UNCHANGED vars
     ELSE /\ open' = Reconciled(open, outcomes)
          /\ Cardinality(open') <= MaxOpen
          /\ seen' = c
          /\ reported' = Emitted(outcomes)
          /\ UNCHANGED scene

Next == \E world \in scene, view \in Views : Scan(world, view)

Spec == Init /\ [][Next]_vars

-----------------------------------------------------------------------------

(* Every variable has its type. *)
TypeOK ==
  /\ scene \in Installations
  /\ reported \subseteq open

(* Whether the last scan could tell about the subject of a finding: it saw the
   entity, or enough members of the group. *)
Judged(f) ==
  LET s == Subject(f)
      there == s \in Present(seen)
  IN \/ /\ f.id[1] = "unavailable" /\ there
        /\ seen.rows[s].listed
        /\ Disabled(seen, s) \/ seen.rows[s].signal \in {"ok", "down"}
     \/ /\ f.id[1] = "orphaned" /\ there
        /\ Disabled(seen, s) \/ Definition(seen, s) # "unread"
     \/ f.id[1] = "removed" /\ there /\ seen.topology /\ seen.rows[s].listed
     \/ f.id[1] = "duplicate" /\ s \in GroupKeys(seen, Entities)
     \/ f.id[1] = "self_reference" /\ there /\ seen.source /\ s \in GroupKeys(seen, Entities)
     \/ /\ f.id[1] = "fork" /\ there
        /\ s \in DOMAIN Base /\ Base[s] \in GroupKeys(seen, Entities)
     \/ /\ f.id[1] = "residue" /\ there
        /\ Definition(seen, s) # "unread"
        /\ \E key \in GroupKeys(seen, Automations) :
             /\ s \in Members(seen, key, Automations)
             /\ \E e \in Members(seen, key, Automations) :
                  Definition(seen, e) = "present" /\ ~Unavailable(seen, e)

(* A finding does not outlive its defect: after a scan, an open finding whose
   subject that scan could judge is one that scan reported
   (tests/test_finding_lifecycle_retirement.py, and the coverage of every
   analyzer; wrong-domain calls are never judged again). *)
FixedIsRetired == seen.usable => \A f \in open : Judged(f) => f \in reported

(* What a scan advises to delete was looked for in every reference source of
   this scan and found nowhere, its definition is not in the configuration, and
   nothing protected is offered for removal from the registry. *)
RemovalIsProven ==
  \A f \in reported :
    f.kind = "delete" \/ f.safe \/ f.gate = "remove" =>
      /\ seen.index = "complete"
      /\ Subject(f) \notin seen.refs
      /\ Definition(seen, Subject(f)) # "present"
      /\ f.gate = "remove" => f.safe /\ Subject(f) \notin Protected

(* A finding goes away only when the analyzer looked again: never because the
   capture was unusable, or the configuration, the integrations or a reference
   source were out of reach, nor because its entity was missing from the capture,
   unless that entity gave its name to a group that was looked at. *)
BlindScanKeeps ==
  [][\A f \in open :
       f.id \notin Ids(open') =>
         /\ seen'.usable
         /\ f.id[1] \in {"self_reference", "wrong_domain"} => seen'.source
         /\ f.id[1] = "removed" => seen'.topology
         /\ f.id[1] \in {"unavailable", "orphaned", "removed"} =>
              Subject(f) \in Present(seen')
         /\ f.id[1] \in {"residue", "fork"} =>
              Subject(f) \in Present(seen') \union GroupKeys(seen', Entities)]_vars

(* What tests/test_scan_completeness_evidence.py:104 says: "a skipped subject was
   by definition never captured, so it cannot be covered"; hence no scan resolves
   the finding on an automation it could not read. *)
SkippedIsKept ==
  [][\A f \in open :
       f.id[1] = "residue" /\ Subject(f) \in seen'.skipped => f.id \in Ids(open')]_vars

=============================================================================
