------------------------------ MODULE ScanProofs ------------------------------
(***************************************************************************)
(* What scans do to findings, for every installation and every view of it, *)
(* whatever the names tell.  Each analyzer has three lemmas: what it       *)
(* offers for removal, what it concludes on, and what it does not conclude *)
(* on without having seen it.  Then what reviews make of findings, and     *)
(* what a request for AI analysis stores about them.                       *)
(***************************************************************************)
EXTENDS AnalyzerScan, FindingScan, AiAnalysis, FiniteSetTheorems, TLAPS

(* What must hold before a finding may speak of removal. *)
Proven(c, f) ==
  f.kind = "delete" \/ f.safe \/ f.gate = "remove" =>
    /\ c.index = "complete"
    /\ Subject(f) \notin c.refs
    /\ Definition(c, Subject(f)) # "present"
    /\ f.gate = "remove" => f.safe /\ Subject(f) \notin Protected

-----------------------------------------------------------------------------

(* Nothing refers to an entity that is called unreferenced: every reference
   source of the scan was read. *)
LEMMA UnreferencedIsComplete ==
  ASSUME NEW c, NEW e, Unreferenced(c, e)
  PROVE  c.index = "complete" /\ e \notin c.refs
BY DEF Unreferenced, Referenced

(* A protected entity is not offered for removal. *)
LEMMA GatedRemoval ==
  ASSUME NEW gate, NEW e, Gate(gate, e) = "remove"
  PROVE  e \notin Protected /\ gate = "remove"
BY DEF Gate

(* The advice on a group of duplicates is never to delete. *)
LEMMA DuplicatesAreKept ==
  ASSUME NEW c, NEW group, Classification(c, group) # "distinct"
  PROVE  DuplicateAdvice(Classification(c, group)) \in {"investigate", "repair", "review"}
<1>1. Classification(c, group) \in
        {"leftover", "active_old_id", "broken_reference", "ambiguous"}
  BY DEF Classification
<1> QED BY <1>1 DEF DuplicateAdvice

(* The analyzers that may speak of removal have proven it. *)
LEMMA OrphanedIsProven ==
  ASSUME NEW c, NEW f \in OrphanedDefinition(c).findings PROVE Proven(c, f)
<1>1. PICK e : f = OrphanedFinding(c, e) /\ Definition(c, e) = "missing"
  BY DEF OrphanedDefinition, Outcome
<1>2. Subject(f) = e /\ f.gate = "review"
      /\ (f.kind = "delete" \/ f.safe => Unreferenced(c, e))
  BY <1>1 DEF OrphanedFinding, Finding, Subject
<1> QED BY <1>1, <1>2, UnreferencedIsComplete DEF Proven

(* Of a removed integration's entities, only unreferenced ones are offered. *)
LEMMA RemovedIsProven ==
  ASSUME NEW c, NEW f \in RemovedIntegration(c).findings PROVE Proven(c, f)
<1>1. PICK e : f = RemovedFinding(c, e) /\ ~Backed(c, e)
  BY DEF RemovedIntegration, Outcome
<1>2. Subject(f) = e /\ f.safe = Unreferenced(c, e)
      /\ (f.kind = "delete" => Unreferenced(c, e))
      /\ (f.gate = "remove" => Unreferenced(c, e) /\ e \notin Protected)
  BY <1>1, GatedRemoval DEF RemovedFinding, Finding, Subject
<1> QED BY <1>1, <1>2, UnreferencedIsComplete DEF Proven, Backed

(* Of an automation that is no longer defined, only an unreferenced one is offered. *)
LEMMA ResidueIsProven ==
  ASSUME NEW c, NEW f \in AutomationResidue(c).findings PROVE Proven(c, f)
<1>1. PICK k, e : f = ResidueFinding(c, k, e) /\ Definition(c, e) = "missing"
  BY DEF AutomationResidue, Outcome
<1>2. Subject(f) = e /\ f.safe = Unreferenced(c, e)
      /\ (f.kind = "delete" => Unreferenced(c, e))
      /\ (f.gate = "remove" => Unreferenced(c, e) /\ e \notin Protected)
  BY <1>1, GatedRemoval DEF ResidueFinding, Finding, Subject
<1> QED BY <1>1, <1>2, UnreferencedIsComplete DEF Proven

(* The other five never speak of it. *)
LEMMA OthersKeep ==
  ASSUME NEW c,
         NEW f \in UnavailableEntity(c).findings \union DuplicateMigration(c).findings
                   \union SelfReference(c).findings \union WrongDomain(c).findings
                   \union AbandonedFork(c).findings
  PROVE  Proven(c, f)
<1>1. SUFFICES f.kind # "delete" /\ f.safe = FALSE /\ f.gate # "remove"
  BY DEF Proven
<1>2. CASE f \in UnavailableEntity(c).findings
  <2>1. PICK e : f = UnavailableFinding(e)
    BY <1>2 DEF UnavailableEntity, Outcome
  <2> QED BY <2>1 DEF UnavailableFinding, Finding
<1>3. CASE f \in DuplicateMigration(c).findings
  <2>1. PICK k, group : /\ f = DuplicateFinding(k, Classification(c, group))
                        /\ Classification(c, group) # "distinct"
    BY <1>3 DEF DuplicateMigration, Outcome
  <2> QED BY <2>1, DuplicatesAreKept DEF DuplicateFinding, Finding
<1>4. CASE f \in SelfReference(c).findings
  <2>1. PICK k, e : f = SelfReferenceFinding(k, e)
    BY <1>4 DEF SelfReference, Outcome
  <2>2. f.kind = "repair" /\ f.safe = FALSE /\ f.gate = Gate("bug", k)
    BY <2>1 DEF SelfReferenceFinding, Finding
  <2> QED BY <2>2, GatedRemoval
<1>5. CASE f \in WrongDomain(c).findings
  <2>1. PICK e, call : f = WrongDomainFinding(e, call)
    BY <1>5 DEF WrongDomain, Nothing, Outcome
  <2> QED BY <2>1 DEF WrongDomainFinding, Finding
<1>6. CASE f \in AbandonedFork(c).findings
  <2>1. PICK e : f = ForkFinding(e)
    BY <1>6 DEF AbandonedFork, Outcome, ForkFindings
  <2>2. f.kind = "disable" /\ f.safe = FALSE /\ f.gate = Gate("fix_source", e)
    BY <2>1 DEF ForkFinding, Finding
  <2>3. f.gate # "remove"
    BY <2>2, GatedRemoval
  <2> QED BY <2>2, <2>3
<1> QED BY <1>2, <1>3, <1>4, <1>5, <1>6


(* Whatever an analyzer emits, it has proven what it offers for removal. *)
LEMMA EmittedIsProven ==
  ASSUME NEW c, NEW f \in Emitted(Outcomes(c)) PROVE Proven(c, f)
<1>1. PICK o \in Outcomes(c) : f \in o[2].findings
  BY DEF Emitted
<1>2. CASE ~c.usable
  BY <1>1, <1>2 DEF Outcomes, Nothing, Outcome
<1>3. CASE c.usable
  <2>1. f \in UnavailableEntity(c).findings \union DuplicateMigration(c).findings
             \union SelfReference(c).findings \union WrongDomain(c).findings
             \union AbandonedFork(c).findings
        \/ f \in OrphanedDefinition(c).findings
        \/ f \in RemovedIntegration(c).findings
        \/ f \in AutomationResidue(c).findings
    BY <1>1, <1>3 DEF Outcomes
  <2> QED BY <2>1, OthersKeep, OrphanedIsProven, RemovedIsProven, ResidueIsProven
<1> QED BY <1>2, <1>3

(* What was reported last is what the analyzers say of what was seen last. *)
ReportedOfSeen == reported # {} => reported = Emitted(Outcomes(seen))

(* A step reports what it saw. *)
LEMMA ReportStep == ASSUME ReportedOfSeen, [Next]_vars PROVE ReportedOfSeen'
BY DEF ReportedOfSeen, Next, Scan, vars

(* Nothing is offered for removal that something may refer to, that is defined, or
   that is protected (analysis/analyzers, reference_index.py). *)
THEOREM RemovalsAreProven == Spec => []RemovalIsProven
<1>1. Init => ReportedOfSeen
  BY DEF Init, ReportedOfSeen
<1>2. ReportedOfSeen /\ [Next]_vars => ReportedOfSeen'
  BY ReportStep
<1>3. ReportedOfSeen => RemovalIsProven
  BY EmittedIsProven DEF ReportedOfSeen, RemovalIsProven, Proven
<1> QED BY <1>1, <1>2, <1>3, PTL DEF Spec

-----------------------------------------------------------------------------

(* A subject that can be told about is one the analyzer looked at. *)
LEMMA JudgedIsConclusive ==
  ASSUME seen.usable, NEW f, Judged(f) PROVE Conclusive(Outcomes(seen), f)
<1> DEFINE s == Subject(f)
           Looked(o) == s \in o.covered \union o.excluded
<1>1. CASE f.id[1] = "unavailable"
  <2>1. Looked(UnavailableEntity(seen))
    BY <1>1 DEF Judged, UnavailableEntity, Outcome
  <2> QED BY <1>1, <2>1 DEF Conclusive, Outcomes
<1>2. CASE f.id[1] = "orphaned"
  <2>1. Looked(OrphanedDefinition(seen))
    BY <1>2 DEF Judged, OrphanedDefinition, Outcome
  <2> QED BY <1>2, <2>1 DEF Conclusive, Outcomes
<1>3. CASE f.id[1] = "removed"
  <2>1. Looked(RemovedIntegration(seen))
    BY <1>3 DEF Judged, RemovedIntegration, Outcome
  <2> QED BY <1>3, <2>1 DEF Conclusive, Outcomes
<1>4. CASE f.id[1] = "duplicate"
  <2>1. Looked(DuplicateMigration(seen))
    BY <1>4 DEF Judged, DuplicateMigration, Outcome
  <2> QED BY <1>4, <2>1 DEF Conclusive, Outcomes
<1>5. CASE f.id[1] = "self_reference"
  <2>1. Looked(SelfReference(seen))
    BY <1>5 DEF Judged, SelfReference, Outcome
  <2> QED BY <1>5, <2>1 DEF Conclusive, Outcomes
<1>6. CASE f.id[1] = "fork"
  <2>1. s \in Present(seen) /\ s \in DOMAIN Base /\ Base[s] \in GroupKeys(seen, Entities)
    BY <1>6 DEF Judged
  <2>2. s \in Members(seen, Base[s], Entities)
    BY <2>1 DEF Members, Present
  <2>3. Looked(AbandonedFork(seen))
    BY <2>1, <2>2 DEF AbandonedFork, Outcome
  <2> QED BY <1>6, <2>3 DEF Conclusive, Outcomes
<1>7. CASE f.id[1] = "residue"
  <2>1. Looked(AutomationResidue(seen))
    BY <1>7 DEF Judged, AutomationResidue, Outcome
  <2> QED BY <1>7, <2>1 DEF Conclusive, Outcomes
<1> QED BY <1>1, <1>2, <1>3, <1>4, <1>5, <1>6, <1>7 DEF Judged

(* What is open after a scan was reported by it or left undecided. *)
OpenIsReportedOrOpenToDoubt ==
  \A f \in open : f \in reported \/ ~Conclusive(Outcomes(seen), f)

(* A scan keeps only what it reports or could not decide. *)
LEMMA ReconcileStep ==
  ASSUME OpenIsReportedOrOpenToDoubt, [Next]_vars PROVE OpenIsReportedOrOpenToDoubt'
BY DEF OpenIsReportedOrOpenToDoubt, Next, Scan, Reconciled, vars

(* A repaired defect has no open finding once a scan could tell
   (domain/finding_lifecycle.py reconcile_findings, analysis/analyzers). *)
THEOREM FixedFindingsAreRetired == Spec => []FixedIsRetired
<1>1. Init => OpenIsReportedOrOpenToDoubt
  BY DEF Init, OpenIsReportedOrOpenToDoubt
<1>2. OpenIsReportedOrOpenToDoubt /\ [Next]_vars => OpenIsReportedOrOpenToDoubt'
  BY ReconcileStep
<1>3. OpenIsReportedOrOpenToDoubt => FixedIsRetired
  BY JudgedIsConclusive DEF OpenIsReportedOrOpenToDoubt, FixedIsRetired
<1> QED BY <1>1, <1>2, <1>3, PTL DEF Spec

-----------------------------------------------------------------------------

(* What a scan concludes on it has looked at, in sources it could read. *)
SeenWell(c, f) ==
  /\ c.usable
  /\ f.id[1] \in {"self_reference", "wrong_domain"} => c.source
  /\ f.id[1] = "removed" => c.topology
  /\ f.id[1] \in {"unavailable", "orphaned", "removed"} => Subject(f) \in Present(c)
  /\ f.id[1] \in {"residue", "fork"} =>
       Subject(f) \in Present(c) \union GroupKeys(c, Entities)

(* The groups of automations are groups. *)
LEMMA AutomationGroups ==
  ASSUME NEW c, NEW k \in GroupKeys(c, Automations)
  PROVE  k \in GroupKeys(c, Entities)
<1>1. PICK e \in DOMAIN Base : k = Base[e] /\ Cardinality(Members(c, k, Automations)) >= 2
  BY DEF GroupKeys
<1>2. Members(c, k, Automations) \subseteq Members(c, k, Entities)
  BY SceneAssumption DEF Members
<1>3. IsFiniteSet(Members(c, k, Entities))
  <2>1. Members(c, k, Entities) \subseteq Entities
    BY DEF Members
  <2> QED BY <2>1, SceneAssumption, FS_Subset
<1>4. Cardinality(Members(c, k, Automations)) <= Cardinality(Members(c, k, Entities))
  BY <1>2, <1>3, FS_Subset
<1>5. Cardinality(Members(c, k, Entities)) >= 2
  <2>1. Cardinality(Members(c, k, Entities)) \in Nat
    BY <1>3, FS_CardinalityType
  <2>2. Cardinality(Members(c, k, Automations)) \in Nat
    BY <1>2, <1>3, FS_Subset, FS_CardinalityType
  <2> QED BY <1>1, <1>4, <2>1, <2>2
<1> QED BY <1>1, <1>5 DEF GroupKeys

(* The conclusions of a scan rest on what it saw. *)
LEMMA ConclusiveIsSeen ==
  ASSUME NEW c, NEW f, Conclusive(Outcomes(c), f)
  PROVE  SeenWell(c, f)
<1>1. PICK o \in Outcomes(c) : o[1] = f.id[1] /\ Subject(f) \in o[2].covered \union o[2].excluded
  BY DEF Conclusive
<1>2. c.usable
  BY <1>1 DEF Outcomes, Nothing, Outcome
<1>3. CASE o = <<"unavailable", UnavailableEntity(c)>>
  BY <1>1, <1>2, <1>3 DEF UnavailableEntity, Outcome, SeenWell
<1>4. CASE o = <<"orphaned", OrphanedDefinition(c)>>
  BY <1>1, <1>2, <1>4 DEF OrphanedDefinition, Outcome, SeenWell
<1>5. CASE o = <<"duplicate", DuplicateMigration(c)>>
  BY <1>1, <1>2, <1>5 DEF SeenWell
<1>6. CASE o = <<"self_reference", SelfReference(c)>>
  BY <1>1, <1>2, <1>6 DEF SelfReference, Outcome, SeenWell
<1>7. CASE o = <<"removed", RemovedIntegration(c)>>
  BY <1>1, <1>2, <1>7 DEF RemovedIntegration, Outcome, SeenWell
<1>8. CASE o = <<"wrong_domain", WrongDomain(c)>>
  BY <1>1, <1>2, <1>8 DEF WrongDomain, Nothing, Outcome, SeenWell
<1>9. CASE o = <<"residue", AutomationResidue(c)>>
  <2>1. Subject(f) \in Present(c) \union GroupKeys(c, Automations)
    BY <1>1, <1>9 DEF AutomationResidue, Outcome, Members
  <2> QED BY <1>1, <1>2, <1>9, <2>1, AutomationGroups DEF SeenWell
<1>10. CASE o = <<"fork", AbandonedFork(c)>>
  BY <1>1, <1>2, <1>10 DEF AbandonedFork, Outcome, Members, SeenWell
<1> QED BY <1>1, <1>2, <1>3, <1>4, <1>5, <1>6, <1>7, <1>8, <1>9, <1>10 DEF Outcomes

(* No finding is resolved by a scan that could not look
   (domain/evaluations.py CoverageAssessment, application/reconciliation.py). *)
THEOREM BlindScansKeep == Spec => BlindScanKeeps
<1> DEFINE Keeps == \A f \in open : f.id \notin Ids(open') => SeenWell(seen', f)
<1>1. ASSUME Next, vars' # vars, NEW f \in open, f.id \notin Ids(open') PROVE SeenWell(seen', f)
  <2>1. PICK shown \in scene, view \in Views :
          /\ open' = Reconciled(open, Outcomes(Capture(shown, view)))
          /\ seen' = Capture(shown, view)
    BY <1>1 DEF Next, Scan
  <2>2. f \notin open'
    BY <1>1 DEF Ids
  <2>3. f.id \notin Ids(Emitted(Outcomes(seen')))
    BY <1>1, <2>1 DEF Ids, Reconciled
  <2>4. Conclusive(Outcomes(seen'), f)
    BY <2>1, <2>2, <2>3 DEF Reconciled
  <2> QED BY <2>4, ConclusiveIsSeen
<1>2. [Next]_vars => [Keeps]_vars
  BY <1>1
<1>3. Keeps <=>
        \A f \in open :
          f.id \notin Ids(open') =>
            /\ seen'.usable
            /\ f.id[1] \in {"self_reference", "wrong_domain"} => seen'.source
            /\ f.id[1] = "removed" => seen'.topology
            /\ f.id[1] \in {"unavailable", "orphaned", "removed"} =>
                 Subject(f) \in Present(seen')
            /\ f.id[1] \in {"residue", "fork"} =>
                 Subject(f) \in Present(seen') \union GroupKeys(seen', Entities)
  BY DEF SeenWell
<1> QED BY <1>2, <1>3, PTL DEF Spec, BlindScanKeeps

-----------------------------------------------------------------------------
(* The ledger of findings: what a scan makes of one finding and of its newest
   review record.                                                            *)

SnoozeHasEnd(f) == (f.review = "snoozed") = (f.until # 0)

WellFormed(f) == f \in StoredFinding /\ SnoozeHasEnd(f)

(* Whoever sets a review, of a snooze with its end, sets nothing else. *)
LEMMA ReviewSetsReview ==
  ASSUME NEW f \in StoredFinding, NEW to \in ReviewStates, NEW until \in 0 .. MaxTime,
         (to = "snoozed") = (until # 0)
  PROVE  /\ WellFormed(Reviewed(f, to, until)) /\ Reviewed(f, to, until) # NoFinding
         /\ Reviewed(f, to, until).review = to
         /\ Reviewed(f, to, until).open = f.open
         /\ Reviewed(f, to, until).digest = f.digest
<1> DEFINE g == Reviewed(f, to, until)
<1>1. g \in StoredFinding /\ g.review = to /\ g.until = until
      /\ g.open = f.open /\ g.digest = f.digest
  BY DEF StoredFinding, Reviewed
<1> HIDE DEF g
<1>2. SnoozeHasEnd(g) /\ g # NoFinding
  BY <1>1, LedgerAssumption DEF SnoozeHasEnd
<1> QED BY <1>1, <1>2 DEF WellFormed, g

(* Reconciliation resets a review or leaves it as it is, and resets only what it
   was shown. *)
LEMMA ReconcileOne ==
  ASSUME NEW before \in [Keys -> StoredFinding \union {NoFinding}], NEW result, NEW k \in Keys,
         result.condition[k] \in 0 .. MaxDigest,
         before[k] # NoFinding => WellFormed(before[k])
  PROVE  LET f == before[k]
             g == ReconcileFindings(before, result)[k]
         IN /\ g # NoFinding => WellFormed(g)
            /\ f # NoFinding \/ result.condition[k] # 0 => g # NoFinding
            /\ f = NoFinding /\ g # NoFinding => g.review = "new" /\ result.condition[k] # 0
            /\ f # NoFinding =>
                 \/ g.review = f.review
                 \/ g.review = "new" /\ result.condition[k] # 0 /\ WasReset(f, g)
            /\ f # NoFinding /\ f.open
                 /\ \/ result.condition[k] = f.digest
                    \/ result.condition[k] = 0 /\ k[2] \notin result.covered[k[1]]
                 => g.open /\ g.review = f.review /\ g.digest = f.digest
<1> DEFINE f == before[k]
           g == ReconcileFindings(before, result)[k]
           new == result.condition[k]
           partial == Partial(k, result)
<1>1. partial \in BOOLEAN
  BY DEF Partial
<1>2. CASE new # 0 /\ f = NoFinding
  <2>1. g = [open |-> TRUE, review |-> "new", until |-> 0, revision |-> 1, digest |-> new,
             partial |-> partial]
    BY <1>2 DEF ReconcileFindings, Candidate
  <2>2. g \in StoredFinding /\ SnoozeHasEnd(g)
    BY <1>1, <1>2, <2>1, LedgerAssumption DEF StoredFinding, SnoozeHasEnd, ReviewStates
  <2>3. g.review = "new"
    BY <2>1
  <2>4. WellFormed(g) /\ g # NoFinding
    <3> HIDE DEF g
    <3> QED BY <2>2, LedgerAssumption DEF WellFormed
  <2> QED BY <1>2, <2>3, <2>4
<1>3. CASE new # 0 /\ f # NoFinding
  <2>1. f \in StoredFinding /\ SnoozeHasEnd(f)
    BY <1>3 DEF WellFormed
  <2> DEFINE changed == f.digest # new
             reset == changed \/ ~f.open
  <2>2. g = [open |-> TRUE,
             review |-> IF reset THEN "new" ELSE f.review,
             until |-> IF reset THEN 0 ELSE f.until,
             revision |-> IF changed THEN f.revision + 1 ELSE f.revision,
             digest |-> new,
             partial |-> partial]
    BY <1>3 DEF ReconcileFindings, Candidate
  <2>3. g \in StoredFinding /\ SnoozeHasEnd(g)
    BY <1>1, <1>3, <2>1, <2>2, LedgerAssumption DEF StoredFinding, SnoozeHasEnd, ReviewStates
  <2>4. g.review = f.review \/ (g.review = "new" /\ WasReset(f, g))
    BY <1>3, <2>2 DEF WasReset
  <2>5. f.open /\ new = f.digest => g.open /\ g.review = f.review /\ g.digest = f.digest
    BY <2>2
  <2>6. g # NoFinding
    BY <2>3, LedgerAssumption
  <2> QED BY <1>3, <2>3, <2>4, <2>5, <2>6 DEF WellFormed
<1>4. CASE new = 0 /\ ConclusivelyAbsent(f, k, result)
  <2>1. f \in StoredFinding /\ SnoozeHasEnd(f) /\ f # NoFinding /\ k[2] \in result.covered[k[1]]
    BY <1>4 DEF WellFormed, ConclusivelyAbsent
  <2>2. g = [f EXCEPT !.open = FALSE, !.partial = partial]
    BY <1>4 DEF ReconcileFindings
  <2>3. g \in StoredFinding /\ SnoozeHasEnd(g) /\ g.review = f.review
    BY <1>1, <2>1, <2>2 DEF StoredFinding, SnoozeHasEnd
  <2>4. f.digest # 0
    BY <2>1 DEF StoredFinding
  <2> QED BY <1>4, <2>1, <2>3, <2>4, LedgerAssumption DEF WellFormed
<1>5. CASE new = 0 /\ ~ConclusivelyAbsent(f, k, result)
  <2>1. g = f
    BY <1>5 DEF ReconcileFindings
  <2> QED BY <1>5, <2>1
<1> QED BY <1>2, <1>3, <1>4, <1>5

(* The end of a snooze, and a policy, on one finding; "told" goes along. *)
LEMMA ScanOne ==
  ASSUME NEW before \in [Keys -> StoredFinding \union {NoFinding}],
         NEW tell \in [Keys -> ReviewStates], NEW result,
         NEW some \in SUBSET PolicyKinds, NEW last \in 1 .. MaxTime, NEW at \in 0 .. MaxTime,
         NEW k \in Keys,
         result.condition[k] \in 0 .. MaxDigest,
         before[k] # NoFinding => WellFormed(before[k])
  PROVE  LET f == before[k]
             g == ScanOf(before, tell, result, some, last, at).findings[k]
             u == ScanOf(before, tell, result, some, last, at).told[k]
         IN /\ g # NoFinding => WellFormed(g)
            /\ u \in ReviewStates
            /\ f # NoFinding => g # NoFinding
            /\ f = NoFinding /\ g = NoFinding => u = tell[k]
            /\ g # NoFinding /\ (IF f = NoFinding THEN tell[k] = "new" ELSE f.review = tell[k])
                 => g.review = u
            /\ f # NoFinding /\ f.review = "snoozed" /\ g.review = "new"
                 => result.condition[k] # 0
            /\ /\ f # NoFinding /\ f.open /\ some = {} /\ f.review # "snoozed"
               /\ \/ result.condition[k] = f.digest
                  \/ result.condition[k] = 0 /\ k[2] \notin result.covered[k[1]]
               => g.open /\ g.review = f.review /\ g.digest = f.digest
<1> DEFINE f == before[k]
           scan == ScanOf(before, tell, result, some, last, at)
           g == scan.findings[k]
           u == scan.told[k]
           active == IF at < last THEN some ELSE some \ {"snooze"}
           to == PolicyReview(active)
           h == ReconcileFindings(before, result)[k]
           reset == WasReset(f, h)
           ended == SnoozeEnds(h, k, result, at)
           a == IF ended THEN [h EXCEPT !.review = "new", !.until = 0] ELSE h
           ruled == PolicyApplies(a, active)
<1>1. /\ g = IF ruled
             THEN [a EXCEPT !.review = to, !.until = IF to = "snoozed" THEN last ELSE 0]
             ELSE a
      /\ u = IF ruled THEN to ELSE IF reset \/ ended THEN "new" ELSE tell[k]
  BY DEF ScanOf
<1>2. /\ h # NoFinding => WellFormed(h)
      /\ f # NoFinding \/ result.condition[k] # 0 => h # NoFinding
      /\ f = NoFinding /\ h # NoFinding => h.review = "new" /\ result.condition[k] # 0
      /\ f # NoFinding =>
           \/ h.review = f.review
           \/ h.review = "new" /\ result.condition[k] # 0 /\ reset
      /\ f # NoFinding /\ f.open
           /\ \/ result.condition[k] = f.digest
              \/ result.condition[k] = 0 /\ k[2] \notin result.covered[k[1]]
           => h.open /\ h.review = f.review /\ h.digest = f.digest
  BY ReconcileOne
<1>3. /\ to \in {"none", "snoozed", "acknowledged"}
      /\ some = {} => to = "none"
  BY DEF PolicyReview
<1>4. ended => h # NoFinding /\ h.review = "snoozed" /\ result.condition[k] # 0
  <2>1. ended => h.review = "snoozed" /\ result.condition[k] # 0
    BY DEF SnoozeEnds
  <2> QED BY <1>2, <2>1
<1>5. ruled => a # NoFinding /\ a.open /\ to # "none"
  BY DEF PolicyApplies
<1>6. reset => h # NoFinding /\ h.review = "new"
  BY <1>2 DEF WasReset
<1> HIDE DEF scan, active, to, h, reset, ended, ruled
<1>7. /\ a # NoFinding => WellFormed(a)
      /\ h # NoFinding => a # NoFinding /\ a.open = h.open /\ a.digest = h.digest
      /\ h = NoFinding => a = NoFinding
  <2>1. CASE ended
    <3>1. h \in StoredFinding /\ SnoozeHasEnd(h)
      BY <1>2, <1>4, <2>1 DEF WellFormed
    <3>2. a = Reviewed(h, "new", 0)
      BY <2>1 DEF Reviewed
    <3>3. "new" \in ReviewStates /\ 0 \in 0 .. MaxTime
      BY LedgerAssumption DEF ReviewStates
    <3> QED BY <1>4, <2>1, <3>1, <3>2, <3>3, ReviewSetsReview
  <2>2. CASE ~ended
    BY <1>2, <2>2
  <2> QED BY <2>1, <2>2
<1>8. a # NoFinding => a.review = IF ended THEN "new" ELSE h.review
  <2>1. ended => h \in StoredFinding
    BY <1>2, <1>4 DEF WellFormed
  <2> QED BY <2>1 DEF StoredFinding
<1> HIDE DEF a
<1>9. ruled => /\ WellFormed(g) /\ g # NoFinding /\ g.review = to
               /\ g.open = a.open /\ g.digest = a.digest
  <2> SUFFICES ASSUME ruled PROVE /\ WellFormed(g) /\ g # NoFinding /\ g.review = to
                                  /\ g.open = a.open /\ g.digest = a.digest
    OBVIOUS
  <2>1. a \in StoredFinding /\ SnoozeHasEnd(a)
    BY <1>5, <1>7 DEF WellFormed
  <2>2. g = [a EXCEPT !.review = to, !.until = IF to = "snoozed" THEN last ELSE 0]
    BY <1>1
  <2>3. to \in {"snoozed", "acknowledged"}
    BY <1>3, <1>5
  <2> DEFINE until == IF to = "snoozed" THEN last ELSE 0
  <2>4. to \in ReviewStates /\ until \in 0 .. MaxTime /\ (to = "snoozed") = (until # 0)
    BY <2>3, LedgerAssumption DEF ReviewStates
  <2> HIDE DEF until, a, g
  <2>5. g = Reviewed(a, to, until)
    BY <2>2 DEF until, Reviewed
  <2> QED BY <2>1, <2>4, <2>5, ReviewSetsReview
<1>10. ~ruled => g = a
  BY <1>1
<1>11. /\ u \in ReviewStates
       /\ ruled => u = to
       /\ ~ruled => u = IF reset \/ ended THEN "new" ELSE tell[k]
  BY <1>1, <1>3, <1>5 DEF ReviewStates
<1> HIDE DEF g, u
<1>12. g # NoFinding => WellFormed(g)
  BY <1>7, <1>9, <1>10
<1>13. f # NoFinding => g # NoFinding
  BY <1>2, <1>7, <1>9, <1>10
<1>14. f = NoFinding /\ g = NoFinding => u = tell[k]
  BY <1>4, <1>6, <1>7, <1>9, <1>10, <1>11
<1>15. g # NoFinding /\ (IF f = NoFinding THEN tell[k] = "new" ELSE f.review = tell[k])
         => g.review = u
  BY <1>2, <1>6, <1>7, <1>8, <1>9, <1>10, <1>11
<1>16. f # NoFinding /\ f.review = "snoozed" /\ g.review = "new" => result.condition[k] # 0
  BY <1>2, <1>3, <1>4, <1>5, <1>7, <1>8, <1>9, <1>10
<1>17. /\ f # NoFinding /\ f.open /\ some = {} /\ f.review # "snoozed"
       /\ \/ result.condition[k] = f.digest
          \/ result.condition[k] = 0 /\ k[2] \notin result.covered[k[1]]
       => g.open /\ g.review = f.review /\ g.digest = f.digest
  BY <1>2, <1>3, <1>4, <1>5, <1>7, <1>8, <1>10
<1> QED BY <1>11, <1>12, <1>13, <1>14, <1>15, <1>16, <1>17 DEF g, u, scan

-----------------------------------------------------------------------------
(* The ledger's invariant.                                                   *)

(* What is told of a finding is its review; of none, nothing was told. *)
Recorded ==
  \A k \in Keys :
    IF findings[k] = NoFinding THEN told[k] = "new" ELSE findings[k].review = told[k]

(* A decision that is remembered is about what is there now, and a scan that is
   under way saw that as well. *)
Standing ==
  \A k \in Keys : decided[k] # "new" =>
    /\ findings[k] # NoFinding /\ findings[k].open
    /\ findings[k].review = decided[k] /\ decided[k] # "snoozed"
    /\ findings[k].digest = world[k]
    /\ scanning => capture[k] = world[k]
    /\ rules = {}

LedgerInv == LedgerTypeOK /\ Recorded /\ Standing

(* At first there are no findings. *)
LEMMA LedgerStarts == LedgerInit => LedgerInv
<1> SUFFICES ASSUME LedgerInit PROVE LedgerInv
  OBVIOUS
<1>1. LedgerTypeOK
  <2>1. [state |-> "none", material |-> {}] \in Incident
    BY DEF Incident, IncidentStates
  <2>2. rules \in SUBSET PolicyKinds
    BY OperatorsAssumption DEF LedgerInit
  <2>3. ends \in 1 .. MaxTime /\ 0 \in 0 .. MaxTime /\ clock = 0
    BY LedgerAssumption DEF LedgerInit
  <2>4. changes = 0 /\ 0 \in 0 .. MaxChanges
    BY OperatorsAssumption DEF LedgerInit
  <2> QED BY <2>1, <2>2, <2>3, <2>4 DEF LedgerInit, LedgerTypeOK, ReviewStates
<1>2. Recorded /\ Standing
  BY DEF LedgerInit, Recorded, Standing
<1> QED BY <1>1, <1>2 DEF LedgerInv

(* What an analysis reports it captured, and what it captured where it looked. *)
LEMMA EvaluationReports ==
  ASSUME NEW captured, NEW usable \in BOOLEAN, NEW covered, NEW k \in Keys,
         captured \in Conditions
  PROVE  LET result == Evaluation(captured, usable, covered)
         IN /\ result.condition[k] \in 0 .. MaxDigest
            /\ result.condition[k] # 0 => result.condition[k] = captured[k]
            /\ result.condition[k] = 0 /\ captured[k] # 0 => k[2] \notin result.covered[k[1]]
<1>1. k[1] \in Analyzers
  BY DEF Keys
<1> QED BY <1>1, LedgerAssumption DEF Evaluation, Conditions

(* What an incident is made of, and when a scan resolves it. *)
LEMMA MaterialType ==
  ASSUME NEW fs \in [Keys -> StoredFinding \union {NoFinding}], NEW a
  PROVE  Material(fs, a) \in SUBSET (Keys \X (1 .. MaxDigest) \X BOOLEAN)
<1>1. ASSUME NEW k \in Keys, Counts(fs[k])
      PROVE  <<k, fs[k].digest, fs[k].partial>> \in Keys \X (1 .. MaxDigest) \X BOOLEAN
  <2>1. fs[k] \in StoredFinding
    BY <1>1 DEF Counts
  <2> QED BY <2>1 DEF StoredFinding
<1> QED BY <1>1 DEF Material

(* An incident stays one, and is resolved anew only when nothing material is
   left of its analyzer's findings. *)
LEMMA IncidentType ==
  ASSUME NEW i \in Incident, NEW new \in SUBSET (Keys \X (1 .. MaxDigest) \X BOOLEAN)
  PROVE  /\ IncidentAfter(i, new) \in Incident
         /\ IncidentAfter(i, new).state = "resolved" => i.state = "resolved" \/ new = {}
<1> USE DEF Incident, IncidentStates, UserStates
<1>1. CASE new # {}
  <2> DEFINE waived == i.state \in {"dismissed", "ignored"}
             changed == i.material # new
             next == IF i.state = "none" THEN "new"
                     ELSE IF i.state = "resolved" \/ (waived /\ changed) THEN "regressed"
                     ELSE IF i.state \in UserStates THEN i.state
                     ELSE "recurring"
  <2>1. IncidentAfter(i, new) = [material |-> new, state |-> next]
    BY <1>1 DEF IncidentAfter
  <2>2. next \in IncidentStates /\ next # "resolved"
    OBVIOUS
  <2> HIDE DEF next
  <2> QED BY <1>1, <2>1, <2>2
<1>2. CASE new = {} /\ i.state = "none"
  BY <1>2 DEF IncidentAfter
<1>3. CASE new = {} /\ i.state # "none"
  <2>1. IncidentAfter(i, new) = [i EXCEPT !.state = "resolved"]
    BY <1>3 DEF IncidentAfter
  <2> QED BY <1>3, <2>1
<1> QED BY <1>1, <1>2, <1>3

(* A scan that commits. *)
LEMMA CommitKeeps ==
  ASSUME LedgerInv, Commit
  PROVE  /\ LedgerInv'
         /\ \A k \in Keys : findings[k] # NoFinding /\ findings[k].review = "snoozed"
                              /\ findings'[k].review = "new" => capture[k] # 0
         /\ \A a \in Analyzers : incidents'[a].state = "resolved" =>
              incidents[a].state = "resolved" \/ Material(findings', a) = {}
<1>1. PICK usable \in BOOLEAN, covered \in [Analyzers -> SUBSET Subjects] :
        LET result == Evaluation(capture, usable, covered)
            scan == ScanOf(findings, told, result, rules, ends, clock)
        IN /\ findings' = scan.findings
           /\ told' = scan.told
           /\ incidents' = [a \in Analyzers |->
                              IncidentAfter(incidents[a], Material(scan.findings, a))]
  BY DEF Commit
<1> DEFINE result == Evaluation(capture, usable, covered)
           scan == ScanOf(findings, told, result, rules, ends, clock)
<1>2. /\ scanning /\ scanning' = FALSE
      /\ UNCHANGED <<world, rules, ends, clock, capture, decided, changes>>
  BY DEF Commit
<1>3. DOMAIN findings' = Keys /\ DOMAIN told' = Keys
  BY <1>1 DEF ScanOf
<1>4. ASSUME NEW k \in Keys
      PROVE  /\ result.condition[k] \in 0 .. MaxDigest
             /\ result.condition[k] # 0 => result.condition[k] = capture[k]
             /\ result.condition[k] = 0 /\ capture[k] # 0 => k[2] \notin result.covered[k[1]]
  BY EvaluationReports DEF LedgerInv, LedgerTypeOK
<1>5. ASSUME NEW k \in Keys, findings[k] # NoFinding PROVE WellFormed(findings[k])
  BY <1>5 DEF LedgerInv, LedgerTypeOK, WellFormed, SnoozeHasEnd
<1>6. /\ findings \in [Keys -> StoredFinding \union {NoFinding}]
      /\ told \in [Keys -> ReviewStates] /\ rules \in SUBSET PolicyKinds
      /\ ends \in 1 .. MaxTime /\ clock \in 0 .. MaxTime
  BY DEF LedgerInv, LedgerTypeOK
<1>7. findings' = scan.findings /\ told' = scan.told
  BY <1>1
<1> HIDE DEF result
<1>8. ASSUME NEW k \in Keys
      PROVE  /\ findings'[k] # NoFinding => WellFormed(findings'[k])
             /\ told'[k] \in ReviewStates
             /\ findings[k] # NoFinding => findings'[k] # NoFinding
             /\ findings[k] = NoFinding /\ findings'[k] = NoFinding => told'[k] = told[k]
             /\ findings'[k] # NoFinding
                  /\ (IF findings[k] = NoFinding THEN told[k] = "new"
                                                 ELSE findings[k].review = told[k])
                  => findings'[k].review = told'[k]
             /\ findings[k] # NoFinding /\ findings[k].review = "snoozed"
                  /\ findings'[k].review = "new" => result.condition[k] # 0
             /\ /\ findings[k] # NoFinding /\ findings[k].open /\ rules = {}
                /\ findings[k].review # "snoozed"
                /\ \/ result.condition[k] = findings[k].digest
                   \/ result.condition[k] = 0 /\ k[2] \notin result.covered[k[1]]
                => /\ findings'[k].open
                   /\ findings'[k].review = findings[k].review
                   /\ findings'[k].digest = findings[k].digest
  BY <1>4, <1>5, <1>6, <1>7, ScanOne
<1> HIDE DEF scan
<1>9. findings' \in [Keys -> StoredFinding \union {NoFinding}]
  <2>1. findings' = [k \in Keys |-> findings'[k]]
    BY <1>1, <1>3 DEF ScanOf
  <2> QED BY <1>8, <2>1 DEF WellFormed
<1>10. told' \in [Keys -> ReviewStates]
  <2>1. told' = [k \in Keys |-> told'[k]]
    BY <1>1, <1>3 DEF ScanOf
  <2> QED BY <1>8, <2>1
<1>11. incidents' = [a \in Analyzers |-> IncidentAfter(incidents[a], Material(findings', a))]
  BY <1>1
<1>12. ASSUME NEW a \in Analyzers
       PROVE  /\ incidents'[a] \in Incident
              /\ incidents'[a].state = "resolved" =>
                   incidents[a].state = "resolved" \/ Material(findings', a) = {}
  <2>1. incidents[a] \in Incident
    BY DEF LedgerInv, LedgerTypeOK
  <2> QED BY <1>9, <1>11, <2>1, MaterialType, IncidentType
<1>13. LedgerTypeOK'
  BY <1>2, <1>8, <1>9, <1>10, <1>11, <1>12
  DEF LedgerInv, LedgerTypeOK, WellFormed, SnoozeHasEnd
<1>14. Recorded'
  BY <1>8 DEF LedgerInv, Recorded
<1>15. Standing'
  <2> SUFFICES ASSUME NEW k \in Keys, decided'[k] # "new"
               PROVE  (/\ findings[k] # NoFinding /\ findings[k].open
                       /\ findings[k].review = decided[k] /\ decided[k] # "snoozed"
                       /\ findings[k].digest = world[k]
                       /\ scanning => capture[k] = world[k]
                       /\ rules = {})'
    BY DEF Standing
  <2>1. /\ findings[k] # NoFinding /\ findings[k].open
        /\ findings[k].review = decided[k] /\ decided[k] # "snoozed"
        /\ findings[k].digest = world[k] /\ capture[k] = world[k] /\ rules = {}
    BY <1>2 DEF LedgerInv, Standing
  <2>2. findings[k].digest # 0
    BY <1>5, <2>1 DEF WellFormed, StoredFinding
  <2>3. \/ result.condition[k] = findings[k].digest
        \/ result.condition[k] = 0 /\ k[2] \notin result.covered[k[1]]
    BY <1>4, <2>1, <2>2
  <2> QED BY <1>2, <1>8, <2>1, <2>3
<1> QED BY <1>4, <1>8, <1>12, <1>13, <1>14, <1>15 DEF LedgerInv

(* A review, which wakes no snooze: there is no command that reopens. *)
LEMMA ReviewKeeps ==
  ASSUME LedgerInv, NEW k \in Keys, NEW to \in Reviews, NEW revision, Review(k, to, revision)
  PROVE  /\ LedgerInv'
         /\ \A j \in Keys : findings'[j].review = "new" => findings'[j] = findings[j]
<1>1. /\ findings[k] # NoFinding /\ findings[k].open
      /\ findings \in [Keys -> StoredFinding \union {NoFinding}] /\ told \in [Keys -> ReviewStates]
      /\ clock \in 0 .. MaxTime /\ to \in ReviewStates /\ to # "new"
  BY OperatorsAssumption DEF Review, Reviewable, LedgerInv, LedgerTypeOK
<1>2. PICK until \in IF to = "snoozed" THEN (clock + 1) .. MaxTime ELSE {0} :
        findings' = [findings EXCEPT ![k] = Reviewed(@, to, until)]
  BY DEF Review
<1>3. until \in 0 .. MaxTime /\ (to = "snoozed") = (until # 0)
  BY <1>1, <1>2, LedgerAssumption
<1> DEFINE g == Reviewed(findings[k], to, until)
<1>4. /\ WellFormed(g) /\ g # NoFinding
      /\ g.review = to /\ g.open = findings[k].open /\ g.digest = findings[k].digest
  <2>1. findings[k] \in StoredFinding /\ to \in ReviewStates
    BY <1>1
  <2> QED BY <1>3, <2>1, ReviewSetsReview
<1> HIDE DEF g
<1>5. findings' = [findings EXCEPT ![k] = g]
  BY <1>2 DEF g
<1>6. /\ told' = [told EXCEPT ![k] = to]
      /\ decided' = [decided EXCEPT ![k] =
                       IF /\ to # "snoozed" /\ rules = {}
                          /\ findings[k].digest = world[k]
                          /\ scanning => capture[k] = world[k]
                       THEN to ELSE "new"]
      /\ UNCHANGED <<world, incidents, rules, ends, clock, scanning, capture, changes>>
  BY DEF Review
<1>7. /\ findings' \in [Keys -> StoredFinding \union {NoFinding}]
      /\ told' \in [Keys -> ReviewStates] /\ decided' \in [Keys -> ReviewStates]
      /\ findings'[k] = g /\ told'[k] = to
      /\ \A j \in Keys \ {k} : findings'[j] = findings[j] /\ told'[j] = told[j]
                               /\ decided'[j] = decided[j]
  BY <1>1, <1>4, <1>5, <1>6 DEF LedgerInv, LedgerTypeOK, WellFormed, ReviewStates
<1>8. LedgerTypeOK'
  BY <1>4, <1>6, <1>7 DEF LedgerInv, LedgerTypeOK, WellFormed, SnoozeHasEnd
<1>9. Recorded'
  BY <1>4, <1>7 DEF LedgerInv, Recorded
<1>10. Standing'
  <2>1. decided'[k] # "new" => /\ decided'[k] = to /\ to # "snoozed" /\ rules = {}
                               /\ findings[k].digest = world[k]
                               /\ scanning => capture[k] = world[k]
    BY <1>6 DEF LedgerInv, LedgerTypeOK
  <2> SUFFICES ASSUME NEW j \in Keys, decided'[j] # "new"
               PROVE  (/\ findings[j] # NoFinding /\ findings[j].open
                       /\ findings[j].review = decided[j] /\ decided[j] # "snoozed"
                       /\ findings[j].digest = world[j]
                       /\ scanning => capture[j] = world[j]
                       /\ rules = {})'
    BY DEF Standing
  <2>2. CASE j = k
    BY <1>1, <1>4, <1>6, <1>7, <2>1, <2>2
  <2>3. CASE j # k
    <3>1. /\ findings'[j] = findings[j] /\ decided'[j] = decided[j]
          /\ UNCHANGED <<world, scanning, capture, rules>>
      BY <1>6, <1>7, <2>3
    <3> QED BY <3>1 DEF LedgerInv, Standing
  <2> QED BY <2>2, <2>3
<1>11. \A j \in Keys : findings'[j].review = "new" => findings'[j] = findings[j]
  BY <1>1, <1>4, <1>7
<1> QED BY <1>8, <1>9, <1>10, <1>11 DEF LedgerInv

(* The other steps leave findings and what is told of them alone. *)
LEMMA RestKeeps ==
  ASSUME LedgerInv,
         \/ BeginScan \/ Abandon \/ Tick \/ UNCHANGED ledgerVars
         \/ \E k \in Keys : Change(k)
         \/ \E a \in Analyzers : \E to \in Decisions : DecideIncident(a, to)
  PROVE  /\ LedgerInv' /\ UNCHANGED <<findings, told>>
         /\ \A a \in Analyzers : incidents'[a].state = "resolved" =>
              incidents[a].state = "resolved"
<1> USE DEF document
<1>1. CASE BeginScan \/ Abandon
  <2>1. CASE BeginScan
    BY <2>1 DEF BeginScan, LedgerInv, LedgerTypeOK, Recorded, Standing
  <2>2. CASE Abandon
    BY <2>2 DEF Abandon, LedgerInv, LedgerTypeOK, Recorded, Standing
  <2> QED BY <1>1, <2>1, <2>2
<1>2. CASE Tick
  BY <1>2, LedgerAssumption DEF Tick, LedgerInv, LedgerTypeOK, Recorded, Standing
<1>3. CASE UNCHANGED ledgerVars
  BY <1>3 DEF ledgerVars, LedgerInv, LedgerTypeOK, Recorded, Standing
<1>4. ASSUME NEW k \in Keys, Change(k)
      PROVE  LedgerInv' /\ UNCHANGED <<findings, told, incidents>>
  <2>1. PICK condition \in 0 .. MaxDigest : world' = [world EXCEPT ![k] = condition]
    BY <1>4 DEF Change
  <2>2. /\ UNCHANGED <<findings, told, incidents, rules, ends, clock, scanning, capture>>
        /\ decided' = [decided EXCEPT ![k] = "new"] /\ changes' \in 0 .. MaxChanges
    BY <1>4, OperatorsAssumption DEF Change, LedgerInv, LedgerTypeOK
  <2>3. world' \in Conditions /\ decided' \in [Keys -> ReviewStates]
    BY <2>1, <2>2 DEF LedgerInv, LedgerTypeOK, Conditions, ReviewStates
  <2>4. LedgerTypeOK'
    BY <2>2, <2>3 DEF LedgerInv, LedgerTypeOK
  <2>5. Recorded' /\ Standing'
    BY <2>1, <2>2 DEF LedgerInv, LedgerTypeOK, Recorded, Standing, Conditions
  <2> QED BY <2>2, <2>4, <2>5 DEF LedgerInv
<1>5. ASSUME NEW a \in Analyzers, NEW to \in Decisions, DecideIncident(a, to)
      PROVE  /\ LedgerInv' /\ UNCHANGED <<findings, told>>
             /\ \A b \in Analyzers : incidents'[b].state = "resolved" =>
                  incidents[b].state = "resolved"
  <2>1. /\ to \in UserStates /\ incidents \in [Analyzers -> Incident]
        /\ incidents' = [incidents EXCEPT ![a].state = to]
        /\ UNCHANGED <<world, findings, told, rules, ends, clock, scanning, capture,
                       decided, changes>>
    BY <1>5, OperatorsAssumption DEF DecideIncident, LedgerInv, LedgerTypeOK
  <2> DEFINE i == [incidents[a] EXCEPT !.state = to]
  <2>2. i \in Incident /\ i.state = to
    BY <2>1 DEF Incident, IncidentStates
  <2> HIDE DEF i
  <2>3. incidents' = [incidents EXCEPT ![a] = i]
    BY <2>1 DEF i
  <2>4. incidents' \in [Analyzers -> Incident] /\ to # "resolved"
    BY <2>1, <2>2, <2>3 DEF UserStates
  <2> QED BY <2>1, <2>2, <2>3, <2>4 DEF LedgerInv, LedgerTypeOK, Recorded, Standing
<1> QED BY <1>1, <1>2, <1>3, <1>4, <1>5
        DEF BeginScan, Abandon, Tick, ledgerVars

(* Every step of scans, operators and Home Assistant. *)
LEMMA LedgerKeeps ==
  ASSUME LedgerInv, [LedgerNext]_ledgerVars
  PROVE  LedgerInv'
BY CommitKeeps, ReviewKeeps, RestKeeps DEF LedgerNext

(* The review of a finding is always the one its newest record tells: no scan,
   policy, expiry or command changes it unrecorded (record_policy_reopens and
   reopen_expired_snoozes, reconciliation.py 26-107, and apply_suppression_reviews). *)
THEOREM ReviewsAreRecorded == LedgerSpec => []LastReviewStands
<1>1. LedgerInv => LastReviewStands
  BY DEF LedgerInv, Recorded, LastReviewStands
<1>2. LedgerInv /\ [LedgerNext]_ledgerVars => LedgerInv'
  BY LedgerKeeps
<1> QED BY LedgerStarts, <1>1, <1>2, PTL DEF LedgerSpec

(* What an operator decided about a condition stands as long as the condition does:
   scans that cover only a part, fail or come late neither reset nor resolve it
   (reconcile_findings). *)
THEOREM DecisionsStand == LedgerSpec => []DecisionStands
<1>1. LedgerInv => DecisionStands
  BY DEF LedgerInv, Standing, DecisionStands
<1>2. LedgerInv /\ [LedgerNext]_ledgerVars => LedgerInv'
  BY LedgerKeeps
<1> QED BY LedgerStarts, <1>1, <1>2, PTL DEF LedgerSpec

(* A snoozed finding asks for attention again only when a scan has just captured its
   condition (reopen_expired_snoozes: "only after a scan reconfirms the condition"). *)
THEOREM SnoozesEndSeen == LedgerSpec => SnoozeEndsSeen
<1> DEFINE Seen == \A k \in Keys :
             findings[k] # NoFinding /\ findings[k].review = "snoozed"
               /\ findings'[k].review = "new" => scanning /\ capture[k] # 0
<1>1. ASSUME LedgerInv, [LedgerNext]_ledgerVars PROVE Seen
  <2>1. CASE Commit
    BY <1>1, <2>1, CommitKeeps DEF Commit
  <2>2. ASSUME NEW k \in Keys, NEW to \in Reviews, NEW revision, Review(k, to, revision)
        PROVE  Seen
    BY <1>1, <2>2, ReviewKeeps
  <2>3. CASE UNCHANGED findings
    BY <2>3
  <2> QED BY <1>1, <2>1, <2>2, <2>3, RestKeeps DEF LedgerNext
<1>2. LedgerInv /\ [LedgerNext]_ledgerVars => LedgerInv'
  BY LedgerKeeps
<1> QED BY LedgerStarts, <1>1, <1>2, PTL DEF LedgerSpec, SnoozeEndsSeen

(* An incident is resolved by a scan only when none of its findings is open any more
   without an operator having set it aside (build_incidents and reconcile_incidents,
   incidents.py 498-620). *)
THEOREM ResolvedIncidentsAreOver == LedgerSpec => ResolvedIsGone
<1> DEFINE Gone(a) ==
             incidents'[a].state = "resolved" /\ incidents[a].state # "resolved" =>
               \A k \in Keys : k[1] = a /\ findings'[k] # NoFinding /\ findings'[k].open =>
                 told'[k] \in {"dismissed", "retained", "snoozed"}
<1>1. ASSUME LedgerInv, [LedgerNext]_ledgerVars PROVE \A a \in Analyzers : Gone(a)
  <2>1. CASE Commit
    <3> SUFFICES ASSUME NEW a \in Analyzers, Material(findings', a) = {},
                        NEW k \in Keys, k[1] = a, findings'[k] # NoFinding, findings'[k].open
                 PROVE  told'[k] \in {"dismissed", "retained", "snoozed"}
      BY <1>1, <2>1, CommitKeeps
    <3>1. ~Counts(findings'[k])
      BY DEF Material
    <3>2. findings'[k].review \in {"dismissed", "retained", "snoozed"}
      BY <3>1 DEF Counts
    <3>3. Recorded'
      BY <1>1, <2>1, CommitKeeps DEF LedgerInv
    <3> QED BY <3>2, <3>3 DEF Recorded
  <2>2. ASSUME NEW k \in Keys, NEW to \in Reviews, NEW revision, Review(k, to, revision)
        PROVE  \A a \in Analyzers : Gone(a)
    BY <2>2 DEF Review
  <2>3. CASE \A a \in Analyzers : incidents'[a].state = "resolved" =>
               incidents[a].state = "resolved"
    BY <2>3
  <2> QED BY <1>1, <2>1, <2>2, <2>3, RestKeeps DEF LedgerNext
<1>2. LedgerInv /\ [LedgerNext]_ledgerVars => LedgerInv'
  BY LedgerKeeps
<1> QED BY LedgerStarts, <1>1, <1>2, PTL DEF LedgerSpec, ResolvedIsGone

-----------------------------------------------------------------------------
(* The AI analysis.  The inductive invariant is a type for every part of the
   state: what a request carries from its plan over the calls to the second
   commit is what the stored advice and the baseline are made of. *)

AnalysisDocument ==
  [open : SUBSET Findings, revision : [Findings -> 1 .. MaxContent], scan : 1 .. MaxScans,
   advice : SUBSET Recommendation, baseline : Baseline \union {None},
   capability : Capability \union {None}]

GroupSets == SUBSET Groups

CallOutcomes == Results \union {"pending"}

(* A request in flight: what it sent of each finding it chose, and one outcome
   for each group of these. *)
RequestInFlight ==
  {run \in [bulk : BOOLEAN, eligible : Nat, chosen : SUBSET Findings,
            revision : UNION {[chosen -> 1 .. MaxContent] : chosen \in SUBSET Findings},
            members : UNION {[groups -> SUBSET Findings] : groups \in GroupSets},
            outcome : UNION {[groups -> CallOutcomes] : groups \in GroupSets},
            step : {"calls", "baseline"}, scan : 0 .. MaxScans,
            advice : SUBSET (Groups \X SUBSET Evidence)] :
     /\ run.revision \in [run.chosen -> 1 .. MaxContent]
     /\ run.members \in [GroupsOf(run.chosen) -> SUBSET Findings]
     /\ run.outcome \in [GroupsOf(run.chosen) -> CallOutcomes]
     /\ run.step = "baseline" => \E g \in GroupsOf(run.chosen) : run.outcome[g] = "answered"}

Memory ==
  {m \in [coverage : Coverage \union {None}, failed : GroupSets, succeeded : GroupSets] :
     m.failed \intersect m.succeeded = {}}

Lore == [answered : SUBSET Evidence, advice : SUBSET (Groups \X SUBSET Evidence),
         failed : GroupSets]

AnalysisIsTyped ==
  /\ doc \in AnalysisDocument
  /\ runs \in [Services -> RequestInFlight \union {None}]
  /\ memory \in Memory
  /\ config \in Configs
  /\ probe \in Configs \union {None}
  /\ lore \in Lore

(* The groups of findings of the installation are groups. *)
LEMMA GroupsOfFindings ==
  ASSUME NEW set \in SUBSET Findings
  PROVE  GroupsOf(set) \in GroupSets
BY DEF GroupsOf, GroupSets, Groups

(* The size of a set of findings is a number. *)
LEMMA FindingsAreCounted ==
  ASSUME NEW set \in SUBSET Findings
  PROVE  Cardinality(set) \in Nat
<1>1. IsFiniteSet(set)
  BY AnalysisAssumption, FS_Subset
<1> QED BY <1>1, FS_CardinalityType

(* Growing stale changes nothing but what is stale: every recommendation was
   there before, for the same group and from the same evidence. *)
LEMMA AgingKeeps ==
  ASSUME NEW d \in AnalysisDocument
  PROVE  /\ Aged(d) \in AnalysisDocument
         /\ Aged(d).open = d.open /\ Aged(d).revision = d.revision
         /\ Aged(d).scan = d.scan /\ Aged(d).baseline = d.baseline
         /\ Aged(d).capability = d.capability
         /\ \A a \in Aged(d).advice : \E b \in d.advice :
              a.group = b.group /\ a.source = b.source
<1> DEFINE Older(a) ==
      [a EXCEPT !.stale = \/ @
                          \/ \E e \in a.source : d.revision[e[1]] # e[2]
                          \/ a.members # {f \in d.open : GroupOf[f] = a.group}]
           older == {Older(a) : a \in d.advice}
<1>1. Aged(d) = [d EXCEPT !.advice = older]
  BY DEF Aged
<1>2. ASSUME NEW a \in d.advice
      PROVE  /\ Older(a) \in Recommendation
             /\ Older(a).group = a.group /\ Older(a).source = a.source
  <2>1. a \in Recommendation
    BY DEF AnalysisDocument
  <2> QED BY <2>1 DEF Recommendation
<1> HIDE DEF Older
<1>3. older \in SUBSET Recommendation
  BY <1>2
<1>4. ASSUME NEW a \in older
      PROVE  \E b \in d.advice : a.group = b.group /\ a.source = b.source
  <2>1. PICK b \in d.advice : a = Older(b)
    OBVIOUS
  <2> QED BY <1>2, <2>1
<1> HIDE DEF older
<1> QED BY <1>1, <1>3, <1>4 DEF AnalysisDocument

(* The first state is of its type. *)
LEMMA TypedAtStart == AnalysisInit => AnalysisIsTyped
<1> SUFFICES ASSUME AnalysisInit PROVE AnalysisIsTyped
  OBVIOUS
<1>1. doc \in AnalysisDocument
  BY AnalysisAssumption DEF AnalysisInit, AnalysisDocument
<1>2. memory \in Memory /\ lore \in Lore
  BY DEF AnalysisInit, NothingRemembered, Memory, Lore, GroupSets
<1> QED BY <1>1, <1>2, AnalysisAssumption DEF AnalysisInit, AnalysisIsTyped

(* What a request planned from a document of its type carries. *)
LEMMA PlannedRequest ==
  ASSUME AnalysisIsTyped, NEW scope \in Groups \union {All}, NEW chosen \in SUBSET Findings,
         Plans(scope, chosen)
  PROVE  /\ NewRun(scope, chosen) \in RequestInFlight
         /\ Cardinality(Candidates(scope)) \in Nat
<1>1. /\ doc.open \in SUBSET Findings
      /\ doc.revision \in [Findings -> 1 .. MaxContent]
  BY DEF AnalysisIsTyped, AnalysisDocument
<1>2. \A g \in Groups : MembersOf(g) \in SUBSET Findings
  BY <1>1 DEF MembersOf
<1>3. Candidates(scope) \in SUBSET Findings
  BY <1>1, <1>2 DEF Candidates
<1>4. Cardinality(Candidates(scope)) \in Nat
  BY <1>3, FindingsAreCounted
<1>5. GroupsOf(chosen) \in GroupSets
  BY GroupsOfFindings
<1> DEFINE revision == [f \in chosen |-> doc.revision[f]]
           members == [g \in GroupsOf(chosen) |-> MembersOf(g)]
           outcome == [g \in GroupsOf(chosen) |-> "pending"]
<1>6. /\ revision \in [chosen -> 1 .. MaxContent]
      /\ members \in [GroupsOf(chosen) -> SUBSET Findings]
      /\ outcome \in [GroupsOf(chosen) -> CallOutcomes]
  BY <1>1, <1>2, <1>5 DEF GroupSets, CallOutcomes
<1>7. /\ revision \in UNION {[c -> 1 .. MaxContent] : c \in SUBSET Findings}
      /\ members \in UNION {[groups -> SUBSET Findings] : groups \in GroupSets}
      /\ outcome \in UNION {[groups -> CallOutcomes] : groups \in GroupSets}
  BY <1>5, <1>6
<1>8. NewRun(scope, chosen) =
        [bulk |-> scope = All, eligible |-> Cardinality(Candidates(scope)),
         chosen |-> chosen, revision |-> revision, members |-> members,
         outcome |-> outcome, step |-> "calls", scan |-> 0, advice |-> {}]
  BY DEF NewRun
<1>9. 0 \in 0 .. MaxScans
  BY AnalysisAssumption
<1> HIDE DEF revision, members, outcome
<1> QED BY <1>4, <1>6, <1>7, <1>8, <1>9 DEF RequestInFlight

(* The groups of a request by what became of them. *)
LEMMA GroupsOfRequest ==
  ASSUME NEW run \in RequestInFlight
  PROVE  /\ DOMAIN run.outcome = GroupsOf(run.chosen)
         /\ \A results : GroupsWith(run, results) \in SUBSET GroupsOf(run.chosen)
         /\ FailedGroups(run) \in GroupSets /\ Succeeded(run) \in GroupSets
         /\ FailedGroups(run) \intersect Succeeded(run) = {}
         /\ GroupsOf(run.chosen) \in GroupSets
<1>1. /\ run.outcome \in [GroupsOf(run.chosen) -> CallOutcomes]
      /\ run.chosen \in SUBSET Findings
  BY DEF RequestInFlight
<1>2. GroupsOf(run.chosen) \in GroupSets
  BY <1>1, GroupsOfFindings
<1> QED BY <1>1, <1>2 DEF GroupSets, GroupsWith, FailedGroups, Succeeded

(* A request whose outcomes changed is one still, as long as the second
   commit has an answer to store. *)
LEMMA OutcomeReplaced ==
  ASSUME NEW run \in RequestInFlight,
         NEW outcome \in [GroupsOf(run.chosen) -> CallOutcomes],
         run.step = "baseline" => \E g \in GroupsOf(run.chosen) : outcome[g] = "answered"
  PROVE  [run EXCEPT !.outcome = outcome] \in RequestInFlight
<1>1. outcome \in UNION {[groups -> CallOutcomes] : groups \in GroupSets}
  BY GroupsOfRequest
<1> QED BY <1>1 DEF RequestInFlight

(* A request that has had an answer goes on to the second commit. *)
LEMMA RequestStored ==
  ASSUME NEW run \in RequestInFlight, GroupsWith(run, {"answered"}) # {},
         NEW scan \in 0 .. MaxScans, NEW advice \in SUBSET (Groups \X SUBSET Evidence)
  PROVE  [run EXCEPT !.step = "baseline", !.scan = scan, !.advice = advice] \in RequestInFlight
<1>1. \E g \in GroupsOf(run.chosen) : run.outcome[g] = "answered"
  BY GroupsOfRequest DEF GroupsWith
<1> DEFINE one == [run EXCEPT !.step = "baseline"]
           two == [one EXCEPT !.scan = scan]
           new == [two EXCEPT !.advice = advice]
<1>2. one \in RequestInFlight
  BY <1>1 DEF RequestInFlight
<1>3. two \in RequestInFlight
  <2> HIDE DEF one
  <2> QED BY <1>2 DEF RequestInFlight
<1>4. new \in RequestInFlight
  <2> HIDE DEF two
  <2> QED BY <1>3 DEF RequestInFlight
<1> QED BY <1>4

(* What a service remembers of a request. *)
LEMMA RememberedIsTyped ==
  ASSUME AnalysisIsTyped, NEW run \in RequestInFlight, NEW s \in Services
  PROVE  Remembered(s, run) \in Memory
<1>1. /\ FailedGroups(run) \in GroupSets /\ Succeeded(run) \in GroupSets
      /\ FailedGroups(run) \intersect Succeeded(run) = {}
  BY GroupsOfRequest
<1> QED BY <1>1 DEF AnalysisIsTyped, Memory, Remembered

(* What is stored of the answers of a request: evidence it was sent. *)
LEMMA AdviceIsTyped ==
  ASSUME NEW run \in RequestInFlight, NEW cited \in Citations(run)
  PROVE  /\ Advice(run, cited) \in SUBSET Recommendation
         /\ Names(Advice(run, cited)) \in SUBSET (Groups \X SUBSET Evidence)
         /\ \A a \in Advice(run, cited) : \A e \in a.source :
              e[1] \in run.chosen /\ e[2] = run.revision[e[1]]
<1>1. /\ run.chosen \in SUBSET Findings
      /\ run.revision \in [run.chosen -> 1 .. MaxContent]
      /\ run.members \in [GroupsOf(run.chosen) -> SUBSET Findings]
      /\ GroupsOf(run.chosen) \in GroupSets
  BY GroupsOfRequest DEF RequestInFlight
<1>2. /\ DOMAIN cited \in SUBSET GroupsOf(run.chosen)
      /\ \A g \in DOMAIN cited : cited[g] \in SUBSET run.chosen
  BY GroupsOfRequest DEF Citations
<1>3. ASSUME NEW a \in Advice(run, cited)
      PROVE  /\ a \in Recommendation
             /\ \A e \in a.source : e[1] \in run.chosen /\ e[2] = run.revision[e[1]]
  <2>1. PICK g \in DOMAIN cited :
          a = [group |-> g, source |-> {<<f, run.revision[f]>> : f \in cited[g]},
               members |-> run.members[g], stale |-> FALSE]
    BY <1>3 DEF Advice
  <2>2. g \in Groups /\ run.members[g] \in SUBSET Findings
    BY <1>1, <1>2 DEF GroupSets
  <2>3. {<<f, run.revision[f]>> : f \in cited[g]} \in SUBSET Evidence
    BY <1>1, <1>2 DEF Evidence
  <2>4. a \in Recommendation
    BY <2>1, <2>2, <2>3 DEF Recommendation
  <2>5. \A e \in a.source : e[1] \in run.chosen /\ e[2] = run.revision[e[1]]
    BY <2>1, <1>2
  <2> QED BY <2>4, <2>5
<1> QED BY <1>3 DEF Names, Recommendation

(* A request and its calls keep the types. *)
LEMMA TypedInCalls ==
  ASSUME AnalysisIsTyped, NEW s \in Services,
         NEW g \in Groups, NEW result \in Results, Call(s, g, result)
  PROVE  AnalysisIsTyped'
<1> DEFINE outcome == [runs[s].outcome EXCEPT ![g] = result]
           run == [runs[s] EXCEPT !.outcome = outcome]
<1>1. /\ runs[s] \in RequestInFlight
      /\ runs[s].step = "calls"
      /\ g \in GroupsOf(runs[s].chosen)
  BY GroupsOfRequest DEF Call, AnalysisIsTyped
<1>2. outcome \in [GroupsOf(runs[s].chosen) -> CallOutcomes]
  BY <1>1 DEF RequestInFlight, CallOutcomes
<1>3. run \in RequestInFlight
  <2> HIDE DEF outcome
  <2> QED BY <1>1, <1>2, OutcomeReplaced
<1>4. /\ runs' = [runs EXCEPT ![s] = run] \/ runs' = [runs EXCEPT ![s] = None]
      /\ memory' = Remembered(s, run) \/ memory' = memory
      /\ UNCHANGED <<doc, config, probe, lore>>
  BY DEF Call
<1>5. runs' \in [Services -> RequestInFlight \union {None}]
  <2> HIDE DEF run
  <2> QED BY <1>3, <1>4 DEF AnalysisIsTyped
<1>6. memory' \in Memory
  <2> HIDE DEF run
  <2> QED BY <1>3, <1>4, RememberedIsTyped DEF AnalysisIsTyped
<1> QED BY <1>4, <1>5, <1>6 DEF AnalysisIsTyped

(* Storing the advice keeps the types. *)
LEMMA TypedInSave ==
  ASSUME AnalysisIsTyped, NEW s \in Services, Save(s)
  PROVE  AnalysisIsTyped'
<1>1. CASE ~Unchanged(runs[s])
  BY <1>1 DEF Save, AnalysisIsTyped
<1>2. CASE Unchanged(runs[s])
  <2> DEFINE run == runs[s]
             answered == GroupsWith(run, {"answered"})
  <2>1. PICK cited \in Citations(run) :
          /\ doc' = Aged([doc EXCEPT !.advice = @ \cup Advice(run, cited)])
          /\ runs' = [runs EXCEPT ![s] = [run EXCEPT !.step = "baseline", !.scan = doc.scan,
                                                     !.advice = Names(Advice(run, cited))]]
          /\ memory' = Remembered(s, run)
          /\ lore' = [lore EXCEPT
               !.answered = @ \cup {<<f, run.revision[f]>> :
                                      f \in {x \in run.chosen : GroupOf[x] \in answered}},
               !.advice = @ \cup Names(Advice(run, cited))]
    BY <1>2 DEF Save
  <2> DEFINE new == Advice(run, cited)
  <2>2. run \in RequestInFlight /\ answered # {}
    BY DEF Save, Called, AnalysisIsTyped
  <2>3. new \in SUBSET Recommendation /\ Names(new) \in SUBSET (Groups \X SUBSET Evidence)
    BY <2>2, AdviceIsTyped
  <2>4. doc' \in AnalysisDocument
    <3> DEFINE d == [doc EXCEPT !.advice = @ \cup new]
    <3>1. d \in AnalysisDocument
      <4> HIDE DEF new
      <4> QED BY <2>3 DEF AnalysisIsTyped, AnalysisDocument
    <3> QED BY <2>1, <3>1, AgingKeeps
  <2>5. /\ run.chosen \in SUBSET Findings
        /\ run.revision \in [run.chosen -> 1 .. MaxContent]
        /\ \E g \in GroupsOf(run.chosen) : run.outcome[g] = "answered"
    BY <2>2, GroupsOfRequest DEF RequestInFlight, GroupsWith
  <2>6. runs' \in [Services -> RequestInFlight \union {None}]
    <3> DEFINE saved == [run EXCEPT !.step = "baseline", !.scan = doc.scan,
                                    !.advice = Names(new)]
    <3>1. doc.scan \in 0 .. MaxScans
      BY DEF AnalysisIsTyped, AnalysisDocument
    <3>2. saved \in RequestInFlight
      <4> HIDE DEF new, run, answered
      <4> QED BY <2>2, <2>3, <3>1, RequestStored DEF answered
    <3>3. runs' = [runs EXCEPT ![s] = saved]
      BY <2>1
    <3> HIDE DEF saved
    <3> QED BY <3>2, <3>3 DEF AnalysisIsTyped
  <2>7. memory' \in Memory
    BY <2>1, <2>2, RememberedIsTyped
  <2>8. lore' \in Lore
    <3>1. {<<f, run.revision[f]>> : f \in {x \in run.chosen : GroupOf[x] \in answered}}
             \in SUBSET Evidence
      BY <2>5 DEF Evidence
    <3> HIDE DEF answered, run, new
    <3> QED BY <2>1, <2>3, <3>1 DEF AnalysisIsTyped, Lore, new
  <2>9. UNCHANGED <<config, probe>>
    BY DEF Save
  <2> QED BY <2>4, <2>6, <2>7, <2>8, <2>9 DEF AnalysisIsTyped
<1> QED BY <1>1, <1>2

(* Storing the baseline keeps the types. *)
LEMMA TypedInSaveBaseline ==
  ASSUME AnalysisIsTyped, NEW s \in Services, SaveBaseline(s)
  PROVE  /\ AnalysisIsTyped'
         /\ doc'.baseline.groups = Succeeded(runs[s])
         /\ doc'.baseline.findings =
              {f \in runs[s].chosen : GroupOf[f] \notin FailedGroups(runs[s])}
         /\ lore'.failed = FailedGroups(runs[s])
         /\ \A a \in doc'.advice : \E b \in doc.advice :
              a.group = b.group /\ a.source = b.source
<1> DEFINE run == runs[s]
           baseline == [scan |-> IF s = "live" THEN doc.scan ELSE run.scan,
                        eligible |-> run.eligible,
                        findings |-> {f \in run.chosen : GroupOf[f] \notin FailedGroups(run)},
                        groups |-> Succeeded(run),
                        failed |-> FailedGroups(run),
                        advice |-> run.advice]
           d == [doc EXCEPT !.baseline = baseline]
<1>1. run \in RequestInFlight
  BY DEF SaveBaseline, AtBaseline, AnalysisIsTyped
<1>2. FailedGroups(run) \in GroupSets /\ Succeeded(run) \in GroupSets
  BY <1>1, GroupsOfRequest
<1>3. baseline \in Baseline
  BY <1>1, <1>2 DEF Baseline, RequestInFlight, AnalysisIsTyped, AnalysisDocument, GroupSets
<1>4. d \in AnalysisDocument /\ d.baseline = baseline /\ d.advice = doc.advice
  <2> HIDE DEF baseline
  <2> QED BY <1>3 DEF AnalysisIsTyped, AnalysisDocument
<1>5. doc' = Aged(d)
  BY DEF SaveBaseline
<1>6. /\ doc' \in AnalysisDocument
      /\ doc'.baseline = baseline
      /\ \A a \in doc'.advice : \E b \in doc.advice :
           a.group = b.group /\ a.source = b.source
  <2> HIDE DEF d, baseline
  <2> QED BY <1>4, <1>5, AgingKeeps
<1>7. lore' \in Lore /\ lore'.failed = FailedGroups(run)
  <2>1. lore' = [lore EXCEPT !.failed = FailedGroups(run)]
    BY DEF SaveBaseline, FailedGroups
  <2> HIDE DEF run
  <2> QED BY <1>2, <2>1 DEF AnalysisIsTyped, Lore
<1>8. runs' \in [Services -> RequestInFlight \union {None}]
  BY DEF SaveBaseline, AnalysisIsTyped
<1>9. AnalysisIsTyped'
  BY <1>6, <1>7, <1>8 DEF SaveBaseline, AnalysisIsTyped
<1> QED BY <1>6, <1>7, <1>9

(* Planning a request keeps the types. *)
LEMMA TypedInRequest ==
  ASSUME AnalysisIsTyped, NEW scope \in Groups \union {All}, NEW chosen \in SUBSET Findings,
         Request(scope, chosen)
  PROVE  AnalysisIsTyped'
<1> DEFINE run == NewRun(scope, chosen)
           count == Cardinality(Candidates(scope))
<1>1. run \in RequestInFlight /\ count \in Nat
  BY PlannedRequest DEF Request
<1>2. GroupsOf(chosen) \in SUBSET Groups
  BY GroupsOfFindings DEF GroupSets
<1>3. doc.scan \in 0 .. MaxScans
  BY DEF AnalysisIsTyped, AnalysisDocument
<1>4. memory' = [memory EXCEPT !.coverage = [eligible |-> count, selected |-> chosen,
                                             batches |-> GroupsOf(chosen), scan |-> doc.scan]]
  BY DEF Request
<1>5. memory' \in Memory
  <2> HIDE DEF count
  <2> QED BY <1>1, <1>2, <1>3, <1>4 DEF AnalysisIsTyped, Memory, Coverage
<1>6. runs' \in [Services -> RequestInFlight \union {None}]
  <2> HIDE DEF run
  <2> QED BY <1>1 DEF Request, AnalysisIsTyped, run
<1> QED BY <1>5, <1>6 DEF Request, AnalysisIsTyped

(* A scan keeps the types. *)
LEMMA TypedInScan ==
  ASSUME AnalysisIsTyped, NEW changed \in SUBSET Findings, NEW next \in SUBSET Findings,
         NewScan(changed, next)
  PROVE  /\ AnalysisIsTyped'
         /\ doc'.baseline = doc.baseline
         /\ \A a \in doc'.advice : \E b \in doc.advice :
              a.group = b.group /\ a.source = b.source
<1> DEFINE revision == [f \in Findings |-> IF f \in changed THEN doc.revision[f] + 1
                                                           ELSE doc.revision[f]]
           later == [doc EXCEPT !.scan = @ + 1]
           opened == [later EXCEPT !.open = next]
           d == [opened EXCEPT !.revision = revision]
<1>1. revision \in [Findings -> 1 .. MaxContent]
  BY AnalysisAssumption DEF NewScan, AnalysisIsTyped, AnalysisDocument
<1>2. /\ later \in AnalysisDocument
      /\ later.baseline = doc.baseline /\ later.advice = doc.advice
  BY AnalysisAssumption DEF NewScan, AnalysisIsTyped, AnalysisDocument
<1>3. /\ opened \in AnalysisDocument
      /\ opened.baseline = doc.baseline /\ opened.advice = doc.advice
  <2> HIDE DEF later
  <2> QED BY <1>2 DEF AnalysisDocument
<1>4. /\ d \in AnalysisDocument
      /\ d.baseline = doc.baseline /\ d.advice = doc.advice
  <2> HIDE DEF opened, revision
  <2> QED BY <1>1, <1>3 DEF AnalysisDocument
<1>5. doc' = Aged(d)
  BY DEF NewScan
<1>6. /\ doc' \in AnalysisDocument
      /\ doc'.baseline = doc.baseline
      /\ \A a \in doc'.advice : \E b \in doc.advice :
           a.group = b.group /\ a.source = b.source
  <2> HIDE DEF d
  <2> QED BY <1>4, <1>5, AgingKeeps
<1> QED BY <1>6 DEF NewScan, AnalysisIsTyped

(* The end of a probe keeps the types. *)
LEMMA TypedInProbe ==
  ASSUME AnalysisIsTyped, NEW c \in Configs, NEW manner \in Manners[c], EndProbe(manner)
  PROVE  /\ AnalysisIsTyped'
         /\ doc'.baseline = doc.baseline
         /\ \A a \in doc'.advice : \E b \in doc.advice :
              a.group = b.group /\ a.source = b.source
<1> DEFINE verdict == VerdictOf[manner]
           capability == [config |-> probe, verdict |-> verdict, fresh |-> TRUE]
           d == [doc EXCEPT !.capability = capability]
<1>1. verdict \in Verdicts
  <2>1. manner \in UNION {Manners[k] : k \in Configs}
    OBVIOUS
  <2>2. verdict = ComputeVerdict(manner)
    BY <2>1 DEF VerdictOf
  <2> QED BY <2>2 DEF ComputeVerdict, Verdicts
<1>2. probe \in Configs
  BY DEF EndProbe, AnalysisIsTyped
<1>3. capability \in Capability
  <2> HIDE DEF verdict
  <2> QED BY <1>1, <1>2 DEF Capability
<1>4. d \in AnalysisDocument /\ d.baseline = doc.baseline /\ d.advice = doc.advice
  <2> HIDE DEF capability
  <2> QED BY <1>3 DEF AnalysisIsTyped, AnalysisDocument
<1>5. doc' = Aged(d)
  BY DEF EndProbe
<1>6. /\ doc' \in AnalysisDocument
      /\ doc'.baseline = doc.baseline
      /\ \A a \in doc'.advice : \E b \in doc.advice :
           a.group = b.group /\ a.source = b.source
  <2> HIDE DEF d
  <2> QED BY <1>4, <1>5, AgingKeeps
<1> QED BY <1>6 DEF EndProbe, AnalysisIsTyped

(* A day passes: only the capability grows old. *)
LEMMA TypedInExpire ==
  ASSUME AnalysisIsTyped, Expire
  PROVE  /\ AnalysisIsTyped'
         /\ doc'.baseline = doc.baseline /\ doc'.advice = doc.advice
<1>1. doc.capability \in Capability
  BY DEF Expire, AnalysisIsTyped, AnalysisDocument
<1> DEFINE old == [doc.capability EXCEPT !.fresh = FALSE]
<1>2. old \in Capability
  BY <1>1 DEF Capability
<1>3. doc' = [doc EXCEPT !.capability = old]
  BY DEF Expire
<1>4. /\ doc' \in AnalysisDocument
      /\ doc'.baseline = doc.baseline /\ doc'.advice = doc.advice
  <2> HIDE DEF old
  <2> QED BY <1>2, <1>3 DEF AnalysisIsTyped, AnalysisDocument
<1> QED BY <1>4 DEF Expire, AnalysisIsTyped

(* A reload keeps the types: a refused call is a failed one. *)
LEMMA TypedInReload ==
  ASSUME AnalysisIsTyped, NEW to \in Configs, NEW refused \in SUBSET Groups,
         Reload(to, refused)
  PROVE  AnalysisIsTyped'
<1> DEFINE run == runs["live"]
           outcome == [g \in DOMAIN run.outcome |->
                         IF g \in refused THEN "failed" ELSE run.outcome[g]]
           moved == [run EXCEPT !.outcome = outcome]
<1>1. runs' \in [Services -> RequestInFlight \union {None}]
  <2>1. CASE run = None
    BY <2>1 DEF Reload, AnalysisIsTyped
  <2>2. CASE run # None
    <3>1. run \in RequestInFlight
      BY <2>2 DEF AnalysisIsTyped, Services
    <3>2. /\ refused \subseteq GroupsWith(run, {"pending"})
          /\ runs' = [runs EXCEPT !["live"] = None, !["gone"] = moved]
      BY <2>2 DEF Reload
    <3>3. outcome \in [GroupsOf(run.chosen) -> CallOutcomes]
      BY <3>1 DEF RequestInFlight, CallOutcomes, Results
    <3>4. ASSUME run.step = "baseline"
          PROVE  \E g \in GroupsOf(run.chosen) : outcome[g] = "answered"
      <4>1. PICK g \in GroupsOf(run.chosen) : run.outcome[g] = "answered"
        BY <3>1, <3>4 DEF RequestInFlight
      <4>2. g \notin refused
        BY <3>2, <4>1 DEF GroupsWith
      <4> QED BY <3>1, <4>1, <4>2, GroupsOfRequest
    <3>5. moved \in RequestInFlight
      <4> HIDE DEF outcome, run
      <4> QED BY <3>1, <3>3, <3>4, OutcomeReplaced
    <3> HIDE DEF moved
    <3> QED BY <3>2, <3>5 DEF AnalysisIsTyped
  <2> QED BY <2>1, <2>2
<1>2. memory' \in Memory
  BY DEF Reload, NothingRemembered, Memory, GroupSets
<1> QED BY <1>1, <1>2 DEF Reload, AnalysisIsTyped

(* What every step but the storing of advice and of a baseline leaves alone. *)
AdviceOnlyAges ==
  \A a \in doc'.advice : \E b \in doc.advice : a.group = b.group /\ a.source = b.source

BaselineKept == doc'.baseline = doc.baseline /\ lore'.failed = lore.failed

(* A step of a request keeps the types. *)
LEMMA TypedInRunStep ==
  ASSUME AnalysisIsTyped, NEW s \in Services, RunStep(s)
  PROVE  AnalysisIsTyped'
<1>1. ASSUME NEW g \in Groups, NEW result \in Results, Call(s, g, result)
      PROVE  AnalysisIsTyped'
  BY <1>1, TypedInCalls
<1>2. CASE Save(s)
  BY <1>2, TypedInSave
<1>3. CASE SaveBaseline(s)
  BY <1>3, TypedInSaveBaseline
<1>4. CASE GiveUp(s) \/ SaveLost(s) \/ BaselineLost(s)
  BY <1>4 DEF GiveUp, SaveLost, BaselineLost, AnalysisIsTyped
<1> QED BY <1>1, <1>2, <1>3, <1>4 DEF RunStep

(* The types are inductive. *)
LEMMA TypedInSteps == AnalysisIsTyped /\ [AnalysisNext]_analysisVars => AnalysisIsTyped'
<1> SUFFICES ASSUME AnalysisIsTyped, [AnalysisNext]_analysisVars
             PROVE  AnalysisIsTyped'
  OBVIOUS
<1>1. ASSUME NEW scope \in Groups \cup {All}, NEW chosen \in SUBSET Findings,
             Request(scope, chosen)
      PROVE  AnalysisIsTyped'
  BY <1>1, TypedInRequest
<1>2. ASSUME NEW s \in Services, RunStep(s)
      PROVE  AnalysisIsTyped'
  BY <1>2, TypedInRunStep
<1>3. ASSUME NEW changed \in SUBSET Findings, NEW next \in SUBSET Findings,
             NewScan(changed, next)
      PROVE  AnalysisIsTyped'
  BY <1>3, TypedInScan
<1>4. CASE BeginProbe
  BY <1>4 DEF BeginProbe, AnalysisIsTyped
<1>5. ASSUME NEW c \in Configs, NEW manner \in Manners[c], EndProbe(manner)
      PROVE  AnalysisIsTyped'
  BY <1>5, TypedInProbe
<1>6. CASE Expire
  BY <1>6, TypedInExpire
<1>7. ASSUME NEW to \in Configs, NEW refused \in SUBSET Groups, Reload(to, refused)
      PROVE  AnalysisIsTyped'
  BY <1>7, TypedInReload
<1>8. CASE Crash
  <2>1. memory' \in Memory
    BY <1>8 DEF Crash, NothingRemembered, Memory, GroupSets
  <2> QED BY <1>8, <2>1 DEF Crash, AnalysisIsTyped
<1>9. CASE UNCHANGED analysisVars
  BY <1>9 DEF analysisVars, AnalysisIsTyped
<1> QED BY <1>1, <1>2, <1>3, <1>4, <1>5, <1>6, <1>7, <1>8, <1>9 DEF AnalysisNext

(* Every state of the AI analysis is of its type (operations_service.py:1699,
   async_request_ai, and every step around it). *)
THEOREM AnalysisTyped == AnalysisSpec => []AnalysisTypeOK
<1>1. AnalysisIsTyped => AnalysisTypeOK
  <2> SUFFICES ASSUME AnalysisIsTyped PROVE AnalysisTypeOK
    OBVIOUS
  <2>1. ASSUME NEW s \in Services, AtBaseline(s)
        PROVE  GroupsWith(runs[s], {"answered"}) # {}
    <3>1. runs[s] \in RequestInFlight /\ runs[s].step = "baseline"
      BY <2>1 DEF AtBaseline, AnalysisIsTyped
    <3>2. PICK g \in GroupsOf(runs[s].chosen) : runs[s].outcome[g] = "answered"
      BY <3>1 DEF RequestInFlight
    <3> QED BY <3>1, <3>2, GroupsOfRequest DEF GroupsWith
  <2> QED BY <2>1 DEF AnalysisIsTyped, AnalysisTypeOK, AnalysisDocument, Memory, GroupSets
<1> QED BY <1>1, TypedAtStart, TypedInSteps, PTL DEF AnalysisSpec

(* A step that stores no baseline leaves the one there is, and what failed
   when it was stored. *)
LEMMA BaselineIsKept ==
  ASSUME AnalysisIsTyped, [AnalysisNext]_analysisVars, \A s \in Services : ~SaveBaseline(s)
  PROVE  BaselineKept
<1>1. ASSUME NEW s \in Services, Save(s)
      PROVE  BaselineKept
  <2>1. CASE ~Unchanged(runs[s])
    BY <1>1, <2>1 DEF Save, BaselineKept
  <2>2. CASE Unchanged(runs[s])
    <3>1. PICK cited \in Citations(runs[s]) :
            /\ doc' = Aged([doc EXCEPT !.advice = @ \cup Advice(runs[s], cited)])
            /\ lore' = [lore EXCEPT
                 !.answered = @ \cup {<<f, runs[s].revision[f]>> :
                    f \in {x \in runs[s].chosen :
                             GroupOf[x] \in GroupsWith(runs[s], {"answered"})}},
                 !.advice = @ \cup Names(Advice(runs[s], cited))]
      BY <1>1, <2>2 DEF Save
    <3>2. runs[s] \in RequestInFlight
      BY <1>1 DEF Save, Called, AnalysisIsTyped
    <3> DEFINE new == Advice(runs[s], cited)
               d == [doc EXCEPT !.advice = @ \cup new]
    <3>3. d \in AnalysisDocument /\ d.baseline = doc.baseline
      <4>1. new \in SUBSET Recommendation
        BY <3>2, AdviceIsTyped
      <4> HIDE DEF new
      <4> QED BY <4>1 DEF AnalysisIsTyped, AnalysisDocument
    <3>4. doc'.baseline = doc.baseline
      BY <3>1, <3>3, AgingKeeps
    <3>5. lore'.failed = lore.failed
      BY <3>1 DEF AnalysisIsTyped, Lore
    <3> QED BY <3>4, <3>5 DEF BaselineKept
  <2> QED BY <2>1, <2>2
<1>2. ASSUME NEW changed \in SUBSET Findings, NEW next \in SUBSET Findings,
             NewScan(changed, next)
      PROVE  BaselineKept
  BY <1>2, TypedInScan DEF NewScan, BaselineKept
<1>3. ASSUME NEW c \in Configs, NEW manner \in Manners[c], EndProbe(manner)
      PROVE  BaselineKept
  BY <1>3, TypedInProbe DEF EndProbe, BaselineKept
<1>4. CASE Expire
  BY <1>4, TypedInExpire DEF Expire, BaselineKept
<1>5. CASE UNCHANGED <<doc, lore>>
  BY <1>5 DEF BaselineKept
<1>6. ASSUME NEW s \in Services, RunStep(s)
      PROVE  Save(s) \/ UNCHANGED <<doc, lore>>
  BY <1>6 DEF RunStep, Call, GiveUp, SaveLost, BaselineLost
<1>7. ASSUME NEW scope, NEW chosen, Request(scope, chosen)
      PROVE  UNCHANGED <<doc, lore>>
  BY <1>7 DEF Request
<1>8. ASSUME NEW to, NEW refused, Reload(to, refused)
      PROVE  UNCHANGED <<doc, lore>>
  BY <1>8 DEF Reload
<1>9. BeginProbe \/ Crash \/ UNCHANGED analysisVars => UNCHANGED <<doc, lore>>
  BY DEF BeginProbe, Crash, analysisVars
<1> QED BY <1>1, <1>2, <1>3, <1>4, <1>5, <1>6, <1>7, <1>8, <1>9 DEF AnalysisNext

(* A group whose call failed, or whose evidence was too large to send, is not
   counted as analyzed by the stored baseline, whatever became of the other
   groups of the request and whatever came since (operations_service.py:976,
   _async_persist_analysis_baseline). *)
THEOREM FailuresAreNotCounted == AnalysisSpec => []FailureIsNotCoverage
<1>1. AnalysisInit => FailureIsNotCoverage
  BY DEF AnalysisInit, FailureIsNotCoverage
<1>2. ASSUME AnalysisIsTyped, FailureIsNotCoverage, [AnalysisNext]_analysisVars
      PROVE  FailureIsNotCoverage'
  <2>1. ASSUME NEW s \in Services, SaveBaseline(s)
        PROVE  FailureIsNotCoverage'
    <3>1. runs[s] \in RequestInFlight
      BY <1>2, <2>1 DEF SaveBaseline, AtBaseline, AnalysisIsTyped
    <3>2. FailedGroups(runs[s]) \intersect Succeeded(runs[s]) = {}
      BY <3>1, GroupsOfRequest
    <3>3. /\ doc'.baseline.groups = Succeeded(runs[s])
          /\ doc'.baseline.findings =
               {f \in runs[s].chosen : GroupOf[f] \notin FailedGroups(runs[s])}
          /\ lore'.failed = FailedGroups(runs[s])
      BY <1>2, <2>1, TypedInSaveBaseline
    <3> QED BY <3>2, <3>3 DEF FailureIsNotCoverage
  <2>2. CASE \A s \in Services : ~SaveBaseline(s)
    BY <1>2, <2>2, BaselineIsKept DEF BaselineKept, FailureIsNotCoverage
  <2> QED BY <2>1, <2>2
<1> QED BY <1>1, <1>2, TypedAtStart, TypedInSteps, PTL DEF AnalysisSpec

(* Every step but Save leaves the advice, or lets it grow stale. *)
LEMMA AdviceIsKept ==
  ASSUME AnalysisIsTyped, [AnalysisNext]_analysisVars, \A s \in Services : ~Save(s)
  PROVE  AdviceOnlyAges
<1>1. ASSUME NEW s \in Services, SaveBaseline(s)
      PROVE  AdviceOnlyAges
  BY <1>1, TypedInSaveBaseline DEF AdviceOnlyAges
<1>2. ASSUME NEW changed \in SUBSET Findings, NEW next \in SUBSET Findings,
             NewScan(changed, next)
      PROVE  AdviceOnlyAges
  BY <1>2, TypedInScan DEF AdviceOnlyAges
<1>3. ASSUME NEW c \in Configs, NEW manner \in Manners[c], EndProbe(manner)
      PROVE  AdviceOnlyAges
  BY <1>3, TypedInProbe DEF AdviceOnlyAges
<1>4. CASE Expire
  BY <1>4, TypedInExpire DEF AdviceOnlyAges
<1>5. CASE UNCHANGED doc
  BY <1>5 DEF AdviceOnlyAges
<1>6. ASSUME NEW s \in Services, RunStep(s)
      PROVE  SaveBaseline(s) \/ UNCHANGED doc
  BY <1>6 DEF RunStep, Call, GiveUp, SaveLost, BaselineLost
<1>7. ASSUME NEW scope, NEW chosen, Request(scope, chosen)
      PROVE  UNCHANGED doc
  BY <1>7 DEF Request
<1>8. ASSUME NEW to, NEW refused, Reload(to, refused)
      PROVE  UNCHANGED doc
  BY <1>8 DEF Reload
<1>9. BeginProbe \/ Crash \/ UNCHANGED analysisVars => UNCHANGED doc
  BY DEF BeginProbe, Crash, analysisVars
<1> QED BY <1>1, <1>2, <1>3, <1>4, <1>5, <1>6, <1>7, <1>8, <1>9 DEF AnalysisNext

(* Advice that a step stores is about evidence that is still what the
   provider was sent: the comparison before the commit sees every scan that
   came since the request was planned (RevisionConflictError,
   operations_service.py:2080). *)
THEOREM AdviceIsOnSentEvidence == AnalysisSpec => SavedOnSameEvidence
<1> DEFINE Step ==
      \A a \in doc'.advice : Names({a}) \subseteq Names(doc.advice) \/
        \A e \in a.source : doc.revision[e[1]] = e[2]
<1>1. ASSUME AnalysisIsTyped, [AnalysisNext]_analysisVars
      PROVE  [Step]_doc
  <2>1. ASSUME NEW s \in Services, Save(s)
        PROVE  [Step]_doc
    <3>1. CASE ~Unchanged(runs[s])
      BY <2>1, <3>1 DEF Save
    <3>2. CASE Unchanged(runs[s])
      <4>1. PICK cited \in Citations(runs[s]) :
              doc' = Aged([doc EXCEPT !.advice = @ \cup Advice(runs[s], cited)])
        BY <2>1, <3>2 DEF Save
      <4>2. runs[s] \in RequestInFlight
        BY <1>1, <2>1 DEF Save, Called, AnalysisIsTyped
      <4> DEFINE new == Advice(runs[s], cited)
                 d == [doc EXCEPT !.advice = @ \cup new]
      <4>3. /\ new \in SUBSET Recommendation
            /\ \A a \in new : \A e \in a.source :
                 e[1] \in runs[s].chosen /\ e[2] = runs[s].revision[e[1]]
        BY <4>2, AdviceIsTyped
      <4>4. d \in AnalysisDocument /\ d.advice = doc.advice \cup new
        <5> HIDE DEF new
        <5> QED BY <1>1, <4>3 DEF AnalysisIsTyped, AnalysisDocument
      <4>5. \A a \in doc'.advice : \E b \in doc.advice \cup new :
              a.group = b.group /\ a.source = b.source
        <5> HIDE DEF d
        <5> QED BY <4>1, <4>4, AgingKeeps DEF d
      <4>6. \A b \in new : \A e \in b.source : doc.revision[e[1]] = e[2]
        BY <3>2, <4>3 DEF Unchanged
      <4> HIDE DEF new
      <4> QED BY <4>5, <4>6 DEF Names
    <3> QED BY <3>1, <3>2
  <2>2. CASE \A s \in Services : ~Save(s)
    BY <1>1, <2>2, AdviceIsKept DEF AdviceOnlyAges, Names
  <2> QED BY <2>1, <2>2
<1>2. AnalysisSpec => [][Step]_doc
  BY <1>1, TypedAtStart, TypedInSteps, PTL DEF AnalysisSpec
<1> QED BY <1>2 DEF SavedOnSameEvidence

=============================================================================
