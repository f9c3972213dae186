-------------------------- MODULE EntityCleanupProofs -------------------------
(***************************************************************************)
(* What a cleanup pass disables unasked is safe by its own evidence, what  *)
(* a batch disabled can be put back, and a rollback restores what was      *)
(* planned: for any entities, policy exclusions, passes and events.        *)
(***************************************************************************)
EXTENDS EntityCleanup, FiniteSetTheorems, TLAPS

Labels == {"auto", "ask"}

Acting == {"approve", "check", "run"}
Chosen == {"create"} \union Acting
Judged == {"load", "save", "fingerprint"} \union Chosen

IsBatch(id) == id.label \in Labels /\ id.members \subseteq Entities

Registries == {"none", "user", "integration", "gone"}
Durations == {"none", "short", "long"}

Typed ==
  /\ registry \in [Entities -> Registries]
  /\ health \in [Entities -> {"up", "short", "long"}]
  /\ open \in [Entities -> Durations]
  /\ writer = [e \in Entities |-> writer[e]]

(* The batches the document, the executions and the installation speak of; a
   rollback token holds the state its batch was planned for, because the adapter
   compares the two in the step that changes the registry. *)
BatchesInv ==
  /\ \A id \in DOMAIN plans : IsBatch(id)
  /\ \A id \in executing : IsBatch(id)
  /\ \A id \in DOMAIN tokens :
       /\ IsBatch(id)
       /\ tokens[id] = id.before
       /\ \A e \in id.members : tokens[id][e] \in Registries
  /\ \A e \in Entities : writer[e] # Outside => IsBatch(writer[e]) /\ e \in writer[e].members

(* What the evidence of the pass says in favour of an entity. *)
SafeByEvidence(e) ==
  /\ pass.evidence.coverage = "complete"
  /\ CategoryOf[e] \in OptionalCategories /\ e \notin Excluded /\ e \notin pass.evidence.refs
  /\ pass.evidence.open[e] = "long" /\ pass.evidence.health[e] # "up"
  /\ pass.evidence.registry[e] = "none"

PassTyped ==
  /\ DOMAIN pass = {"pc", "mode", "evidence", "found", "base", "tries", "label", "id"}
  /\ DOMAIN pass.evidence = {"open", "registry", "health", "outage", "refs", "coverage"}
  /\ pass.evidence.registry \in [Entities -> Registries]
  /\ pass.evidence.open \in [Entities -> Durations]
  /\ pass.label \in Labels
  /\ pass.pc \in {"idle", "capture", "references", "failed", "done"} \union Judged

(* The verdicts are those of the evidence the pass still holds... *)
VerdictsInv ==
  pass.pc \in Judged =>
    /\ DOMAIN pass.found \subseteq Entities
    /\ pass.label = "auto" =>
         \A e \in DOMAIN pass.found :
           pass.found[e][1] = "safe_auto_fix" => SafeByEvidence(e)

(* ... the batch is what they chose, and only the automatic batch of a pass that
   may act is acted upon. *)
ChoiceInv ==
  /\ pass.pc \in {"capture", "references"} => pass.label = "auto"
  /\ pass.pc \in Chosen =>
       pass.id.label = pass.label /\ pass.id.members = ChosenFor(pass.label)
  /\ pass.pc \in Acting => pass.label = "auto" /\ pass.mode # "observe"

PassInv == PassTyped /\ VerdictsInv /\ ChoiceInv

CleanupInv == Typed /\ BatchesInv /\ PassInv

-----------------------------------------------------------------------------
(* The classifier                                                            *)

(* A set of places in a list of eleven has a first one. *)
LEMMA FirstPlace ==
  ASSUME NEW S, S \subseteq 1 .. 11, 11 \in S
  PROVE  \E i \in S : \A j \in S : i <= j
<1> SUFFICES ASSUME \A i \in S : \E j \in S : j < i PROVE FALSE
  OBVIOUS
<1>1. 1 \notin S /\ 2 \notin S /\ 3 \notin S
  OBVIOUS
<1>2. 4 \notin S /\ 5 \notin S /\ 6 \notin S
  BY <1>1
<1>3. 7 \notin S /\ 8 \notin S /\ 9 \notin S
  BY <1>1, <1>2
<1> QED BY <1>1, <1>2, <1>3

(* Only an optional entity that nothing excuses is safe to disable unasked. *)
LEMMA SafeVerdict ==
  ASSUME NEW c, NEW policy, Classify(c, policy)[1] = "safe_auto_fix"
  PROVE  /\ ~c.excluded /\ ~c.disabled /\ ~(c.down = "none") /\ ~c.expected
         /\ ~(c.down = "short") /\ ~c.referenced /\ CoverageSuffices(c, policy)
         /\ c.category \in OptionalCategories
<1> DEFINE list == Verdicts(c, policy)
           held == {i \in DOMAIN list : list[i][1]}
           first == CHOOSE i \in held : \A j \in held : i <= j
<1>1. DOMAIN list = 1 .. 11
  BY DEF Verdicts
<1>2. /\ list[1][1] = c.excluded /\ list[2][1] = c.disabled
      /\ list[3][1] = (c.down = "none") /\ list[4][1] = c.expected
      /\ list[6][1] = (c.down = "short") /\ list[7][1] = c.referenced
      /\ list[8][1] = ~CoverageSuffices(c, policy)
      /\ list[10][1] = (c.category \in OptionalCategories)
      /\ list[11][1] = TRUE
  BY DEF Verdicts
<1>3. \A i \in 1 .. 11 : list[i][2][1] = "safe_auto_fix" => i = 10
  BY DEF Verdicts
<1>4. first \in held /\ \A j \in held : first <= j
  <2>1. held \subseteq 1 .. 11 /\ 11 \in held
    BY <1>1, <1>2
  <2> HIDE DEF held
  <2>2. \E i \in held : \A j \in held : i <= j
    BY <2>1, FirstPlace
  <2> QED BY <2>2
<1>5. list[first][2][1] = "safe_auto_fix"
  BY DEF Classify, FirstOf
<1>6. first = 10
  BY <1>1, <1>3, <1>4, <1>5
<1>7. ASSUME NEW j \in 1 .. 9 PROVE ~list[j][1]
  <2>1. j \in 1 .. 11 /\ ~(10 <= j)
    OBVIOUS
  <2> HIDE DEF list, first
  <2> QED BY <1>1, <1>4, <1>6, <2>1
<1>8. list[10][1]
  BY <1>4, <1>6
<1> HIDE DEF list
<1> QED BY <1>2, <1>7, <1>8

-----------------------------------------------------------------------------
(* The installation, the plans and the tokens                                *)

(* The invariant holds at first. *)
LEMMA InitCleanup == Init => CleanupInv
<1> SUFFICES ASSUME Init PROVE CleanupInv
  OBVIOUS
<1>1. Typed
  BY DEF Init, Typed, Registries, Durations
<1>2. BatchesInv
  BY DEF Init, BatchesInv
<1>3. PassInv
  BY DEF Init, PassInv, PassTyped, VerdictsInv, ChoiceInv, Idle, NoEvidence, Blank, None,
         Registries, Durations, Labels, Judged, Chosen, Acting
<1> QED BY <1>1, <1>2, <1>3 DEF CleanupInv

(* An execution keeps the books: the members it disabled, and the token that
   undoes it. *)
LEMMA RunKeeps ==
  ASSUME Typed, BatchesInv, NEW id, Run(id)
  PROVE  Typed' /\ BatchesInv'
<1>1. IsBatch(id)
  BY DEF Run, BatchesInv
<1>2. health' = health /\ open' = open /\ executing' \subseteq executing
  BY DEF Run
<1>3. CASE BatchStale(id)
  BY <1>2, <1>3 DEF BatchStale, Ends, Typed, BatchesInv
<1>4. CASE BatchFails(id)
  <2>0. PICK tried \in SUBSET (id.members \ Gone) : \E stuck \in Stuck(tried) :
          /\ registry' = [e \in Entities |-> IF e \in stuck THEN "user" ELSE registry[e]]
          /\ writer' = [e \in Entities |-> IF e \in stuck THEN id ELSE writer[e]]
    BY <1>4 DEF BatchFails
  <2>1. PICK stuck \in Stuck(tried) :
          /\ registry' = [e \in Entities |-> IF e \in stuck THEN "user" ELSE registry[e]]
          /\ writer' = [e \in Entities |-> IF e \in stuck THEN id ELSE writer[e]]
    BY <2>0
  <2>2. stuck \subseteq id.members
    BY <2>1 DEF Stuck
  <2>3. Typed'
    BY <1>2, <2>1 DEF Typed, Registries
  <2>4. BatchesInv'
    BY <1>1, <1>2, <1>4, <2>1, <2>2 DEF BatchFails, Ends, BatchesInv, Typed
  <2> QED BY <2>3, <2>4
<1>5. CASE BatchDone(id)
  <2>1. Typed'
    BY <1>2, <1>5 DEF BatchDone, Typed, Registries
  <2>2. /\ \A i \in DOMAIN plans' : i \in DOMAIN plans
        /\ \A i \in executing' : IsBatch(i)
    BY <1>2, <1>5 DEF BatchDone, Ends, BatchesInv
  <2>3. \A e \in Entities : writer'[e] # Outside =>
          IsBatch(writer'[e]) /\ e \in writer'[e].members
    BY <1>1, <1>5 DEF BatchDone, BatchesInv
  <2>4. \A e \in id.members : Digest(id.members)[e] \in Registries
    BY <1>1 DEF Digest, IsBatch, Typed, Registries
  <2>5. ASSUME NEW i \in DOMAIN tokens'
        PROVE  IsBatch(i) /\ tokens'[i] = i.before
               /\ \A e \in i.members : tokens'[i][e] \in Registries
    <3>1. CASE i \in DOMAIN tokens /\ tokens'[i] = tokens[i]
      BY <3>1 DEF BatchesInv
    <3>2. CASE i = id /\ tokens'[i] = Token(id)
      BY <1>1, <1>5, <2>4, <3>2 DEF BatchDone, Token
    <3> QED BY <1>5, <2>5, <3>1, <3>2 DEF BatchDone, Put
  <2> QED BY <2>1, <2>2, <2>3, <2>5 DEF BatchesInv
<1> QED BY <1>3, <1>4, <1>5 DEF Run

(* A rollback gives its token up. *)
LEMMA RollBackKeeps ==
  ASSUME Typed, BatchesInv, NEW id, RollBack(id)
  PROVE  Typed' /\ BatchesInv'
<1>1. PICK failed \in SUBSET id.members :
        /\ registry' = [e \in Entities |->
                          IF e \in id.members \ failed THEN tokens[id][e] ELSE registry[e]]
        /\ writer' = [e \in Entities |->
                        IF e \in id.members \ failed THEN Outside ELSE writer[e]]
        /\ Ends(id, IF failed = {} THEN "rolled_back" ELSE "rollback_failed")
  BY DEF RollBack
<1>2. Typed'
  BY <1>1 DEF RollBack, Typed, BatchesInv
<1>3. \A i \in DOMAIN tokens' : i \in DOMAIN tokens /\ tokens'[i] = tokens[i]
  BY DEF RollBack
<1>4. DOMAIN plans' = DOMAIN plans /\ executing' = executing
  BY <1>1 DEF Ends, RollBack
<1> QED BY <1>1, <1>2, <1>3, <1>4 DEF BatchesInv

(* What others do to the installation, and what a scan or a decision does to the
   document, touches no batch. *)
LEMMA WorldKeeps == ASSUME Typed, BatchesInv, World PROVE Typed' /\ BatchesInv'
<1> USE DEF Typed, BatchesInv, Event, document, installation, history, Registries, Durations
<1>1. ASSUME NEW e \in Entities, NEW h \in {"up", "short", "long"}, Sicken(e, h)
      PROVE  Typed' /\ BatchesInv'
  BY <1>1 DEF Sicken
<1>2. ASSUME NEW e \in Entities, Refer(e) PROVE Typed' /\ BatchesInv'
  BY <1>2 DEF Refer
<1>3. ASSUME NEW e \in Entities, NEW by \in Registries, Change(e, by)
      PROVE  Typed' /\ BatchesInv'
  BY <1>3 DEF Change
<1>4. CASE ToggleOutage
  BY <1>4 DEF ToggleOutage
<1>5. CASE Rescan
  BY <1>5 DEF Rescan
<1>6. ASSUME NEW k, NEW decision, Decide(k, decision) PROVE Typed' /\ BatchesInv'
  BY <1>6 DEF Decide
<1>7. ASSUME NEW id, Expire(id) PROVE Typed' /\ BatchesInv'
  BY <1>7 DEF Expire
<1> QED BY <1>1, <1>2, <1>3, <1>4, <1>5, <1>6, <1>7 DEF World

(* Approving and checking a batch change neither the installation nor a token. *)
LEMMA ApprovalKeeps ==
  ASSUME Typed, BatchesInv, NEW id \in DOMAIN plans, Approve(id) \/ Check(id)
  PROVE  Typed' /\ BatchesInv'
BY DEF Approve, Check, Typed, BatchesInv, installation, document, history

(* The operator's steps. *)
LEMMA OperatorKeeps == ASSUME Typed, BatchesInv, Operator PROVE Typed' /\ BatchesInv'
<1>1. PICK id \in DOMAIN plans :
        OperatorApproves(id) \/ OperatorChecks(id) \/ OperatorRuns(id) \/ RollBack(id)
  BY DEF Operator
<1>2. CASE OperatorApproves(id) \/ OperatorChecks(id)
  BY <1>2, ApprovalKeeps DEF OperatorApproves, OperatorChecks
<1>3. CASE OperatorRuns(id)
  BY <1>3, RunKeeps DEF OperatorRuns
<1>4. CASE RollBack(id)
  BY <1>4, RollBackKeeps
<1> QED BY <1>1, <1>2, <1>3, <1>4

(* The steps of a pass. *)
LEMMA PassBatchesKept ==
  ASSUME Typed, BatchesInv, PassInv, PassStep \/ Begin \/ UNCHANGED vars
  PROVE  Typed' /\ BatchesInv'
<1>1. CASE /\ UNCHANGED <<installation, plans, tokens, executing, writer>>
           /\ UNCHANGED open
  BY <1>1 DEF Typed, BatchesInv, installation
<1>2. CASE Begin \/ Capture \/ References \/ LoadWork \/ SaveWork \/ Fingerprint \/ Answer
           \/ UNCHANGED vars
  BY <1>1, <1>2
     DEF Begin, Capture, References, LoadWork, SaveWork, Fingerprint, Answer, Alone, document,
         vars
<1>3. CASE CreateBatch
  <2>1. IsBatch(pass.id)
    BY <1>3 DEF CreateBatch, Go, PassInv, PassTyped, VerdictsInv, ChoiceInv, IsBatch,
                ChosenFor, Chosen, Judged
  <2>2. \A id \in DOMAIN plans' : id \in DOMAIN plans \/ id = pass.id
    BY <1>3 DEF CreateBatch, Put
  <2> QED BY <1>3, <2>1, <2>2 DEF CreateBatch, Typed, BatchesInv, installation
<1>4. CASE PassApproves
  BY <1>1, <1>4, ApprovalKeeps DEF PassApproves, Approvable, Alone, document
<1>5. CASE PassChecks
  BY <1>1, <1>5, ApprovalKeeps DEF PassChecks, Executable, Approvable, Alone, document
<1>6. CASE PassRuns
  BY <1>6, RunKeeps DEF PassRuns
<1> QED BY <1>2, <1>3, <1>4, <1>5, <1>6 DEF PassStep

-----------------------------------------------------------------------------
(* The pass                                                                  *)

(* Between its two batches a pass goes on with the second, or ends. *)
LEMMA NextLabelKeeps ==
  ASSUME PassInv, pass.pc \in Judged, pass' = NextLabel
  PROVE  PassInv'
<1>1. CASE pass.label = "auto"
  BY <1>1 DEF NextLabel, PassInv, PassTyped, VerdictsInv, ChoiceInv, NoEvidence, Blank, None,
              Registries, Durations, Labels, Judged, Chosen, Acting
<1>2. CASE pass.label = "ask"
  BY <1>2 DEF NextLabel, PassInv, PassTyped, VerdictsInv, ChoiceInv, Labels, Judged, Chosen,
              Acting
<1> QED BY <1>1, <1>2 DEF PassInv, PassTyped, Labels

(* The classification trusts only the evidence of the pass. *)
LEMMA CandidatesAreSafe ==
  ASSUME PassTyped, NEW e \in Considered, NEW coverage,
         Classify(Candidate(e, coverage), Policy)[1] = "safe_auto_fix"
  PROVE  /\ e \in Entities
         /\ coverage = "complete"
         /\ CategoryOf[e] \in OptionalCategories /\ e \notin Excluded /\ e \notin refs
         /\ pass.evidence.open[e] = "long" /\ pass.evidence.health[e] # "up"
         /\ pass.evidence.registry[e] = "none"
<1> DEFINE c == Candidate(e, coverage)
           there == pass.evidence.registry[e] # "gone"
<1>1. e \in Entities
  BY DEF Considered
<1>2. /\ c.excluded = (e \in Excluded)
      /\ c.disabled = (pass.evidence.registry[e] \in {"user", "integration"})
      /\ c.down = IF there /\ pass.evidence.health[e] # "up" THEN pass.evidence.open[e]
                                                            ELSE "none"
      /\ c.referenced = (there /\ e \in refs)
      /\ c.coverage = coverage
      /\ c.category = IF there THEN CategoryOf[e] ELSE "primary"
  BY DEF Candidate
<1>3. /\ ~c.excluded /\ ~c.disabled /\ ~(c.down = "none")
      /\ ~(c.down = "short") /\ ~c.referenced /\ CoverageSuffices(c, Policy)
      /\ c.category \in OptionalCategories
  <2> HIDE DEF c
  <2> QED BY SafeVerdict DEF c
<1> HIDE DEF c
<1>4. there /\ pass.evidence.health[e] # "up"
  BY <1>2, <1>3
<1>5. pass.evidence.registry[e] = "none"
  BY <1>1, <1>2, <1>3, <1>4 DEF PassTyped, Registries
<1>6. pass.evidence.open[e] = "long"
  BY <1>1, <1>2, <1>3, <1>4 DEF PassTyped, Durations
<1>7. coverage = "complete"
  BY <1>2, <1>3 DEF CoverageSuffices, Policy
<1> QED BY <1>1, <1>2, <1>3, <1>4, <1>5, <1>6, <1>7

(* A step that only moves the pass within its acting phases. *)
LEMMA PassMoves ==
  ASSUME PassInv, NEW pc, pass.pc \in Acting, pc \in Acting, pass' = [pass EXCEPT !.pc = pc]
  PROVE  PassInv'
BY DEF PassInv, PassTyped, VerdictsInv, ChoiceInv, SafeByEvidence, ChosenFor, Judged, Chosen,
       Acting

(* A step of others leaves the pass as it is. *)
LEMMA PassUntouched == ASSUME PassInv, UNCHANGED pass PROVE PassInv'
BY DEF PassInv, PassTyped, VerdictsInv, ChoiceInv, SafeByEvidence, ChosenFor

(* A step that leaves the findings of the pass alone leaves its verdicts and its
   choice alone. *)
LEMMA SameFindings ==
  ASSUME PassInv, pass.pc \in Judged, pass'.evidence = pass.evidence,
         pass'.found = pass.found, pass'.label = pass.label
  PROVE  VerdictsInv' /\ ChosenFor(pass.label)' = ChosenFor(pass.label)
BY DEF PassInv, VerdictsInv, SafeByEvidence, ChosenFor

(* Each step of the pass keeps what it has found out. *)
LEMMA PassKeeps == ASSUME Typed, PassInv, PassStep \/ Begin PROVE PassInv'
<1> USE DEF Go
<1>1. CASE Begin
  <2>1. PICK mode : pass' = [Idle EXCEPT !.pc = "capture", !.mode = mode, !.evidence.open = open]
    BY <1>1 DEF Begin
  <2>2. /\ DOMAIN pass' = {"pc", "mode", "evidence", "found", "base", "tries", "label", "id"}
        /\ pass'.pc = "capture" /\ pass'.label = "auto"
        /\ pass'.evidence = [NoEvidence EXCEPT !.open = open]
    BY <2>1 DEF Idle
  <2>3. /\ DOMAIN pass'.evidence
             = {"open", "registry", "health", "outage", "refs", "coverage"}
        /\ pass'.evidence.open = open /\ pass'.evidence.registry = Blank
    BY <2>2 DEF NoEvidence
  <2> QED BY <2>2, <2>3
          DEF Typed, PassInv, PassTyped, VerdictsInv, ChoiceInv, Blank, None, Registries, Labels,
              Judged, Chosen, Acting
<1>2. CASE Capture
  BY <1>2 DEF Capture, Typed, PassInv, PassTyped, VerdictsInv, ChoiceInv, Judged, Chosen, Acting
<1>3. CASE References
  <2>1. PICK coverage \in {"complete", "missing"} :
          pass' = [pass EXCEPT !.pc = "load", !.found = Classified(coverage),
                               !.evidence = [@ EXCEPT !.refs = refs, !.coverage = coverage]]
    BY <1>3 DEF References
  <2>2. PassTyped' /\ ChoiceInv'
    BY <1>3, <2>1 DEF References, PassInv, PassTyped, ChoiceInv, Judged, Chosen, Acting
  <2>3. /\ pass'.found = Classified(coverage)
        /\ pass'.evidence.refs = refs /\ pass'.evidence.coverage = coverage
        /\ pass'.evidence.open = pass.evidence.open
        /\ pass'.evidence.health = pass.evidence.health
        /\ pass'.evidence.registry = pass.evidence.registry
    BY <2>1 DEF PassInv, PassTyped
  <2>4. DOMAIN pass'.found = Considered /\ Considered \subseteq Entities
    BY <2>3 DEF Classified, Considered
  <2>5. ASSUME NEW e \in Considered, pass'.found[e][1] = "safe_auto_fix"
        PROVE  SafeByEvidence(e)'
    <3>1. Classify(Candidate(e, coverage), Policy)[1] = "safe_auto_fix"
      BY <2>3, <2>5 DEF Classified
    <3> QED BY <2>3, <3>1, CandidatesAreSafe DEF PassInv, SafeByEvidence
  <2>6. VerdictsInv'
    BY <2>4, <2>5 DEF VerdictsInv
  <2> QED BY <2>2, <2>6 DEF PassInv
<1>4. CASE LoadWork
  BY <1>4 DEF LoadWork, PassInv, PassTyped, VerdictsInv, ChoiceInv, SafeByEvidence, Judged,
              Chosen, Acting
<1>5. CASE SaveWork
  <2>1. PICK pc \in {"fingerprint", "failed", "load"} :
          \E tries : pass' = [pass EXCEPT !.pc = pc, !.base = << >>, !.tries = tries]
    BY <1>5, ZenonT(40) DEF SaveWork, AfterConflict
  <2>2. PICK tries : pass' = [pass EXCEPT !.pc = pc, !.base = << >>, !.tries = tries]
    BY <2>1
  <2>3. /\ DOMAIN pass' = DOMAIN pass /\ pass'.pc = pc
        /\ pass'.evidence = pass.evidence /\ pass'.found = pass.found
        /\ pass'.label = pass.label
    BY <2>2 DEF PassInv, PassTyped
  <2>4. VerdictsInv'
    BY <1>5, <2>3, SameFindings DEF SaveWork, Judged
  <2> QED BY <2>3, <2>4 DEF PassInv, PassTyped, ChoiceInv, Judged, Chosen, Acting
<1>6. CASE Fingerprint
  <2>1. CASE pass' = NextLabel
    BY <1>6, <2>1, NextLabelKeeps DEF Fingerprint, Judged
  <2>2. CASE pass' = [pass EXCEPT !.pc = "create",
                        !.id = [label |-> pass.label, members |-> ChosenFor(pass.label),
                                before |-> Digest(ChosenFor(pass.label))]]
    <3> DEFINE id == [label |-> pass.label, members |-> ChosenFor(pass.label),
                      before |-> Digest(ChosenFor(pass.label))]
    <3>1. id.label = pass.label /\ id.members = ChosenFor(pass.label)
      OBVIOUS
    <3> HIDE DEF id
    <3>2. /\ pass' = [pass EXCEPT !.pc = "create", !.id = id]
      BY <2>2 DEF id
    <3>3. /\ DOMAIN pass' = DOMAIN pass /\ pass'.pc = "create" /\ pass'.id = id
          /\ pass'.evidence = pass.evidence /\ pass'.found = pass.found
          /\ pass'.label = pass.label
      BY <3>2 DEF PassInv, PassTyped
    <3>4. VerdictsInv' /\ ChosenFor(pass.label)' = ChosenFor(pass.label)
      BY <1>6, <3>3, SameFindings DEF Fingerprint, Judged
    <3> QED BY <3>1, <3>3, <3>4 DEF PassInv, PassTyped, ChoiceInv, Judged, Chosen, Acting
  <2> QED BY <1>6, <2>1, <2>2 DEF Fingerprint
<1>7. CASE CreateBatch
  <2>1. CASE pass' = NextLabel
    BY <1>7, <2>1, NextLabelKeeps DEF CreateBatch, Judged, Chosen
  <2>2. CASE /\ pass' = [pass EXCEPT !.pc = "approve"] /\ pass.label = "auto"
             /\ AutoExecutable("low", EffectiveMode(pass.mode, "none"), TRUE, FALSE)
    <3>1. pass.mode # "observe"
      BY <2>2 DEF AutoExecutable, EffectiveMode, LowAllowed, MediumAllowed
    <3> QED BY <1>7, <2>2, <3>1
            DEF CreateBatch, PassInv, PassTyped, VerdictsInv, ChoiceInv, SafeByEvidence,
                ChosenFor, Judged, Chosen, Acting
  <2> QED BY <1>7, <2>1, <2>2 DEF CreateBatch
<1>8. CASE PassApproves \/ PassChecks \/ PassRuns
  <2>1. CASE pass' = NextLabel
    BY <1>8, <2>1, NextLabelKeeps DEF PassApproves, PassChecks, PassRuns, Judged, Chosen, Acting
  <2>2. CASE pass' = [pass EXCEPT !.pc = "check"] \/ pass' = [pass EXCEPT !.pc = "run"]
    BY <1>8, <2>2, PassMoves DEF PassApproves, PassChecks, PassRuns, Acting
  <2> QED BY <1>8, <2>1, <2>2 DEF PassApproves, PassChecks, PassRuns
<1>9. CASE Answer
  BY <1>9 DEF Answer, Idle, NoEvidence, Blank, None, Typed, PassInv, PassTyped, VerdictsInv,
              ChoiceInv, Registries, Durations, Labels, Judged, Chosen, Acting
<1> QED BY <1>1, <1>2, <1>3, <1>4, <1>5, <1>6, <1>7, <1>8, <1>9 DEF PassStep

(* Every step keeps the invariant. *)
LEMMA NextCleanup == ASSUME CleanupInv, [Next]_vars PROVE CleanupInv'
<1> USE DEF CleanupInv
<1>1. CASE World
  <2>1. UNCHANGED pass
    BY <1>1 DEF World, Sicken, Refer, Change, ToggleOutage, Rescan, Decide, Expire, Event
  <2> QED BY <1>1, <2>1, WorldKeeps, PassUntouched
<1>2. CASE Operator
  <2>1. UNCHANGED pass
    BY <1>2 DEF Operator, OperatorApproves, OperatorChecks, OperatorRuns, RollBack
  <2> QED BY <1>2, <2>1, OperatorKeeps, PassUntouched
<1>3. CASE PassStep \/ Begin
  BY <1>3, PassBatchesKept, PassKeeps
<1>4. CASE UNCHANGED vars
  BY <1>4, PassBatchesKept, PassUntouched DEF vars
<1> QED BY <1>1, <1>2, <1>3, <1>4 DEF Next

(* The invariant holds in every behaviour. *)
LEMMA Inductive == Spec => []CleanupInv
BY InitCleanup, NextCleanup, PTL DEF Spec

-----------------------------------------------------------------------------
(* The promises                                                              *)

(* An execution changes only members of its batch. *)
LEMMA OnlyMembersChange ==
  ASSUME Typed, NEW id, Run(id), NEW e \in Entities, registry'[e] # registry[e]
  PROVE  e \in id.members
<1>1. CASE BatchStale(id)
  BY <1>1 DEF BatchStale
<1>2. CASE BatchFails(id)
  BY <1>2 DEF BatchFails, Stuck
<1>3. CASE BatchDone(id)
  BY <1>3 DEF BatchDone
<1> QED BY <1>1, <1>2, <1>3 DEF Run

(* What a pass disables without asking is safe by the evidence of that very pass,
   whatever batches, plans and approvals others left behind (async_run_cleanup). *)
THEOREM UnaskedIsSafe == Spec => AutoDisabledIsSafe
<1> DEFINE Safe == pass.pc = "run" /\ pass'.pc # "run" =>
                     \A e \in Entities : registry'[e] # registry[e] => SafeAlone(e)
<1>1. ASSUME CleanupInv, [Next]_vars PROVE [Safe]_vars
  <2> SUFFICES ASSUME pass.pc = "run", pass'.pc # "run",
                      NEW e \in Entities, registry'[e] # registry[e]
               PROVE  SafeAlone(e)
    OBVIOUS
  <2>1. PassRuns
    <3>1. pass' # pass
      OBVIOUS
    <3>2. ~World /\ ~Operator /\ ~UNCHANGED vars
      BY <3>1 DEF World, Sicken, Refer, Change, ToggleOutage, Rescan, Decide, Expire, Event,
                  Operator, OperatorApproves, OperatorChecks, OperatorRuns, RollBack, vars
    <3> QED BY <1>1, <3>2
            DEF Next, Begin, PassStep, Capture, References, LoadWork, SaveWork, Fingerprint,
                CreateBatch, PassApproves, PassChecks, Answer, Go
  <2>2. e \in pass.id.members
    BY <1>1, <2>1, OnlyMembersChange DEF PassRuns, CleanupInv
  <2>3. e \in DOMAIN pass.found /\ pass.found[e][1] = "safe_auto_fix" /\ pass.mode # "observe"
        /\ pass.label = "auto"
    BY <1>1, <2>2 DEF CleanupInv, PassInv, ChoiceInv, ChosenFor, Chosen, Acting
  <2>4. SafeByEvidence(e)
    BY <1>1, <2>3 DEF CleanupInv, PassInv, VerdictsInv, Judged, Chosen, Acting
  <2> QED BY <2>3, <2>4 DEF SafeByEvidence, SafeAlone
<1> QED BY <1>1, Inductive, PTL DEF Spec, AutoDisabledIsSafe

(* A rollback that reports success restores what its batch was planned for,
   whatever was executed in between (DisableEntityBatchAdapter.rollback). *)
THEOREM RollbacksRestore == Spec => RollbackRestores
<1> DEFINE Restored ==
      \A id \in DOMAIN plans :
        plans[id] # "rolled_back" /\ plans'[id] = "rolled_back" =>
          \A e \in id.members : writer[e] = id => registry'[e] = id.before[e]
<1>1. ASSUME CleanupInv, [Next]_vars PROVE [Restored]_vars
  <2> SUFFICES ASSUME NEW id \in DOMAIN plans, plans[id] # "rolled_back",
                      plans'[id] = "rolled_back", NEW e \in id.members
               PROVE  registry'[e] = id.before[e]
    BY DEF CleanupInv
  <2>1. ASSUME NEW other, Ends(other, "failed") \/ Ends(other, "succeeded") PROVE FALSE
    BY <2>1 DEF Ends
  <2>2. ~UNCHANGED plans
    OBVIOUS
  <2>3. \A other : ~Run(other)
    BY <2>1, <2>2 DEF Run, BatchStale, BatchFails, BatchDone
  <2>4. \A other : ~Approve(other) /\ ~Check(other)
    BY <2>2 DEF Approve, Check, document
  <2>5. ~World
    BY <2>2 DEF World, Sicken, Refer, Change, ToggleOutage, Rescan, Decide, Expire, Event, document
  <2>6. ~PassStep /\ ~Begin /\ ~UNCHANGED vars
    BY <2>2, <2>3, <2>4
       DEF PassStep, Begin, Capture, References, LoadWork, SaveWork, Fingerprint, CreateBatch,
           Put, PassApproves, PassChecks, PassRuns, Answer, Alone, document, vars
  <2>7. PICK other \in DOMAIN plans : RollBack(other)
    BY <1>1, <2>3, <2>4, <2>5, <2>6
       DEF Next, Operator, OperatorApproves, OperatorChecks, OperatorRuns
  <2>8. PICK failed \in SUBSET other.members :
          /\ registry' = [f \in Entities |->
                            IF f \in other.members \ failed THEN tokens[other][f]
                                                            ELSE registry[f]]
          /\ Ends(other, IF failed = {} THEN "rolled_back" ELSE "rollback_failed")
    BY <2>7 DEF RollBack
  <2>9. other = id /\ failed = {}
    BY <2>8 DEF Ends
  <2>10. id \in DOMAIN tokens
    BY <2>7, <2>9 DEF RollBack
  <2>11. e \in Entities /\ tokens[id] = id.before
    BY <1>1, <2>10 DEF CleanupInv, BatchesInv, IsBatch
  <2> QED BY <2>8, <2>9, <2>11
<1> QED BY <1>1, Inductive, PTL DEF Spec, RollbackRestores

(* An execution that may restore what it could not finish, and whose states fit into
   its summary, leaves no member behind without its token. *)
LEMMA RunIsUndoable ==
  ASSUME RestoreFails = FALSE, SummaryFits \in Nat, Cardinality(Entities) <= SummaryFits,
         CleanupInv, DisabledIsUndoable, NEW id, Run(id)
  PROVE  DisabledIsUndoable'
<1>1. CASE BatchStale(id)
  BY <1>1 DEF BatchStale, DisabledIsUndoable
<1>2. CASE BatchFails(id)
  <2>1. writer' = [e \in Entities |-> writer[e]]
    BY <1>2 DEF BatchFails, Stuck
  <2> QED BY <1>2, <2>1 DEF BatchFails, DisabledIsUndoable
<1>3. CASE BatchDone(id)
  <2>1. IsBatch(id)
    BY DEF Run, CleanupInv, BatchesInv
  <2>2. Cardinality(id.members) <= SummaryFits
    <3>1. /\ IsFiniteSet(id.members) /\ IsFiniteSet(Entities)
          /\ Cardinality(id.members) <= Cardinality(Entities)
      BY <2>1, EntitiesAssumption, FS_Subset DEF IsBatch
    <3>2. Cardinality(id.members) \in Nat /\ Cardinality(Entities) \in Nat
      BY <3>1, FS_CardinalityType
    <3> QED BY <3>1, <3>2
  <2>3. DOMAIN tokens' = DOMAIN tokens \union {id} /\ spoiled' = spoiled \ {id}
    BY <1>3, <2>2 DEF BatchDone, Put
  <2>4. ASSUME NEW e \in Entities, writer'[e] # Outside
        PROVE  writer'[e] \in DOMAIN tokens' \/ writer'[e] \in spoiled'
    <3>1. CASE e \in id.members
      BY <1>3, <2>3, <3>1 DEF BatchDone
    <3>2. CASE e \notin id.members
      BY <1>3, <2>3, <2>4, <3>2 DEF BatchDone, DisabledIsUndoable
    <3> QED BY <3>1, <3>2
  <2> QED BY <2>4 DEF DisabledIsUndoable
<1> QED BY <1>1, <1>2, <1>3 DEF Run

(* A rollback gives its members back, or is recorded as failed. *)
LEMMA RollBackIsUndoable ==
  ASSUME CleanupInv, DisabledIsUndoable, NEW id, RollBack(id)
  PROVE  DisabledIsUndoable'
<1>1. PICK failed \in SUBSET id.members :
        /\ writer' = [e \in Entities |->
                        IF e \in id.members \ failed THEN Outside ELSE writer[e]]
        /\ spoiled' = IF failed = {} THEN spoiled ELSE spoiled \union {id}
  BY DEF RollBack
<1>2. DOMAIN tokens' = DOMAIN tokens \ {id}
  BY DEF RollBack
<1> SUFFICES ASSUME NEW e \in Entities, writer'[e] # Outside
             PROVE  writer'[e] \in DOMAIN tokens' \/ writer'[e] \in spoiled'
  BY DEF DisabledIsUndoable
<1>3. writer'[e] = writer[e] /\ e \notin id.members \ failed
  BY <1>1
<1>4. writer[e] \in DOMAIN tokens \/ writer[e] \in spoiled
  BY <1>3 DEF DisabledIsUndoable
<1>5. writer[e] = id => failed # {}
  BY <1>3 DEF CleanupInv, BatchesInv
<1> QED BY <1>1, <1>2, <1>3, <1>4, <1>5

(* As long as a failed batch can be restored and the states of its members fit into
   the summary, no execution, failed, stale or blocked, leaves an entity disabled that
   nobody can put back (DisableEntityBatchAdapter.execute). *)
THEOREM DisabledCanBeUndone ==
  ASSUME RestoreFails = FALSE, SummaryFits \in Nat, Cardinality(Entities) <= SummaryFits
  PROVE  Spec => []DisabledIsUndoable
<1>1. Init => DisabledIsUndoable
  BY DEF Init, DisabledIsUndoable
<1>2. ASSUME CleanupInv, DisabledIsUndoable, [Next]_vars PROVE DisabledIsUndoable'
  <2>1. CASE UNCHANGED <<tokens, writer, spoiled>>
    BY <1>2, <2>1 DEF DisabledIsUndoable
  <2>2. CASE World
    <3>1. ASSUME NEW e \in Entities, NEW by, Change(e, by) PROVE DisabledIsUndoable'
      BY <1>2, <3>1 DEF Change, Event, document, DisabledIsUndoable, CleanupInv, Typed
    <3>2. CASE UNCHANGED <<tokens, writer, spoiled>>
      BY <3>2, <2>1
    <3> QED BY <2>2, <3>1, <3>2
            DEF World, Sicken, Refer, ToggleOutage, Rescan, Decide, Expire, Event, document
  <2>3. CASE Operator
    <3>1. PICK id \in DOMAIN plans :
            OperatorApproves(id) \/ OperatorChecks(id) \/ OperatorRuns(id) \/ RollBack(id)
      BY <2>3 DEF Operator
    <3> QED BY <1>2, <2>1, <3>1, RunIsUndoable, RollBackIsUndoable
            DEF OperatorApproves, OperatorChecks, OperatorRuns, Approve, Check, document
  <2>4. CASE PassRuns
    BY <1>2, <2>4, RunIsUndoable DEF PassRuns
  <2>5. CASE (PassStep /\ ~PassRuns) \/ Begin \/ UNCHANGED vars
    BY <2>1, <2>5
       DEF PassStep, Begin, Capture, References, LoadWork, SaveWork, Fingerprint, CreateBatch,
           PassApproves, PassChecks, Approve, Check, Answer, Alone, document, vars
  <2> QED BY <1>2, <2>2, <2>3, <2>4, <2>5 DEF Next
<1> QED BY <1>1, <1>2, Inductive, PTL DEF Spec

=============================================================================
