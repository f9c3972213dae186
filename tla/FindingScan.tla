------------------------------ MODULE FindingScan ------------------------------
(***************************************************************************)
(* Scans, operators and Home Assistant around the findings of the          *)
(* document: a scan captures the entities, analyses what it captured and   *)
(* commits later, while conditions change and operators review.            *)
(*                                                                         *)
(* Reading the document, computing the next one and committing it is one   *)
(* step of a scan or of a command: it conflicts or is atomic (module       *)
(* RepositoryCommit).  A repeated review command is recognised by its      *)
(* token and changes nothing; that step is left out.                       *)
(***************************************************************************)
EXTENDS FindingLedger

CONSTANTS
  Restless,           \* the subjects whose conditions come and go
  Reviews,            \* what operators decide about findings
  Policies,           \* the sets of suppression policies to look at
  Decisions,          \* what operators decide about incidents
  MaxChanges          \* bound on changes of conditions in Home Assistant

PolicyKinds == {"hide", "snooze", "acknowledge", "lower"}

(* There is a command for each of these reviews, and none that reopens. *)
ASSUME OperatorsAssumption ==
  /\ Reviews \subseteq ReviewStates \ {"new"}
  /\ Decisions \subseteq UserStates
  /\ Policies \subseteq SUBSET PolicyKinds
  /\ MaxChanges \in Nat

VARIABLES
  world,        \* Home Assistant: the condition of each key
  findings,     \* document: the finding of each key
  told,         \* document: what the newest review record of each finding tells
  incidents,    \* document: the incident of each root
  rules, ends,  \* document: suppression policies, and when snoozing ends
  clock,
  scanning,     \* a scan captured and did not commit yet
  capture,      \* what it captured
  decided,      \* history: what an operator decided for the present condition
  changes

document == <<findings, told, incidents, rules, ends>>
ledgerVars == <<world, document, clock, scanning, capture, decided, changes>>

Incident == [state : IncidentStates, material : SUBSET (Keys \X (1 .. MaxDigest) \X BOOLEAN)]

LedgerTypeOK ==
  /\ world \in Conditions
  /\ findings \in [Keys -> StoredFinding \union {NoFinding}]
  /\ told \in [Keys -> ReviewStates]
  /\ incidents \in [Analyzers -> Incident]
  /\ rules \in SUBSET PolicyKinds
  /\ ends \in 1 .. MaxTime
  /\ clock \in 0 .. MaxTime
  /\ scanning \in BOOLEAN
  /\ capture \in Conditions
  /\ decided \in [Keys -> ReviewStates]
  /\ changes \in 0 .. MaxChanges
  /\ \A k \in Keys :
       findings[k] # NoFinding => (findings[k].review = "snoozed") = (findings[k].until # 0)

LedgerInit ==
  /\ world \in {w \in Conditions : \A k \in Keys : k[2] \notin Restless => w[k] = 1}
  /\ findings = [k \in Keys |-> NoFinding]
  /\ told = [k \in Keys |-> "new"]
  /\ incidents = [a \in Analyzers |-> [state |-> "none", material |-> {}]]
  /\ rules \in Policies
  /\ ends \in 1 .. MaxTime
  /\ clock = 0
  /\ scanning = FALSE
  /\ capture = world
  /\ decided = [k \in Keys |-> "new"]
  /\ changes = 0

-----------------------------------------------------------------------------

BeginScan ==
  /\ ~scanning
  /\ scanning' = TRUE
  /\ capture' = world
  /\ UNCHANGED <<world, document, clock, decided, changes>>

(* _execute from its analysis on. *)
Commit ==
  /\ scanning
  /\ scanning' = FALSE
  /\ \E usable \in BOOLEAN : \E covered \in [Analyzers -> SUBSET Subjects] :
       LET result == Evaluation(capture, usable, covered)
           scan == ScanOf(findings, told, result, rules, ends, clock)
       IN /\ \A k \in Keys : scan.findings[k] # NoFinding =>
                            scan.findings[k].revision <= MaxRevision
          /\ findings' = scan.findings
          /\ told' = scan.told
          /\ incidents' = [a \in Analyzers |->
                             IncidentAfter(incidents[a], Material(scan.findings, a))]
  /\ UNCHANGED <<world, rules, ends, clock, capture, decided, changes>>

(* A scan that fails, times out, conflicts or is cancelled commits nothing. *)
Abandon ==
  /\ scanning
  /\ scanning' = FALSE
  /\ UNCHANGED <<world, document, clock, capture, decided, changes>>

(* _review: one commit of one review, of the content the operator saw. *)
Review(k, to, revision) ==
  /\ Reviewable(findings[k], revision, to)
  /\ \E until \in IF to = "snoozed" THEN (clock + 1) .. MaxTime ELSE {0} :
       findings' = [findings EXCEPT ![k] = Reviewed(@, to, until)]
  /\ told' = [told EXCEPT ![k] = to]
  /\ decided' = [decided EXCEPT ![k] =
                   IF /\ to # "snoozed" /\ rules = {}
                      /\ findings[k].digest = world[k]
                      /\ scanning => capture[k] = world[k]
                   THEN to ELSE "new"]
  /\ UNCHANGED <<world, incidents, rules, ends, clock, scanning, capture, changes>>

(* set_incident_lifecycle *)
DecideIncident(a, to) ==
  /\ incidents[a].state # "none"
  /\ incidents' = [incidents EXCEPT ![a].state = to]
  /\ UNCHANGED <<world, findings, told, rules, ends, clock, scanning, capture,
                 decided, changes>>

(* A condition appears, changes or goes away. *)
Change(k) ==
  /\ k[2] \in Restless
  /\ changes < MaxChanges
  /\ changes' = changes + 1
  /\ \E condition \in (0 .. MaxDigest) \ {world[k]} : world' = [world EXCEPT ![k] = condition]
  /\ decided' = [decided EXCEPT ![k] = "new"]
  /\ UNCHANGED <<document, clock, scanning, capture>>

Tick ==
  /\ clock < MaxTime
  /\ clock' = clock + 1
  /\ UNCHANGED <<world, document, scanning, capture, decided, changes>>

LedgerNext ==
  \/ BeginScan \/ Commit \/ Abandon \/ Tick
  \/ \E a \in Analyzers : \E to \in Decisions : DecideIncident(a, to)
  \/ \E k \in Keys :
       \/ Change(k)
       \/ \E to \in Reviews, revision \in 1 .. MaxRevision : Review(k, to, revision)

LedgerSpec == LedgerInit /\ [][LedgerNext]_ledgerVars

-----------------------------------------------------------------------------

(* The review of a finding is always the one its newest record tells: no scan,
   policy, expiry or command changes it unrecorded, unless it disappeared
   meanwhile (record_policy_reopens and reopen_expired_snoozes,
   reconciliation.py 26-107, and apply_suppression_reviews). *)
LastReviewStands ==
  \A k \in Keys : findings[k] # NoFinding => findings[k].review = told[k]

(* What an operator decided about a condition stands as long as the condition does:
   scans that cover only part of the installation, fail or come late neither reset
   nor resolve it (reconcile_findings, "without resolving uncovered subjects"). *)
DecisionStands ==
  \A k \in Keys : decided[k] # "new" =>
    findings[k].open /\ findings[k].review = decided[k]

(* A snoozed finding asks for attention again only when a scan has just captured its
   condition, never because time passed or the scan did not look (reopen_expired_snoozes:
   "only after a scan reconfirms the condition"). *)
SnoozeEndsSeen ==
  [][\A k \in Keys :
       findings[k] # NoFinding /\ findings[k].review = "snoozed" /\ findings'[k].review = "new"
         => scanning /\ capture[k] # 0]_ledgerVars

(* An incident is resolved by a scan only when none of its findings is open any
   more without an operator having set it aside (build_incidents and
   reconcile_incidents, incidents.py 498-620). *)
ResolvedIsGone ==
  [][\A a \in Analyzers :
       incidents'[a].state = "resolved" /\ incidents[a].state # "resolved" =>
         \A k \in Keys : k[1] = a /\ findings'[k] # NoFinding /\ findings'[k].open =>
           told'[k] \in {"dismissed", "retained", "snoozed"}]_ledgerVars

=============================================================================
