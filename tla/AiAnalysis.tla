------------------------------ MODULE AiAnalysis ------------------------------
(***************************************************************************)
(* The AI analysis of application/operations_service.py: what a request    *)
(* asks the provider, what it stores, what the service remembers of it,    *)
(* and what analysis_status answers; with the capability gate that guards  *)
(* a bulk request and the probe that feeds it.                             *)
(*                                                                         *)
(* A request plans groups of findings, calls the provider once per group,  *)
(* stores the recommendations and then, in a second commit, the baseline.  *)
(* Scans, probes, a reload with another configuration and a crash come     *)
(* between any two of these steps.  A reload makes a new service; a        *)
(* request of the old one goes on as the run "gone", with a closed         *)
(* connector manager.                                                      *)
(***************************************************************************)
EXTENDS Integers, FiniteSets, CapabilityProbe

CONSTANTS
  Findings,
  GroupOf,            \* [Findings -> root-cause groups]
  Incidents,          \* the findings of each P0/P1 incident
  Configs,            \* provider configurations, by fingerprint
  First,              \* the one in force at the start
  Manners,            \* how the model of each may meet the probes
  MaxGroups,          \* ai_maximum_advisory_groups_per_run
  MaxContent,         \* bound on the content revision of a finding
  MaxScans,           \* bound on the scans
  MaxFaults,          \* bound on failed, weak, oversized or lost steps of runs
  MaxReloads,         \* bound on reloads and crashes
  MaxProbes,          \* bound on capability probes
  MaxTargeted,        \* bound on requests for a group of the operator's choice
  None,               \* no run, no coverage, no baseline, no capability
  All                 \* the scope of a bulk request

ASSUME AnalysisAssumption ==
  /\ IsFiniteSet(Findings)
  /\ First \in Configs
  /\ \A c \in Configs : \A manner \in Manners[c] :
       manner \in [Runs -> Answer]
  /\ MaxGroups \in Nat \ {0}
  /\ MaxContent \in Nat \ {0}
  /\ MaxScans \in Nat \ {0}

VARIABLES
  doc,         \* the stored document, which the projection follows
  runs,        \* the request in flight of the live service and of a reloaded one
  memory,      \* what the live service remembers of its last request
  config,      \* the configuration in force
  probe,       \* the configuration a running probe was started for
  bounds,      \* how many faults, reloads and probes there were
  lore         \* what really happened: answers, advice saved, calls failed

analysisVars == <<doc, runs, memory, config, probe, bounds, lore>>

Groups == {GroupOf[f] : f \in Findings}

Services == {"live", "gone"}

Results == {"answered", "weak", "failed", "oversize"}

Evidence == Findings \X (1 .. MaxContent)

Recommendation ==
  [group : Groups, source : SUBSET Evidence, members : SUBSET Findings, stale : BOOLEAN]

Coverage == [eligible : Nat, selected : SUBSET Findings, batches : SUBSET Groups,
             scan : 0 .. MaxScans]

Baseline == [scan : 0 .. MaxScans, eligible : Nat, findings : SUBSET Findings,
             groups : SUBSET Groups, failed : SUBSET Groups,
             advice : SUBSET (Groups \X SUBSET Evidence)]

Capability == [config : Configs, verdict : Verdicts, fresh : BOOLEAN]

MembersOf(g) == {f \in doc.open : GroupOf[f] = g}

GroupsOf(findings) == {GroupOf[f] : f \in findings}

NothingRemembered == [coverage |-> None, failed |-> {}, succeeded |-> {}]

AnalysisInit ==
  /\ \E open \in SUBSET Findings :
       doc = [open |-> open, revision |-> [f \in Findings |-> 1], scan |-> 1,
              advice |-> {}, baseline |-> None, capability |-> None]
  /\ runs = [s \in Services |-> None]
  /\ memory = NothingRemembered
  /\ config = First
  /\ probe = None
  /\ bounds = [faults |-> 0, reloads |-> 0, probes |-> 0, targeted |-> 0]
  /\ lore = [answered |-> {}, advice |-> {}, failed |-> {}]

-----------------------------------------------------------------------------
(* Planning                                                                  *)

(* evaluate_gate *)
Permitted ==
  /\ doc.capability # None
  /\ doc.capability.config = config
  /\ doc.capability.fresh
  /\ doc.capability.verdict = "capable"

(* Groups that a bulk request leaves out: their advice is current. *)
Covered == {r.group : r \in {a \in doc.advice : ~a.stale}}

Candidates(scope) == IF scope = All THEN doc.open ELSE MembersOf(scope)

Eligible(scope) ==
  GroupsOf(Candidates(scope)) \ (IF scope = All THEN Covered ELSE {})

Fault == bounds.faults < MaxFaults /\ bounds' = [bounds EXCEPT !.faults = @ + 1]

NoFault == UNCHANGED bounds

(* A request counts against the bound on targeted ones, and against the one
   on faults when something goes wrong in it. *)
Counted(scope, fault) ==
  LET targeted == IF scope = All THEN 0 ELSE 1
      faults == IF fault THEN 1 ELSE 0
  IN /\ bounds.targeted + targeted <= MaxTargeted
     /\ bounds.faults + faults <= MaxFaults
     /\ bounds' = [bounds EXCEPT !.targeted = @ + targeted, !.faults = @ + faults]

Smaller(m, n) == IF m < n THEN m ELSE n

(* The first groups by priority, each with the findings that fit.  Filling
   fewer groups than allowed means the evidence of a group does not fit. *)
Plans(scope, chosen) ==
  /\ chosen \subseteq Candidates(scope)
  /\ GroupsOf(chosen) \subseteq Eligible(scope)
  /\ Cardinality(GroupsOf(chosen)) <= MaxGroups

Filled(scope, chosen) ==
  Cardinality(GroupsOf(chosen)) = Smaller(MaxGroups, Cardinality(Eligible(scope)))

NewRun(scope, chosen) ==
  [bulk |-> scope = All, eligible |-> Cardinality(Candidates(scope)),
   chosen |-> chosen, revision |-> [f \in chosen |-> doc.revision[f]],
   members |-> [g \in GroupsOf(chosen) |-> MembersOf(g)],
   outcome |-> [g \in GroupsOf(chosen) |-> "pending"], step |-> "calls",
   scan |-> 0, advice |-> {}]

(* async_request_ai: refused while a request of the same service runs.  The
   coverage is remembered as planned, also when there is nothing to ask or
   the audit of the start is lost to another commit. *)
Request(scope, chosen) ==
  /\ runs["live"] = None
  /\ Candidates(scope) # {}
  /\ scope = All => Permitted
  /\ Plans(scope, chosen)
  /\ memory' = [memory EXCEPT !.coverage =
                  [eligible |-> Cardinality(Candidates(scope)), selected |-> chosen,
                   batches |-> GroupsOf(chosen), scan |-> doc.scan]]
  /\ \/ /\ Counted(scope, ~Filled(scope, chosen))
        /\ runs' = [runs EXCEPT !["live"] = IF chosen = {} THEN None ELSE NewRun(scope, chosen)]
     \/ Counted(scope, TRUE) /\ chosen # {} /\ UNCHANGED runs
  /\ UNCHANGED <<doc, config, probe, lore>>

-----------------------------------------------------------------------------
(* Calls to the provider, one group at a time                                *)

GroupsWith(run, results) == {g \in DOMAIN run.outcome : run.outcome[g] \in results}

FailedGroups_Refused(run) == GroupsWith(run, {"failed"})

FailedGroups(run) == GroupsWith(run, {"failed", "oversize"})

(* Every planned group that is not known to have failed. *)
Succeeded(run) == DOMAIN run.outcome \ FailedGroups(run)

Remembered(s, run) ==
  IF s = "live"
  THEN [memory EXCEPT !.failed = FailedGroups(run), !.succeeded = Succeeded(run)]
  ELSE memory

(* An answer may be too weak to keep; a request that does not fit is not
   sent; a failure is remembered at once, and its audit may be lost. *)
Call(s, g, result) ==
  /\ runs[s] # None
  /\ runs[s].step = "calls"
  /\ g \in GroupsWith(runs[s], {"pending"})
  /\ LET run == [runs[s] EXCEPT !.outcome[g] = result] IN
       /\ \/ runs' = [runs EXCEPT ![s] = run]
          \/ result \in {"failed", "oversize"} /\ runs' = [runs EXCEPT ![s] = None]
       /\ memory' = IF result = "failed" THEN Remembered(s, run) ELSE memory
  /\ IF result = "answered" THEN NoFault ELSE Fault
  /\ UNCHANGED <<doc, config, probe, lore>>

Called(s) ==
  /\ runs[s] # None
  /\ runs[s].step = "calls"
  /\ GroupsWith(runs[s], {"pending"}) = {}

GiveUp_StillInFlight(s) ==
  /\ Called(s)
  /\ GroupsWith(runs[s], {"answered"}) = {}
  /\ runs' = [runs EXCEPT ![s].step = "raised"]
  /\ UNCHANGED <<doc, memory, config, probe, bounds, lore>>

(* No answer to keep: the request raises. *)
GiveUp(s) ==
  /\ Called(s)
  /\ GroupsWith(runs[s], {"answered"}) = {}
  /\ runs' = [runs EXCEPT ![s] = None]
  /\ UNCHANGED <<doc, memory, config, probe, bounds, lore>>

-----------------------------------------------------------------------------
(* Storing                                                                   *)

(* mark_recommendations_stale, a part of every commit of the service and of
   a scan. *)
Aged(d) ==
  [d EXCEPT !.advice =
     {[a EXCEPT !.stale = \/ @
                          \/ \E e \in a.source : d.revision[e[1]] # e[2]
                          \/ a.members # {f \in d.open : GroupOf[f] = a.group}]
        : a \in d.advice}]

Asked(run, g) == {f \in run.chosen : GroupOf[f] = g}

(* The findings an answer cites, or all that were sent when it cites none. *)
Advice(run, cited) ==
  {[group |-> g, source |-> {<<f, run.revision[f]>> : f \in cited[g]},
    members |-> run.members[g], stale |-> FALSE] : g \in DOMAIN cited}

Citations(run) ==
  {c \in [GroupsWith(run, {"answered"}) -> SUBSET run.chosen] :
     \A g \in DOMAIN c : c[g] # {} /\ c[g] \subseteq Asked(run, g)}

Names(advice) == {<<a.group, a.source>> : a \in advice}

Unchanged_Trusted(run) == TRUE

(* No finding that was sent has changed since. *)
Unchanged(run) == \A f \in run.chosen : doc.revision[f] = run.revision[f]

Save(s) ==
  /\ Called(s)
  /\ GroupsWith(runs[s], {"answered"}) # {}
  /\ IF Unchanged(runs[s])
     THEN \E cited \in Citations(runs[s]) :
            LET run == runs[s]
                new == Advice(run, cited)
                answered == GroupsWith(run, {"answered"})
            IN /\ doc' = Aged([doc EXCEPT !.advice = @ \cup new])
               /\ runs' = [runs EXCEPT ![s] =
                             [run EXCEPT !.step = "baseline", !.scan = doc.scan,
                                         !.advice = Names(new)]]
               /\ memory' = Remembered(s, run)
               /\ lore' = [lore EXCEPT
                    !.answered = @ \cup {<<f, run.revision[f]>> :
                                           f \in {x \in run.chosen : GroupOf[x] \in answered}},
                    !.advice = @ \cup Names(new)]
     ELSE runs' = [runs EXCEPT ![s] = None] /\ UNCHANGED <<doc, memory, lore>>
  /\ UNCHANGED <<config, probe, bounds>>

SaveLost(s) ==
  /\ Called(s)
  /\ GroupsWith(runs[s], {"answered"}) # {}
  /\ Fault
  /\ runs' = [runs EXCEPT ![s] = None]
  /\ UNCHANGED <<doc, memory, config, probe, lore>>

AtBaseline(s) == runs[s] # None /\ runs[s].step = "baseline"

(* _async_persist_analysis_baseline, against the scan the service knows of:
   a reloaded service no longer hears of new ones. *)
SaveBaseline(s) ==
  /\ AtBaseline(s)
  /\ LET run == runs[s] IN
     doc' = Aged([doc EXCEPT !.baseline =
              [scan |-> IF s = "live" THEN doc.scan ELSE run.scan,
               eligible |-> run.eligible,
               findings |-> {f \in run.chosen : GroupOf[f] \notin FailedGroups(run)},
               groups |-> Succeeded(run),
               failed |-> FailedGroups(run),
               advice |-> run.advice]])
  /\ lore' = [lore EXCEPT !.failed = GroupsWith(runs[s], {"failed", "oversize"})]
  /\ runs' = [runs EXCEPT ![s] = None]
  /\ UNCHANGED <<memory, config, probe, bounds>>

(* The second commit is lost: the advice is kept without its baseline. *)
BaselineLost(s) ==
  /\ AtBaseline(s)
  /\ Fault
  /\ runs' = [runs EXCEPT ![s] = None]
  /\ UNCHANGED <<doc, memory, config, probe, lore>>

-----------------------------------------------------------------------------
(* Around a request                                                          *)

(* A scan finds changed evidence, new findings, and old ones resolved. *)
NewScan(changed, open) ==
  /\ doc.scan < MaxScans
  /\ changed \subseteq open
  /\ \A f \in changed : doc.revision[f] < MaxContent
  /\ doc' = Aged([doc EXCEPT
       !.scan = @ + 1,
       !.open = open,
       !.revision = [f \in Findings |-> IF f \in changed THEN @[f] + 1 ELSE @[f]]])
  /\ UNCHANGED <<runs, memory, config, probe, bounds, lore>>

(* async_probe_capability takes the fingerprint before the first probe. *)
BeginProbe ==
  /\ probe = None
  /\ bounds.probes < MaxProbes
  /\ probe' = config
  /\ bounds' = [bounds EXCEPT !.probes = @ + 1]
  /\ UNCHANGED <<doc, runs, memory, config, lore>>

(* The verdicts on the models, each computed once. *)
VerdictOf ==
  [manner \in UNION {Manners[c] : c \in Configs} |-> ComputeVerdict(manner)]

Able(c) == \E manner \in Manners[c] : VerdictOf[manner] = "capable"

(* That an able model fails its probes is a fault. *)
EndProbe(manner) ==
  /\ probe # None
  /\ manner \in Manners[probe]
  /\ LET verdict == VerdictOf[manner] IN
     /\ IF Able(probe) /\ verdict # "capable" THEN Fault ELSE NoFault
     /\ doc' = Aged([doc EXCEPT !.capability =
                       [config |-> probe, verdict |-> verdict, fresh |-> TRUE]])
  /\ probe' = None
  /\ UNCHANGED <<runs, memory, config, lore>>

(* A day passes. *)
Expire ==
  /\ doc.capability # None
  /\ doc.capability.fresh
  /\ doc' = [doc EXCEPT !.capability.fresh = FALSE]
  /\ UNCHANGED <<runs, memory, config, probe, bounds, lore>>

Restarts == bounds.reloads < MaxReloads /\ bounds' = [bounds EXCEPT !.reloads = @ + 1]

(* The entry is reloaded with other options.  The closed connector manager
   refuses the calls that were not sent yet; the one in flight may still
   answer. *)
Reload(to, refused) ==
  /\ Restarts
  /\ config' = to
  /\ memory' = NothingRemembered
  /\ runs["gone"] = None
  /\ LET run == runs["live"] IN
     IF run = None
     THEN refused = {} /\ UNCHANGED runs
     ELSE LET pending == GroupsWith(run, {"pending"}) IN
          /\ refused \subseteq pending
          /\ Cardinality(pending \ refused) <= 1
          /\ runs' = [runs EXCEPT !["live"] = None,
               !["gone"] = [run EXCEPT !.outcome =
                  [g \in DOMAIN @ |-> IF g \in refused THEN "failed" ELSE @[g]]]]
  /\ UNCHANGED <<doc, probe, lore>>

Crash ==
  /\ Restarts
  /\ memory' = NothingRemembered
  /\ runs' = [s \in Services |-> None]
  /\ probe' = None
  /\ UNCHANGED <<doc, config, lore>>

RunStep(s) ==
  \/ \E g \in Groups, result \in Results : Call(s, g, result)
  \/ GiveUp(s)
  \/ Save(s)
  \/ SaveLost(s)
  \/ SaveBaseline(s)
  \/ BaselineLost(s)

AnalysisNext ==
  \/ \E scope \in Groups \cup {All}, chosen \in SUBSET Findings : Request(scope, chosen)
  \/ \E s \in Services : RunStep(s)
  \/ \E changed, open \in SUBSET Findings : NewScan(changed, open)
  \/ BeginProbe
  \/ \E c \in Configs : \E manner \in Manners[c] : EndProbe(manner)
  \/ Expire
  \/ \E to \in Configs, refused \in SUBSET Groups : Reload(to, refused)
  \/ Crash

AnalysisSpec == AnalysisInit /\ [][AnalysisNext]_analysisVars

(* The event loop runs a request to its end, and an operator keeps asking
   for a bulk analysis. *)
FairAnalysisSpec ==
  /\ AnalysisSpec
  /\ \A s \in Services : WF_analysisVars(RunStep(s))
  /\ SF_analysisVars(\E chosen \in SUBSET Findings : Request(All, chosen))

-----------------------------------------------------------------------------
(* What analysis_status answers                                              *)

(* The part of the inputs that comes from the last request, from the
   baseline after a restart, or from nothing. *)
Achieved ==
  LET c == memory.coverage
      b == doc.baseline
  IN IF c # None
     THEN [findings |-> {f \in c.selected : GroupOf[f] \notin memory.failed},
           eligible |-> c.eligible, scan |-> c.scan,
           groups |-> IF memory.succeeded \cup memory.failed # {}
                      THEN memory.succeeded ELSE c.batches,
           failed |-> memory.failed]
     ELSE IF b # None
     THEN [findings |-> b.findings, eligible |-> b.eligible, scan |-> b.scan,
           groups |-> b.groups, failed |-> b.failed]
     ELSE [findings |-> {}, eligible |-> Cardinality(doc.open), scan |-> doc.scan,
           groups |-> {}, failed |-> {}]

EverAnalyzed == memory.coverage # None \/ doc.baseline # None \/ doc.advice # {}

Unexamined(analyzed) ==
  {i \in Incidents : i \cap doc.open # {} /\ i \cap analyzed = {}}

(* evaluate.  The provider is an AI task, whose calls leave the status of the
   connectors alone, and analysis_status never says that a request runs. *)
Status ==
  LET a == Achieved
      partial == \/ Cardinality(a.findings) < a.eligible
                 \/ a.failed # {}
                 \/ Cardinality(a.groups) < Cardinality(GroupsOf(doc.open))
  IN CASE ~EverAnalyzed -> "not_analyzed"
       [] EverAnalyzed /\ a.failed # {} /\ a.groups = {} -> "failed"
       [] OTHER ->
          IF a.scan # doc.scan THEN "stale"
          ELSE IF Unexamined(a.findings) # {} \/ partial THEN "partially_analyzed"
          ELSE IF doc.advice # {} /\ \A r \in doc.advice : r.stale THEN "stale"
          ELSE "complete"

-----------------------------------------------------------------------------
(* Properties                                                                *)

(* Every variable has its type, no group both failed and succeeded, and a
   request that stores its baseline has had an answer. *)
AnalysisTypeOK ==
  /\ doc.open \subseteq Findings
  /\ doc.revision \in [Findings -> 1 .. MaxContent]
  /\ doc.scan \in 1 .. MaxScans
  /\ doc.advice \subseteq Recommendation
  /\ doc.baseline \in Baseline \cup {None}
  /\ doc.capability \in Capability \cup {None}
  /\ memory.coverage \in Coverage \cup {None}
  /\ memory.failed \cup memory.succeeded \subseteq Groups
  /\ memory.failed \cap memory.succeeded = {}
  /\ config \in Configs
  /\ probe \in Configs \cup {None}
  /\ \A s \in Services : AtBaseline(s) => GroupsWith(runs[s], {"answered"}) # {}

(* Advice is stored only on evidence that is still what the provider was
   sent, however many scans came while it was thinking
   (RevisionConflictError, operations_service.py:2080). *)
SavedOnSameEvidence ==
  [][\A a \in doc'.advice : Names({a}) \subseteq Names(doc.advice) \/
       \A e \in a.source : doc.revision[e[1]] = e[2]]_doc

(* A group whose call failed, or whose evidence was too large to send, is not
   counted as analyzed by the stored baseline. *)
FailureIsNotCoverage ==
  doc.baseline # None =>
    /\ doc.baseline.groups \cap lore.failed = {}
    /\ \A f \in doc.baseline.findings : GroupOf[f] \notin lore.failed

(* Repeated bulk requests cover every open finding's group with current
   advice once failures, scans and restarts stop and the gate stays open
   (plan_ai_advisory_groups, intelligence.py:1556). *)
RunsConverge ==
  <>[]Permitted =>
    <>[](\A g \in GroupsOf(doc.open) : \E a \in doc.advice : a.group = g /\ ~a.stale)

(* "analysis covered every eligible finding in the current scan"
   (analysis_state.py:223): when the answer is that all is clear, every open
   finding has been analyzed as it is now. *)
AllClearIsEarned ==
  Status = "complete" =>
    \A f \in doc.open : <<f, doc.revision[f]>> \in lore.answered

=============================================================================
