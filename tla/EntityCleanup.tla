---------------------------- MODULE EntityCleanup ----------------------------
(* The cleanup pass and the batches it proposes: a pass loads the document,
   captures the registry, collects the references, classifies every open
   finding, merges what it will not act upon into the durable work list, and
   proposes one batch of entities to disable automatically and one that needs
   approval.  A pass in a mode that permits it approves and executes the first
   batch itself; the operator may approve, execute and roll back any batch.
   Meanwhile entities fail and recover, become referenced, are disabled, enabled
   or removed by others, scans replace the findings, and the user decides to
   keep work items.

   Between two awaits the code runs alone: the batch adapter's comparison with
   the planned state and its changes of the registry are one step, since the
   registry is changed without suspension.                                   *)
EXTENDS CleanupRules, Sequences

CONSTANTS
  Entities,      \* the entities with findings
  CategoryOf,    \* [Entities -> {"diagnostic", "config", "primary"}]
  Excluded,      \* entities the policy excludes
  Background,    \* further primary entities of the same device
  Modes,         \* bound: the passes, with the modes each is started in
  MaxChanges,    \* bound: events of the installation
  MaxDecisions,  \* bound: decisions of the user
  MaxAttempts,   \* MAX_WORK_ITEM_COMMIT_ATTEMPTS
  SummaryFits,   \* members whose states fit into MAX_SUMMARY_CHARS
  RestoreFails   \* whether the restoration of a failed batch may itself fail

ASSUME EntitiesAssumption == IsFiniteSet(Entities) /\ IsFiniteSet(Background)

Policy == [coverage |-> "complete", confidence |-> "medium"]

VARIABLES
  registry,    \* [Entities -> {"none", "user", "integration", "gone"}]: disabled_by
  health,      \* [Entities -> {"up", "short", "long"}]: down for how long
  outage,      \* the background entities of the device are down
  refs,        \* entities something refers to
  open,        \* [Entities -> {"none", "short", "long"}]: evidence of the open findings
  work,        \* the durable work list
  plans,       \* batch plans of the document: identity -> state
  aged,        \* identities of plans past their expiry
  tokens,      \* rollback tokens of the executions not rolled back yet
  current,     \* the generation is still the one the pass loaded
  pass,        \* the cleanup pass
  executing,   \* plans whose execution has passed its checks
  writer,      \* history: who changed each entity last
  spoiled,     \* history: plans whose rollback was reported as failed
  passes, changes, decisions  \* counted against their bounds

installation == <<registry, health, outage, refs, changes>>
document == <<open, work, plans, tokens, current>>
batches == <<plans, tokens, registry, writer, spoiled, executing>>
history == <<passes, decisions>>
vars == <<installation, document, aged, pass, executing, writer, spoiled, history>>

None == "none"
Outside == [label |-> "outside", members |-> {}, before |-> << >>]
Blank == [e \in Entities |-> None]
NoEvidence == [open |-> Blank, registry |-> Blank, health |-> Blank, outage |-> FALSE,
               refs |-> {}, coverage |-> "failed"]
Idle == [pc |-> "idle", mode |-> "observe", evidence |-> NoEvidence, found |-> << >>,
         base |-> << >>, tries |-> 0, label |-> "auto", id |-> None]

Init ==
  /\ registry = [e \in Entities |-> "none"]
  /\ health = [e \in Entities |-> "long"]
  /\ outage = FALSE /\ refs = {} /\ open = health
  /\ work = << >> /\ plans = << >> /\ tokens = << >> /\ aged = {} /\ current = FALSE
  /\ executing = {}
  /\ pass = Idle
  /\ writer = [e \in Entities |-> Outside]
  /\ spoiled = {}
  /\ passes = 0 /\ changes = 0 /\ decisions = 0

Put(map, key, value) ==
  [k \in DOMAIN map \cup {key} |-> IF k = key THEN value ELSE map[k]]

-----------------------------------------------------------------------------
(* The installation and its users.                                           *)

Event ==
  /\ changes < MaxChanges
  /\ changes' = changes + 1
  /\ UNCHANGED <<document, aged, pass, executing, spoiled, history>>

Sicken(e, h) ==
  /\ registry[e] = "none" /\ health[e] # h
  /\ health' = [health EXCEPT ![e] = h]
  /\ Event /\ UNCHANGED <<registry, outage, refs, writer>>

(* The whole device goes down, or comes back. *)
ToggleOutage ==
  /\ outage' = ~outage
  /\ Event /\ UNCHANGED <<registry, health, refs, writer>>

Refer(e) ==
  /\ refs' = refs \cup {e} /\ e \notin refs
  /\ Event /\ UNCHANGED <<registry, health, outage, writer>>

(* The user or the integration changes, or removes, a registry entry. *)
Change(e, by) ==
  /\ registry[e] \notin {by, "gone"}
  /\ registry' = [registry EXCEPT ![e] = by]
  /\ writer' = [writer EXCEPT ![e] = Outside]
  /\ Event /\ UNCHANGED <<health, outage, refs>>

(* A scan replaces the evidence of the findings; a disabled or missing entity
   has none.                                                                 *)
Rescan ==
  LET found == [e \in Entities |->
                  IF registry[e] = "none" /\ health[e] # "up" THEN health[e] ELSE "none"] IN
  /\ open # found
  /\ open' = found /\ current' = FALSE
  /\ UNCHANGED <<installation, work, plans, tokens, aged, pass, executing, writer,
                 spoiled, history>>

(* The user decides about one work item; the decision's own commit is retried
   until it meets no other.                                                  *)
Decide(k, decision) ==
  /\ decisions < MaxDecisions
  /\ work' = [work EXCEPT ![k].life = DecisionLifecycle[decision]]
  /\ current' = FALSE
  /\ decisions' = decisions + 1
  /\ UNCHANGED <<installation, open, plans, tokens, aged, pass, executing, writer,
                 spoiled, passes>>

-----------------------------------------------------------------------------
(* A cleanup pass: evidence.                                                 *)

Go(pc) == pass.pc = pc

Begin ==
  /\ Go("idle") /\ passes < Len(Modes)
  /\ \E mode \in Modes[passes + 1] :
       pass' = [Idle EXCEPT !.pc = "capture", !.mode = mode, !.evidence.open = open]
  /\ passes' = passes + 1
  /\ UNCHANGED <<installation, document, aged, executing, writer, spoiled,
                 decisions>>

Alone == UNCHANGED <<installation, document, aged, executing, writer, spoiled, history>>

Capture ==
  /\ Go("capture")
  /\ pass' = [pass EXCEPT !.pc = "references",
                          !.evidence = [@ EXCEPT !.registry = registry, !.health = health,
                                                 !.outage = outage]]
  /\ Alone

(* _build_candidates: the duration is the finding's, the availability and the
   references are those captured now.                                        *)
Candidate(e, coverage) ==
  LET live == {f \in Entities : pass.evidence.registry[f] = "none"}
      members == {[id |-> f, category |-> CategoryOf[f], down |-> pass.evidence.health[f] # "up"] :
                    f \in live}
                 \cup {[id |-> b, category |-> "primary", down |-> pass.evidence.outage] :
                         b \in Background}
      there == pass.evidence.registry[e] # "gone"
  IN [category |-> IF there THEN CategoryOf[e] ELSE "primary",
      excluded |-> e \in Excluded,
      disabled |-> pass.evidence.registry[e] \in {"user", "integration"},
      down |-> IF there /\ pass.evidence.health[e] # "up" THEN pass.evidence.open[e] ELSE "none",
      expected |-> FALSE, confidence |-> "none",
      referenced |-> there /\ e \in refs,
      coverage |-> coverage,
      siblings |-> Siblings(members)]

Considered == {e \in Entities : pass.evidence.open[e] # "none"}

Classified_Trusting(coverage) ==
  [e \in Considered |-> IF CategoryOf[e] = "primary"
                        THEN <<"safe_with_approval", "safe_primary_entity">>
                        ELSE <<"safe_auto_fix", "safe_optional_entity">>]

Classified(coverage) == [e \in Considered |-> Classify(Candidate(e, coverage), Policy)]

References ==
  /\ Go("references")
  /\ \E coverage \in {"complete", "missing"} :
       pass' = [pass EXCEPT !.pc = "load", !.found = Classified(coverage),
                            !.evidence = [@ EXCEPT !.refs = refs, !.coverage = coverage]]
  /\ Alone

ChosenFor(label) ==
  {e \in DOMAIN pass.found :
     pass.found[e][1] = IF label = "auto" THEN "safe_auto_fix" ELSE "safe_with_approval"}

-----------------------------------------------------------------------------
(* A cleanup pass: the work list.                                            *)

LoadWork ==
  /\ Go("load")
  /\ pass' = [pass EXCEPT !.pc = "save", !.base = work]
  /\ current' = TRUE
  /\ UNCHANGED <<installation, open, work, plans, tokens, aged, executing, writer, spoiled,
                 history>>

AfterConflict == IF pass.tries + 1 = MaxAttempts THEN "failed" ELSE "load"

SaveWork ==
  /\ Go("save")
  /\ IF current
     THEN /\ work' = Merged(pass.base, Grouped(pass.found))
          /\ current' = FALSE
          /\ pass' = [pass EXCEPT !.pc = "fingerprint", !.base = << >>, !.tries = 0]
     ELSE /\ pass' = [pass EXCEPT !.pc = AfterConflict, !.tries = @ + 1, !.base = << >>]
          /\ UNCHANGED <<work, current>>
  /\ UNCHANGED <<installation, open, plans, tokens, aged, executing, writer, spoiled,
                 history>>

-----------------------------------------------------------------------------
(* A cleanup pass: the two batches.                                          *)

(* _fingerprint: an entity that does not exist counts as enabled. *)
Digest(members) == [e \in members |-> IF registry[e] = "gone" THEN "none" ELSE registry[e]]

(* The pass proceeds to the second batch, or ends. *)
NextLabel ==
  IF pass.label = "auto" THEN [pass EXCEPT !.pc = "fingerprint", !.label = "ask",
                                              !.id = None, !.evidence = NoEvidence]
  ELSE [pass EXCEPT !.pc = "done", !.id = None]

Fingerprint ==
  /\ Go("fingerprint")
  /\ LET members == ChosenFor(pass.label) IN
     pass' = IF members = {} THEN NextLabel
             ELSE [pass EXCEPT !.pc = "create",
                     !.id = [label |-> pass.label, members |-> members,
                             before |-> Digest(members)]]
  /\ Alone

(* The plan's identity comes from its members and their planned state, not from
   its time: the same batch finds the plan of an earlier pass.               *)
CreateBatch ==
  /\ Go("create")
  /\ plans' = IF pass.id \in DOMAIN plans THEN plans
              ELSE Put(plans, pass.id, "ready_for_review")
  /\ current' = FALSE
  /\ pass' = IF pass.label = "auto"
                /\ AutoExecutable("low", EffectiveMode(pass.mode, "none"), TRUE, FALSE)
             THEN [pass EXCEPT !.pc = "approve"] ELSE NextLabel
  /\ UNCHANGED <<installation, open, work, tokens, aged, executing, writer, spoiled,
                 history>>

-----------------------------------------------------------------------------
(* Approval and execution of a batch.                                        *)

Approvable(id) == id \in DOMAIN plans /\ id \notin aged

Approve(id) ==
  /\ plans' = [plans EXCEPT ![id] = "approved"]
  /\ current' = FALSE
  /\ UNCHANGED <<installation, open, work, tokens, aged, executing, writer, spoiled,
                 history>>

Executable(id) ==
  /\ Approvable(id)
  /\ plans[id] = "approved"
  /\ \A other \in executing : other.members # id.members

Check(id) ==
  /\ executing' = executing \cup {id}
  /\ UNCHANGED <<installation, document, aged, writer, spoiled, history>>

(* The adapter changes the members, in the order of the findings, until one
   fails; those tried before it are restored, as far as that succeeds.       *)
Gone == {e \in Entities : registry[e] = "gone"}

Stuck_NotRestored(tried) == {tried}

Stuck(tried) == IF RestoreFails THEN SUBSET tried ELSE {{}}

Token_After(id) == [e \in id.members |-> "user"]

Token(id) == Digest(id.members)

Ends(id, state) ==
  /\ plans' = [plans EXCEPT ![id] = state]
  /\ current' = FALSE

BatchStale(id) ==
  /\ Digest(id.members) # id.before
  /\ Ends(id, "failed")
  /\ UNCHANGED <<registry, writer, tokens, spoiled>>

BatchFails(id) ==
  /\ Digest(id.members) = id.before
  /\ \E tried \in SUBSET (id.members \ Gone) :
       /\ tried # id.members
       /\ \E stuck \in Stuck(tried) :
            /\ registry' = [e \in Entities |-> IF e \in stuck THEN "user" ELSE registry[e]]
            /\ writer' = [e \in Entities |-> IF e \in stuck THEN id ELSE writer[e]]
  /\ Ends(id, "failed")
  /\ UNCHANGED <<tokens, spoiled>>

(* With a summary that is too long the adapter raises after the changes: the
   execution is recorded as blocked and the plan keeps its state.            *)
BatchDone(id) ==
  /\ Digest(id.members) = id.before
  /\ id.members \cap Gone = {}
  /\ registry' = [e \in Entities |-> IF e \in id.members THEN "user" ELSE registry[e]]
  /\ writer' = [e \in Entities |-> IF e \in id.members THEN id ELSE writer[e]]
  /\ IF Cardinality(id.members) <= SummaryFits
     THEN /\ Ends(id, "succeeded")
          /\ tokens' = Put(tokens, id, Token(id))
     ELSE UNCHANGED <<plans, current, tokens>>
  /\ spoiled' = spoiled \ {id}

Run(id) ==
  /\ id \in executing
  /\ BatchStale(id) \/ BatchFails(id) \/ BatchDone(id)
  /\ executing' = executing \ {id}
  /\ UNCHANGED <<health, outage, refs, changes, open, work, aged, history>>

-----------------------------------------------------------------------------
(* The pass approves and executes its automatic batch; an error only ends the
   batch.                                                                    *)

PassApproves ==
  /\ Go("approve")
  /\ IF Approvable(pass.id)
     THEN Approve(pass.id) /\ pass' = [pass EXCEPT !.pc = "check"]
     ELSE pass' = NextLabel /\ Alone

PassChecks ==
  /\ Go("check")
  /\ IF Executable(pass.id)
     THEN Check(pass.id) /\ pass' = [pass EXCEPT !.pc = "run"]
     ELSE pass' = NextLabel /\ Alone

PassRuns ==
  /\ Go("run")
  /\ Run(pass.id)
  /\ pass' = NextLabel

Answer ==
  /\ pass.pc \in {"done", "failed"}
  /\ pass' = Idle
  /\ Alone

-----------------------------------------------------------------------------
(* The operator approves, executes and rolls back batches; plans expire.     *)

Mine(id) == pass.pc \in {"check", "run"} /\ pass.id = id

Expire(id) ==
  /\ id \notin aged
  /\ aged' = aged \cup {id}
  /\ changes < MaxChanges
  /\ changes' = changes + 1
  /\ UNCHANGED <<registry, health, outage, refs, document, pass, executing, writer,
                 spoiled, history>>

OperatorApproves(id) ==
  Approvable(id) /\ plans[id] = "ready_for_review" /\ Approve(id) /\ UNCHANGED pass

OperatorChecks(id) == Executable(id) /\ ~Mine(id) /\ Check(id) /\ UNCHANGED pass

OperatorRuns(id) == ~Mine(id) /\ Run(id) /\ UNCHANGED pass

(* Every member is set to its recorded value; one that fails does not stop the
   others; the execution has had its only rollback.                          *)
RollBack(id) ==
  /\ id \in DOMAIN tokens
  /\ \E failed \in SUBSET id.members :
       /\ id.members \cap Gone \subseteq failed
       /\ registry' = [e \in Entities |->
                         IF e \in id.members \ failed THEN tokens[id][e] ELSE registry[e]]
       /\ writer' = [e \in Entities |->
                       IF e \in id.members \ failed THEN Outside ELSE writer[e]]
       /\ Ends(id, IF failed = {} THEN "rolled_back" ELSE "rollback_failed")
       /\ spoiled' = IF failed = {} THEN spoiled ELSE spoiled \cup {id}
  /\ tokens' = [other \in DOMAIN tokens \ {id} |-> tokens[other]]
  /\ UNCHANGED <<health, outage, refs, changes, open, work, aged, pass, executing,
                 history>>

-----------------------------------------------------------------------------

World ==
  \/ \E e \in Entities, h \in {"up", "short", "long"} : Sicken(e, h)
  \/ \E e \in Entities : Refer(e)
  \/ \E e \in Entities, by \in {"none", "user", "integration", "gone"} : Change(e, by)
  \/ ToggleOutage \/ Rescan
  \/ \E k \in DOMAIN work, decision \in {"keep", "unsure"} : Decide(k, decision)
  \/ \E id \in DOMAIN plans : Expire(id)

Operator ==
  \E id \in DOMAIN plans :
    OperatorApproves(id) \/ OperatorChecks(id) \/ OperatorRuns(id) \/ RollBack(id)

PassStep ==
  \/ Capture \/ References \/ LoadWork \/ SaveWork \/ Fingerprint \/ CreateBatch
  \/ PassApproves \/ PassChecks \/ PassRuns \/ Answer

Next == World \/ Operator \/ PassStep \/ Begin

Spec == Init /\ [][Next]_vars

-----------------------------------------------------------------------------
(* Properties.                                                               *)

(* What a pass may disable on its own evidence, said without the order of the
   classifier's tests.                                                       *)
SafeAlone(e) ==
  /\ pass.mode # "observe" /\ pass.evidence.coverage = "complete"
  /\ CategoryOf[e] \in OptionalCategories /\ e \notin Excluded /\ e \notin pass.evidence.refs
  /\ pass.evidence.open[e] = "long" /\ pass.evidence.health[e] # "up"
  /\ pass.evidence.registry[e] = "none"

(* A pass disables, without asking, only optional entities that by the evidence
   of that very pass are enabled, down for the whole minimum, referenced by
   nothing in a complete scan and not excluded, and never in observe mode; no
   plan an earlier pass or the operator left behind widens this
   (async_run_cleanup, async_create_batch_disable_plan).                     *)
AutoDisabledIsSafe ==
  [][pass.pc = "run" /\ pass'.pc # "run" =>
       \A e \in Entities : registry'[e] # registry[e] => SafeAlone(e)]_vars

(* An entity that a batch disabled and that nobody changed since can be put
   back: its execution still holds the rollback token, or the one rollback it
   had was reported as failed.  So no failed, stale or blocked execution leaves
   an entity disabled (DisableEntityBatchAdapter.execute).                   *)
DisabledIsUndoable ==
  \A e \in Entities :
    writer[e] # Outside => writer[e] \in DOMAIN tokens \/ writer[e] \in spoiled

(* A rollback that reports success gives every member that nobody changed in
   between the value it had when the batch was planned, however long ago that
   was and whatever was executed in between.                                 *)
RollbackRestores ==
  [][\A id \in DOMAIN plans :
       plans[id] # "rolled_back" /\ plans'[id] = "rolled_back" =>
         \A e \in id.members : writer[e] = id => registry'[e] = id.before[e]]_vars

=============================================================================
