---------------------------- MODULE RepairLifecycle ----------------------------
(***************************************************************************)
(* application/remediation_lifecycle.py: one approved repair of a stale    *)
(* reference, from the drift check to the proof that it solved the         *)
(* incident; its checkpoints, its rollback, and what is done about it      *)
(* after a restart.  With the primitives of remediation_tools.py and the   *)
(* saving of baselines and the startup of runtime.py.                      *)
(*                                                                         *)
(* Every await is a point where Home Assistant may stop, the owner of the  *)
(* files may edit them, and another call may run.  A call that raises -    *)
(* an unguarded await, or a FixtureHalt after a checkpoint - leaves        *)
(* everything as it is.                                                    *)
(***************************************************************************)
EXTENDS RecoveryRules

CONSTANTS
  MaxRunning,         \* how many calls and recoveries may run at once
  MaxMishaps          \* bound on restarts, edits by the owner, and failing
                      \* writes, restores and checkpoints together

ASSUME BoundsAssumption == MaxRunning \in Nat /\ MaxMishaps \in Nat

VARIABLES
  file,               \* disk: the content of each file
  baselines,          \* document: remediation_baselines
  incident,           \* document: the lifecycle of the incident
  pc,                 \* where each repair is
  approved,           \* the plan each repair was approved for
  pre,                \* LocationChange.pre_hash: the content read before the repair
  backed,             \* backup_verified of every file
  left,               \* the files still to be written or restored
  written,            \* LocationChange.written
  verified,           \* write_verified, then restored
  resumed,            \* the repair is past its execution: async_reconcile
  recovery,           \* the startup pass over interrupted repairs
  queue,              \* the baselines it still has to classify
  incidentSeen,       \* whether it saw the incident active
  recovered,          \* its classifications, in memory
  touched,            \* history: files a repair changed and has not restored
  restored,           \* history: repairs that began to restore files
  settled,            \* history: repairs a restart found to owe nothing
  edits,              \* edits by the owner so far
  mishaps             \* restarts, edits and failures so far

disk == <<file, edits>>
locals == <<approved, pre, backed, left, written, verified, resumed>>
startup == <<recovery, queue, incidentSeen, recovered>>
history == <<touched, restored, settled>>
vars == <<disk, baselines, incident, pc, locals, startup, history, mishaps>>

Ended ==
  {"blocked", "validation_failed", "rolled_back", "rollback_failed", "inconclusive",
   "regressed", "still_present", "resolved", "raised", "lost"}

Running ==
  {"derive", "replan", "confirm", "backup", "record_backup", "announce", "write",
   "applied", "validate", "runtime", "undo", "restore", "reverify", "scan", "prove",
   "conclude_inconclusive", "conclude_still_present", "conclude_resolved",
   "escalate_inconclusive", "escalate_still_present", "escalate_resolved",
   "escalate_regressed"}

TypeOK ==
  /\ file \in [Files -> Content \union {Absent}]
  /\ baselines \in SUBSET Baseline
  /\ incident \in {"active", "resolved"}
  /\ pc \in [Repairs -> {"idle", "approved"} \union Running \union Ended]
  /\ approved \in [Repairs -> Plans]
  /\ pre \in [Repairs -> Plans]
  /\ backed \in [Repairs -> BOOLEAN]
  /\ left \in [Repairs -> SUBSET Files]
  /\ written \in [Repairs -> SUBSET Files]
  /\ verified \in [Repairs -> SUBSET Files]
  /\ resumed \in [Repairs -> BOOLEAN]
  /\ recovery \in {"none", "waiting", "running", "retire"}
  /\ queue \in SUBSET Baseline
  /\ incidentSeen \in BOOLEAN
  /\ recovered \in SUBSET [baseline : Baseline, outcome : RecoveryOutcomes]
  /\ touched \in [Repairs -> SUBSET Files]
  /\ restored \in SUBSET Repairs
  /\ settled \in SUBSET Repairs
  /\ edits \in 0 .. MaxEdits
  /\ mishaps \in 0 .. MaxMishaps

Nothing == [f \in {} |-> Absent]

Init ==
  /\ file \in [Files -> {[ref |-> "stale", edit |-> 0], [ref |-> "fixed", edit |-> 0]}]
  /\ baselines = {}
  /\ incident = "active"
  /\ pc = [c \in Repairs |-> "idle"]
  /\ approved = [c \in Repairs |-> Nothing]
  /\ pre = [c \in Repairs |-> Nothing]
  /\ backed = [c \in Repairs |-> FALSE]
  /\ left = [c \in Repairs |-> {}]
  /\ written = [c \in Repairs |-> {}]
  /\ verified = [c \in Repairs |-> {}]
  /\ resumed = [c \in Repairs |-> FALSE]
  /\ recovery = "none" /\ queue = {} /\ incidentSeen = FALSE /\ recovered = {}
  /\ touched = [c \in Repairs |-> {}]
  /\ restored = {} /\ settled = {}
  /\ edits = 0 /\ mishaps = 0

-----------------------------------------------------------------------------

Goto(c, place) == pc' = [pc EXCEPT ![c] = place]

Stale(content) == content # Absent /\ content.ref = "stale"

(* search_config and async_plan_locations: the files that hold the stale
   reference, with their contents. *)
CurrentPlan == [f \in {g \in Files : Stale(file[g])} |-> file[f]]

Derivable == incident = "active" /\ DOMAIN CurrentPlan # {}

Mishap == mishaps < MaxMishaps /\ mishaps' = mishaps + 1

Busy == {c \in Repairs : pc[c] \in Running}

MayStart ==
  Cardinality(Busy) + (IF recovery \in {"running", "retire"} THEN 1 ELSE 0) < MaxRunning

(* _async_checkpoint: the whole record as it is to be at this stage. *)
Record(c, b) ==
  [id |-> approved[c], owner |-> c, pre |-> pre[c],
   backupComplete |-> b.backup, writeBegan |-> b.began, writeComplete |-> b.wrote,
   validationPassed |-> b.valid, rollbackBegan |-> b.rollback, complete |-> b.complete]

Flags == [backup |-> FALSE, began |-> FALSE, wrote |-> FALSE, valid |-> FALSE,
          rollback |-> FALSE, complete |-> FALSE]

Began == [Flags EXCEPT !.backup = TRUE, !.began = TRUE]

Wrote == [Began EXCEPT !.wrote = TRUE]

Save(b) == baselines' \in Retained(Replaced(baselines, b)) /\ UNCHANGED mishaps

(* A required checkpoint that cannot be persisted stops the repair. *)
Required_Ignored(c, flags, next, refused) ==
  \/ Save(Record(c, flags)) /\ Goto(c, next)
  \/ Mishap /\ UNCHANGED baselines /\ Goto(c, next)

Required(c, flags, next, refused) ==
  \/ Save(Record(c, flags)) /\ Goto(c, next)
  \/ Mishap /\ UNCHANGED baselines /\ Goto(c, refused)

(* A best-effort one does not. *)
BestEffort(c, flags) ==
  \/ Save(Record(c, flags))
  \/ Mishap /\ UNCHANGED baselines

-----------------------------------------------------------------------------
(* async_execute, up to the mutation                                         *)

(* An operator approves the plan a dry run derived. *)
Approve(c) ==
  /\ pc[c] = "idle"
  /\ Derivable
  /\ approved' = [approved EXCEPT ![c] = CurrentPlan]
  /\ Goto(c, "approved")
  /\ UNCHANGED <<disk, baselines, incident, pre, backed, left, written, verified, resumed,
                 startup, history, mishaps>>

Execute(c) ==
  /\ pc[c] = "approved"
  /\ MayStart
  /\ Goto(c, "derive")
  /\ UNCHANGED <<disk, baselines, incident, locals, startup, history, mishaps>>

(* Drift check: the plan is derived again, and blocks unless it is the
   approved one. *)
Derive(c) ==
  /\ pc[c] = "derive"
  /\ Goto(c, IF Derivable /\ CurrentPlan = approved[c] THEN "replan" ELSE "blocked")
  /\ UNCHANGED <<disk, baselines, incident, locals, startup, history, mishaps>>

(* The files are read once more, then authorisation, configuration and the
   protected invariants are judged. *)
Replan(c) ==
  /\ pc[c] = "replan"
  /\ LET readable == {f \in DOMAIN approved[c] : file[f] # Absent} IN
     pre' = [pre EXCEPT ![c] = [f \in readable |-> file[f]]]
  /\ Goto(c, "confirm") \/ Goto(c, "blocked")
  /\ UNCHANGED <<disk, baselines, incident, approved, backed, left, written, verified,
                 resumed, startup, history, mishaps>>

Confirm(c) ==
  /\ pc[c] = "confirm"
  /\ Required(c, Flags, "backup", "blocked")
  /\ UNCHANGED <<disk, incident, locals, startup, history>>

(* async_backup_locations: each backup is read back and compared. *)
BackUp(c) ==
  /\ pc[c] = "backup"
  /\ \/ /\ backed' = [backed EXCEPT ![c] =
                        /\ DOMAIN pre[c] = DOMAIN approved[c]
                        /\ \A f \in DOMAIN pre[c] : file[f] = pre[c][f]]
        /\ UNCHANGED mishaps
     \/ backed' = [backed EXCEPT ![c] = FALSE] /\ Mishap
  /\ Goto(c, "record_backup")
  /\ UNCHANGED <<disk, baselines, incident, approved, pre, left, written, verified, resumed,
                 startup, history>>

RecordBackup(c) ==
  /\ pc[c] = "record_backup"
  /\ Required(c, [Flags EXCEPT !.backup = backed[c]],
              IF backed[c] THEN "announce" ELSE "blocked", "blocked")
  /\ UNCHANGED <<disk, incident, locals, startup, history>>

(* The intent to write is durable before the first byte changes. *)
Announce(c) ==
  /\ pc[c] = "announce"
  /\ Required(c, Began, "write", "blocked")
  /\ left' = [left EXCEPT ![c] = DOMAIN pre[c]]
  /\ UNCHANGED <<disk, incident, approved, pre, backed, written, verified, resumed, startup,
                 history>>

(* async_apply_locations, one file: read, replace, write, read back.  A write
   that raises may have cut the file short; "written" is then not set.  The
   read-back may fail too. *)
Write(c, f) ==
  /\ pc[c] = "write"
  /\ f \in left[c]
  /\ \/ /\ file[f] # Absent
        /\ file' = [file EXCEPT ![f] = Repaired(@)]
        /\ written' = [written EXCEPT ![c] = @ \union {f}]
        /\ touched' = [touched EXCEPT ![c] = @ \union {f}]
        /\ \/ /\ verified' = [verified EXCEPT ![c] =
                   IF Repaired(file[f]) = Repaired(pre[c][f]) THEN @ \union {f} ELSE @]
              /\ UNCHANGED mishaps
           \/ Mishap /\ UNCHANGED verified
     \/ /\ IF file[f] = Absent THEN UNCHANGED mishaps ELSE Mishap
        /\ UNCHANGED <<file, written, verified, touched>>
     \/ /\ file[f] # Absent
        /\ Mishap
        /\ file' = [file EXCEPT ![f].ref = "torn"]
        /\ touched' = [touched EXCEPT ![c] = @ \union {f}]
        /\ UNCHANGED <<written, verified>>
  /\ left' = [left EXCEPT ![c] = @ \ {f}]
  /\ Goto(c, IF left[c] = {f} THEN "applied" ELSE "write")
  /\ UNCHANGED <<edits, baselines, incident, approved, pre, backed, resumed, startup,
                 restored, settled>>

AllVerified(c) == verified[c] = DOMAIN pre[c]

(* Partial application is never success. *)
Applied(c) ==
  /\ pc[c] = "applied"
  /\ BestEffort(c, [Began EXCEPT !.wrote = AllVerified(c)])
  /\ Goto(c, IF AllVerified(c) THEN "validate" ELSE "undo")
  /\ UNCHANGED <<disk, incident, locals, startup, history>>

-----------------------------------------------------------------------------
(* _async_validate_and_prove                                                 *)

Validate(c) ==
  /\ pc[c] = "validate"
  /\ \E valid \in BOOLEAN :
       /\ BestEffort(c, [Wrote EXCEPT !.valid = valid])
       /\ Goto(c, IF valid THEN "runtime" ELSE "undo")
  /\ UNCHANGED <<disk, incident, locals, startup, history>>

(* Reloads, availability, new errors and protected invariants. *)
ValidateRuntime(c) ==
  /\ pc[c] = "runtime"
  /\ \/ Goto(c, "scan")
     \/ Goto(c, "undo")
  /\ UNCHANGED <<disk, baselines, incident, locals, startup, touched, restored, settled, mishaps>>

(* A scan was requested; only one that committed under a new identity counts. *)
Rescan(c) ==
  /\ pc[c] = "scan"
  /\ \/ /\ incident' \in {"active", "resolved"}
        /\ Goto(c, "prove")
     \/ Goto(c, "escalate_inconclusive") /\ UNCHANGED incident
  /\ UNCHANGED <<disk, baselines, locals, startup, history, mishaps>>

Concluding(c, outcome) ==
  IF outcome = "regressed" \/ resumed[c]
  THEN CASE outcome = "regressed" -> "escalate_regressed"
         [] outcome = "resolved" -> "escalate_resolved"
         [] outcome = "still_present" -> "escalate_still_present"
         [] outcome = "inconclusive" -> "escalate_inconclusive"
  ELSE CASE outcome = "resolved" -> "conclude_resolved"
         [] outcome = "still_present" -> "conclude_still_present"
         [] outcome = "inconclusive" -> "conclude_inconclusive"

(* _async_reconcile_findings, and the regression check: against the incident
   and against the configuration itself. *)
Verdict == IF incident = "active" \/ \E f \in Files : Stale(file[f])
           THEN "still_present" ELSE "resolved"

Prove(c) ==
  /\ pc[c] = "prove"
  /\ \E outcome \in {Verdict, "inconclusive", "regressed"} : Goto(c, Concluding(c, outcome))
  /\ UNCHANGED <<disk, baselines, incident, locals, startup, history, mishaps>>

OutcomeOf(place) ==
  CASE place \in {"conclude_inconclusive", "escalate_inconclusive"} -> "inconclusive"
    [] place \in {"conclude_still_present", "escalate_still_present"} -> "still_present"
    [] place \in {"conclude_resolved", "escalate_resolved"} -> "resolved"
    [] place = "escalate_regressed" -> "regressed"

(* _async_reconcile_incident: an incident the scan closed is opened again unless
   the repair is proven; that may fail. *)
ReconcileIncident(outcome) ==
  \/ incident' = IF outcome = "resolved" THEN incident ELSE "active"
  \/ UNCHANGED incident

(* The end of an execution that went all the way: the record is complete. *)
Conclude(c) ==
  /\ pc[c] \in {"conclude_inconclusive", "conclude_still_present", "conclude_resolved"}
  /\ ReconcileIncident(OutcomeOf(pc[c]))
  /\ BestEffort(c, [Wrote EXCEPT !.valid = TRUE, !.complete = TRUE])
  /\ Goto(c, OutcomeOf(pc[c]))
  /\ UNCHANGED <<disk, locals, startup, history>>

(* The end of one that did not, or of a later reconciliation. *)
Escalate(c) ==
  /\ pc[c] \in {"escalate_inconclusive", "escalate_still_present", "escalate_resolved",
                "escalate_regressed"}
  /\ ReconcileIncident(OutcomeOf(pc[c]))
  /\ Goto(c, OutcomeOf(pc[c]))
  /\ UNCHANGED <<disk, baselines, locals, startup, history, mishaps>>

(* async_reconcile: the proof alone, later, once. *)
Reconcile(c) ==
  /\ pc[c] \in {"raised", "lost", "inconclusive", "rollback_failed"}
  /\ ~resumed[c]
  /\ MayStart
  /\ resumed' = [resumed EXCEPT ![c] = TRUE]
  /\ Goto(c, "scan")
  /\ UNCHANGED <<disk, baselines, incident, approved, pre, backed, left, written, verified,
                 startup, history, mishaps>>

-----------------------------------------------------------------------------
(* _async_rollback                                                           *)

(* Nothing to restore; or the intent to restore is recorded; or, if it cannot
   be, the files are left as they are. *)
Undo(c) ==
  /\ pc[c] = "undo"
  /\ IF written[c] = {}
     THEN Goto(c, "validation_failed") /\ UNCHANGED <<baselines, mishaps>>
     ELSE Required(c, [Wrote EXCEPT !.rollback = TRUE], "restore", "rollback_failed")
  /\ left' = [left EXCEPT ![c] = written[c]]
  /\ verified' = [verified EXCEPT ![c] = {}]
  /\ UNCHANGED <<disk, incident, approved, pre, backed, written, resumed, startup, history>>

(* async_restore_locations, one written file. *)
Restore(c, f) ==
  /\ pc[c] = "restore"
  /\ f \in left[c]
  /\ \/ /\ file' = [file EXCEPT ![f] = pre[c][f]]
        /\ touched' = [touched EXCEPT ![c] = @ \ {f}]
        /\ \/ verified' = [verified EXCEPT ![c] = @ \union {f}] /\ UNCHANGED mishaps
           \/ Mishap /\ UNCHANGED verified
     \/ Mishap /\ UNCHANGED <<file, verified, touched>>
  /\ restored' = restored \union {c}
  /\ left' = [left EXCEPT ![c] = @ \ {f}]
  /\ Goto(c, IF left[c] = {f} THEN "reverify" ELSE "restore")
  /\ UNCHANGED <<edits, baselines, incident, approved, pre, backed, written, resumed,
                 startup, settled>>

(* The restoration is proven if every written file is back and configuration
   and reloads are good. *)
Reverify(c) ==
  /\ pc[c] = "reverify"
  /\ \E good \in BOOLEAN :
       Goto(c, IF verified[c] = written[c] /\ good THEN "rolled_back" ELSE "rollback_failed")
  /\ BestEffort(c, [Wrote EXCEPT !.rollback = TRUE, !.complete = TRUE])
  /\ UNCHANGED <<disk, incident, locals, startup, history>>

-----------------------------------------------------------------------------
(* Recovery: runtime.py, async_recover_interrupted                           *)

RecoveryStarts ==
  /\ recovery = "waiting"
  /\ MayStart
  /\ recovery' = "running"
  /\ queue' = Incomplete(baselines)
  /\ incidentSeen' = (incident = "active")
  /\ UNCHANGED <<disk, baselines, incident, pc, locals, recovered, history, mishaps>>

(* One interrupted repair is judged by what is on disk now. *)
Classify(b) ==
  /\ recovery = "running"
  /\ b \in queue
  /\ \E readable \in BOOLEAN, backups, other, referenced, fresh, derives \in BOOLEAN :
       LET observation ==
             [seen |-> [f \in Files |-> IF readable THEN file[f] ELSE Unreadable],
              readerAvailable |-> readable, backupsPresent |-> backups,
              incidentPresent |-> incidentSeen,
              identity |-> IF incidentSeen /\ derives /\ Derivable THEN CurrentPlan ELSE NoPlan,
              protectionChanged |-> other,
              referenced |-> referenced, fresh |-> fresh]
           outcome == Decide(b, observation)
       IN
       /\ recovered' = {d \in recovered : d.baseline.id # b.id}
                         \union {[baseline |-> b, outcome |-> outcome]}
       /\ IF Terminal(outcome)
          THEN /\ recovery' = "retire"
               /\ settled' = settled \union {b.owner}
               /\ UNCHANGED queue
          ELSE queue' = queue \ {b} /\ UNCHANGED <<recovery, settled>>
  /\ UNCHANGED <<disk, baselines, incident, pc, locals, incidentSeen, touched, restored,
                 mishaps>>

(* Nothing further is owed: the copy that was loaded is saved as complete. *)
Retire(b) ==
  /\ recovery = "retire"
  /\ b \in queue
  /\ \E d \in recovered : d.baseline = b /\ Terminal(d.outcome)
  /\ \/ Save([b EXCEPT !.complete = TRUE])
     \/ Mishap /\ UNCHANGED baselines
  /\ queue' = queue \ {b}
  /\ recovery' = "running"
  /\ UNCHANGED <<disk, incident, pc, locals, incidentSeen, recovered, history>>

RecoveryEnds ==
  /\ recovery = "running"
  /\ queue = {}
  /\ recovery' = "none"
  /\ UNCHANGED <<disk, baselines, incident, pc, locals, queue, incidentSeen, recovered,
                 history, mishaps>>

-----------------------------------------------------------------------------
(* What happens around the repairs.                                          *)

(* Any await of a repair that is not guarded may raise, and a fixture repair
   may be halted after a checkpoint. *)
Raise(c) ==
  /\ pc[c] \in Running \ {"applied", "restore"}
  /\ Mishap
  /\ Goto(c, "raised")
  /\ UNCHANGED <<disk, baselines, incident, locals, startup, history>>

(* The owner edits or removes a file. *)
Edit(f) ==
  /\ Mishap
  /\ edits < MaxEdits
  /\ edits' = edits + 1
  /\ \/ file[f] # Absent /\ file' = [file EXCEPT ![f] = [@ EXCEPT !.edit = edits']]
     \/ file' = [file EXCEPT ![f] = Absent]
  /\ touched' = [c \in Repairs |-> IF file'[f] = Absent THEN touched[c] \ {f} ELSE touched[c]]
  /\ UNCHANGED <<baselines, incident, pc, locals, startup, restored, settled>>

(* Startup has interrupted repairs to look at, if there is any record. *)
Armed_Complete == \E b \in baselines : b.complete

Armed == baselines # {}

(* Home Assistant stops and starts.  The recovery is armed when there are
   baselines; its earlier classifications were in memory. *)
Crash ==
  /\ Mishap
  /\ pc' = [c \in Repairs |-> IF pc[c] \in Running THEN "lost" ELSE pc[c]]
  /\ recovery' = IF Armed THEN "waiting" ELSE "none"
  /\ queue' = {} /\ recovered' = {}
  /\ UNCHANGED <<disk, baselines, incident, locals, incidentSeen, history>>

Step(c) ==
  \/ Derive(c) \/ Replan(c) \/ Confirm(c) \/ BackUp(c) \/ RecordBackup(c) \/ Announce(c)
  \/ \E f \in Files : Write(c, f) \/ Restore(c, f)
  \/ Applied(c) \/ Validate(c) \/ ValidateRuntime(c) \/ Rescan(c) \/ Prove(c)
  \/ Conclude(c) \/ Escalate(c) \/ Undo(c) \/ Reverify(c)

Recover ==
  \/ RecoveryStarts
  \/ \E b \in queue : Classify(b) \/ Retire(b)
  \/ RecoveryEnds

Next ==
  \/ \E c \in Repairs : Approve(c) \/ Execute(c) \/ Reconcile(c) \/ Step(c) \/ Raise(c)
  \/ Recover
  \/ \E f \in Files : Edit(f)
  \/ Crash

Spec == Init /\ [][Next]_vars

(* The event loop runs every call that can run and the recovery it has armed. *)
FairSpec == Spec /\ WF_vars(Recover) /\ \A c \in Repairs : WF_vars(Step(c))

-----------------------------------------------------------------------------

BaselineOf(c) == {b \in baselines : b.owner = c}

(* A file a repair has changed, and not restored, is announced by a durable
   record that a write began, as long as the repair runs or was cut off and no
   restart settled it: none finds a changed file that nothing accounts for
   (REQUIRED_CHECKPOINTS, remediation_lifecycle.py 113-130). *)
TouchedIsAnnounced ==
  \A c \in Repairs \ settled :
    touched[c] # {} /\ ~resumed[c] /\ pc[c] \in Running \union {"lost", "raised"} =>
      \E b \in BaselineOf(c) : b.writeBegan

(* Recovery never allows a repair to be applied again once it changed a file, or
   once its rollback began, whatever was cut off where (NO_MUTATION_OUTCOMES,
   rollback_began in remediation_lifecycle.py 125-129). *)
NeverReapplied ==
  \A d \in recovered :
    MayApply(d.outcome) => touched[d.baseline.owner] = {} /\ d.baseline.owner \notin restored

(* An interrupted repair that left an incomplete record is classified after the
   restart, unless there is another restart, or it is found to owe nothing
   (remediation_lifecycle.py 1124-1146). *)
InterruptedIsClassified ==
  \A c \in Repairs :
    (pc[c] = "lost" /\ \E b \in BaselineOf(c) : ~b.complete) ~>
      \/ \E d \in recovered : d.baseline.owner = c
      \/ \A b \in BaselineOf(c) : b.complete

=============================================================================
