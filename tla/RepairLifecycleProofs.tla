------------------------- MODULE RepairLifecycleProofs -------------------------
(***************************************************************************)
(* Repairs of configuration files, for any number of files, repairs,       *)
(* edits, mishaps and retained records.                                    *)
(***************************************************************************)
EXTENDS RepairLifecycle, TLAPS

(* A call of a repair: it is approved, executed, reconciled, cut off by an
   exception, or moves on. *)
Act(c) == Approve(c) \/ Execute(c) \/ Reconcile(c) \/ Step(c) \/ Raise(c)

(* A record that is written replaces the one of the same plan; what is left out
   of the rest is complete. *)
LEMMA SaveKeeps ==
  ASSUME NEW S, NEW b, NEW kept \in Retained(Replaced(S, b))
  PROVE  /\ kept \subseteq Replaced(S, b)
         /\ \A x \in S : x.id # b.id /\ ~x.complete => x \in kept
         /\ ~b.complete => b \in kept
  BY DEF Retained, Replaced, Incomplete

(* What is derived or observed is a plan. *)
LEMMA RepairedType == ASSUME NEW x \in Content PROVE Repaired(x) \in Content /\ ~Stale(Repaired(x))
  BY DEF Repaired, Content, Stale

(* The present content of files that are there is a plan. *)
LEMMA PlanType ==
  ASSUME TypeOK, NEW S \in SUBSET Files, \A f \in S : file[f] # Absent
  PROVE  [f \in S |-> file[f]] \in Plans
<1>1. [f \in S |-> file[f]] \in [S -> Content]
  BY DEF TypeOK
<1> QED BY <1>1 DEF Plans

(* What rediscovery derives is a plan. *)
LEMMA CurrentPlanType == ASSUME TypeOK PROVE CurrentPlan \in Plans
<1>1. \A f \in {g \in Files : Stale(file[g])} : file[f] # Absent
  BY DEF Stale
<1> QED BY <1>1, PlanType DEF CurrentPlan

(* A plan is about files and says what they contain. *)
LEMMA PlanDomain ==
  ASSUME NEW p \in Plans
  PROVE  DOMAIN p \in SUBSET Files /\ p \in [DOMAIN p -> Content]
  BY DEF Plans

FlagSet == [backup : BOOLEAN, began : BOOLEAN, wrote : BOOLEAN, valid : BOOLEAN,
            rollback : BOOLEAN, complete : BOOLEAN]

(* What a checkpoint stores is a well-formed record of its repair. *)
LEMMA RecordType ==
  ASSUME TypeOK, NEW c \in Repairs, NEW flags \in FlagSet
  PROVE  /\ Record(c, flags) \in Baseline
         /\ Record(c, flags).id = approved[c] /\ Record(c, flags).owner = c
         /\ Record(c, flags).writeBegan = flags.began
         /\ Record(c, flags).rollbackBegan = flags.rollback
         /\ Record(c, flags).complete = flags.complete
  BY DEF TypeOK, Record, Baseline, FlagSet

(* Storing a checkpoint keeps the document well formed. *)
LEMMA SaveType ==
  ASSUME TypeOK, NEW b \in Baseline, Save(b)
  PROVE  baselines' \in SUBSET Baseline /\ mishaps' = mishaps
<1>1. baselines' \subseteq Replaced(baselines, b)
  BY SaveKeeps DEF Save
<1> QED BY <1>1 DEF Save, Replaced, TypeOK

(* A mishap is counted within its bound. *)
LEMMA MishapType == ASSUME TypeOK, Mishap PROVE mishaps' \in 0 .. MaxMishaps
  BY BoundsAssumption DEF TypeOK, Mishap

(* A required checkpoint moves on or stops, and the document stays well formed. *)
LEMMA RequiredType ==
  ASSUME TypeOK, NEW c \in Repairs, NEW flags \in FlagSet, NEW next, NEW refused,
         Required(c, flags, next, refused)
  PROVE  /\ baselines' \in SUBSET Baseline /\ mishaps' \in 0 .. MaxMishaps
         /\ \/ pc' = [pc EXCEPT ![c] = next]
            \/ pc' = [pc EXCEPT ![c] = refused] /\ baselines' = baselines
<1>1. CASE Save(Record(c, flags)) /\ Goto(c, next)
  BY <1>1, RecordType, SaveType DEF Goto, TypeOK
<1>2. CASE Mishap /\ UNCHANGED baselines /\ Goto(c, refused)
  BY <1>2, MishapType DEF Goto, TypeOK
<1> QED BY <1>1, <1>2 DEF Required

(* A checkpoint that may fail unnoticed keeps the document well formed. *)
LEMMA BestEffortType ==
  ASSUME TypeOK, NEW c \in Repairs, NEW flags \in FlagSet, BestEffort(c, flags)
  PROVE  baselines' \in SUBSET Baseline /\ mishaps' \in 0 .. MaxMishaps
<1>1. CASE Save(Record(c, flags))
  BY <1>1, RecordType, SaveType DEF TypeOK
<1>2. CASE Mishap /\ UNCHANGED baselines
  BY <1>2, MishapType DEF TypeOK
<1> QED BY <1>1, <1>2 DEF BestEffort

(* The flags of every stage are well formed. *)
LEMMA FlagTypes ==
  /\ Flags \in FlagSet /\ Began \in FlagSet /\ Wrote \in FlagSet
  /\ \A v \in BOOLEAN : [Flags EXCEPT !.backup = v] \in FlagSet
  /\ \A v \in BOOLEAN : [Began EXCEPT !.wrote = v] \in FlagSet
  /\ \A v \in BOOLEAN : [Wrote EXCEPT !.valid = v] \in FlagSet
  /\ [Wrote EXCEPT !.valid = TRUE, !.complete = TRUE] \in FlagSet
  /\ [Wrote EXCEPT !.rollback = TRUE] \in FlagSet
  /\ [Wrote EXCEPT !.rollback = TRUE, !.complete = TRUE] \in FlagSet
  BY DEF Flags, Began, Wrote, FlagSet

-----------------------------------------------------------------------------
(* Progress.  A repair that is Over will write nothing more.                *)

Proving == {"scan", "prove", "escalate_inconclusive", "escalate_still_present",
            "escalate_resolved", "escalate_regressed"}

Unsaved == {"idle", "approved", "derive", "replan", "confirm"}

Early == Unsaved \union {"backup", "record_backup", "announce"}

Late == Running \ Early

Over(c) == pc[c] \in Ended \/ resumed[c]

Active(c) == pc[c] \in Running /\ ~resumed[c]

(* A repair changes files of its plan, after it announced that. *)
ProgressOf(c) ==
  /\ resumed[c] => pc[c] \in Ended \union Proving
  /\ pc[c] \in Early => touched[c] = {} /\ written[c] = {} /\ c \notin restored
  /\ pc[c] \in {"idle", "approved", "derive", "replan"} => DOMAIN pre[c] = {}
  /\ DOMAIN pre[c] \subseteq DOMAIN approved[c]
  /\ pc[c] \in {"write", "restore"} => left[c] \subseteq DOMAIN pre[c]
  /\ touched[c] \union written[c] \subseteq DOMAIN pre[c]
  /\ c \in restored => pc[c] \in {"restore", "reverify"} \/ Over(c)

ProgressInv == \A c \in Repairs : ProgressOf(c)

Typed == TypeOK /\ ProgressInv

(* The types hold at first. *)
LEMMA InitTyped == Init => Typed
<1> SUFFICES ASSUME Init PROVE Typed
  OBVIOUS
<1>1. Nothing \in Plans
  <2>1. Nothing \in [{} -> Content] /\ {} \in SUBSET Files
    BY DEF Nothing
  <2> QED BY <2>1 DEF Plans
<1>2. file \in [Files -> Content \union {Absent}]
  BY RetainedAssumption DEF Init, Content
<1>3. /\ edits \in 0 .. MaxEdits /\ mishaps \in 0 .. MaxMishaps
  BY RetainedAssumption, BoundsAssumption DEF Init
<1>4. TypeOK
  BY <1>1, <1>2, <1>3 DEF Init, TypeOK
<1>5. ProgressInv
  BY DEF Init, ProgressInv, ProgressOf, Early, Unsaved, Ended, Nothing, Over
<1> QED BY <1>4, <1>5 DEF Typed

(* A step of a repair keeps the types. *)
LEMMA ActTyped == ASSUME Typed, NEW c \in Repairs, Act(c) PROVE TypeOK'
<1> USE DEF disk, locals, startup, history, Goto, Running, Ended
<1>0. TypeOK
  BY DEF Typed
<1>1. CASE Approve(c)
  BY <1>0, <1>1, CurrentPlanType DEF Approve, TypeOK
<1>2. CASE Execute(c) \/ Derive(c) \/ ValidateRuntime(c) \/ Rescan(c) \/ Reconcile(c)
  <2>1. CASE Execute(c) \/ Derive(c)
    BY <1>0, <2>1 DEF Execute, Derive, TypeOK
  <2>2. CASE ValidateRuntime(c) \/ Rescan(c)
    BY <1>0, <2>2 DEF ValidateRuntime, Rescan, TypeOK
  <2>3. CASE Reconcile(c)
    BY <1>0, <2>3 DEF Reconcile, TypeOK
  <2> QED BY <1>2, <2>1, <2>2, <2>3
<1>3. CASE Replan(c)
  <2>1. DOMAIN approved[c] \in SUBSET Files
    BY <1>0, PlanDomain DEF TypeOK
  <2>2. [f \in {g \in DOMAIN approved[c] : file[g] # Absent} |-> file[f]] \in Plans
    BY <1>0, <2>1, PlanType
  <2> QED BY <1>0, <1>3, <2>2 DEF Replan, TypeOK
<1>4. CASE Confirm(c)
  <2>1. /\ baselines' \in SUBSET Baseline /\ mishaps' \in 0 .. MaxMishaps
        /\ pc' = [pc EXCEPT ![c] = "backup"] \/ pc' = [pc EXCEPT ![c] = "blocked"]
    BY <1>0, <1>4, FlagTypes, RequiredType DEF Confirm
  <2> QED BY <1>0, <1>4, <2>1 DEF Confirm, TypeOK
<1>5. CASE BackUp(c)
  BY <1>0, <1>5, MishapType DEF BackUp, TypeOK
<1>6. CASE RecordBackup(c)
  <2>1. backed[c] \in BOOLEAN
    BY <1>0 DEF TypeOK
  <2>2. /\ baselines' \in SUBSET Baseline /\ mishaps' \in 0 .. MaxMishaps
        /\ \/ pc' = [pc EXCEPT ![c] = IF backed[c] THEN "announce" ELSE "blocked"]
           \/ pc' = [pc EXCEPT ![c] = "blocked"]
    BY <1>0, <1>6, <2>1, FlagTypes, RequiredType DEF RecordBackup
  <2> QED BY <1>0, <1>6, <2>2 DEF RecordBackup, TypeOK
<1>7. CASE Announce(c)
  <2>1. /\ baselines' \in SUBSET Baseline /\ mishaps' \in 0 .. MaxMishaps
        /\ pc' = [pc EXCEPT ![c] = "write"] \/ pc' = [pc EXCEPT ![c] = "blocked"]
    BY <1>0, <1>7, FlagTypes, RequiredType DEF Announce
  <2>2. DOMAIN pre[c] \in SUBSET Files
    BY <1>0, PlanDomain DEF TypeOK
  <2> QED BY <1>0, <1>7, <2>1, <2>2 DEF Announce, TypeOK
<1>8. ASSUME NEW f \in Files, Write(c, f) PROVE TypeOK'
  <2>1. file' \in [Files -> Content \union {Absent}]
    <3>1. CASE file' = file
      BY <1>0, <3>1 DEF TypeOK
    <3>2. CASE file[f] # Absent /\ file' = [file EXCEPT ![f] = Repaired(@)]
      BY <1>0, <3>2, RepairedType DEF TypeOK
    <3>3. CASE file[f] # Absent /\ file' = [file EXCEPT ![f].ref = "torn"]
      BY <1>0, <3>3 DEF TypeOK, Content
    <3> QED BY <1>8, <3>1, <3>2, <3>3 DEF Write
  <2>2. mishaps' \in 0 .. MaxMishaps
    BY <1>0, <1>8, MishapType DEF Write, TypeOK
  <2>3. /\ touched' \in {touched, [touched EXCEPT ![c] = @ \union {f}]}
        /\ written' \in {written, [written EXCEPT ![c] = @ \union {f}]}
        /\ left' = [left EXCEPT ![c] = @ \ {f}]
        /\ pc' \in {[pc EXCEPT ![c] = "applied"], [pc EXCEPT ![c] = "write"]}
    BY <1>8 DEF Write
  <2>4. verified' \in {verified, [verified EXCEPT ![c] = @ \union {f}]}
    BY <1>0, <1>8 DEF Write, TypeOK
  <2>5. /\ touched' \in [Repairs -> SUBSET Files] /\ written' \in [Repairs -> SUBSET Files]
        /\ left' \in [Repairs -> SUBSET Files] /\ verified' \in [Repairs -> SUBSET Files]
    BY <1>0, <2>3, <2>4 DEF TypeOK
  <2> QED BY <1>0, <1>8, <2>1, <2>2, <2>3, <2>5 DEF Write, TypeOK
<1>9. ASSUME NEW f \in Files, Restore(c, f) PROVE TypeOK'
  <2>1. mishaps' \in 0 .. MaxMishaps
    BY <1>0, <1>9, MishapType DEF Restore, TypeOK
  <2>2. pre[c][f] \in Content
    <3>1. f \in DOMAIN pre[c]
      BY <1>0, <1>9 DEF Restore, Typed, ProgressInv, ProgressOf
    <3> QED BY <1>0, <3>1, PlanDomain DEF TypeOK
  <2>3. /\ touched' \in {touched, [touched EXCEPT ![c] = @ \ {f}]}
        /\ verified' \in {verified, [verified EXCEPT ![c] = @ \union {f}]}
        /\ file' \in {file, [file EXCEPT ![f] = pre[c][f]]}
        /\ left' = [left EXCEPT ![c] = @ \ {f}]
        /\ pc' \in {[pc EXCEPT ![c] = "reverify"], [pc EXCEPT ![c] = "restore"]}
    BY <1>9 DEF Restore
  <2>4. /\ touched' \in [Repairs -> SUBSET Files] /\ verified' \in [Repairs -> SUBSET Files]
        /\ left' \in [Repairs -> SUBSET Files] /\ file' \in [Files -> Content \union {Absent}]
    BY <1>0, <2>2, <2>3 DEF TypeOK
  <2> QED BY <1>0, <1>9, <2>1, <2>3, <2>4 DEF Restore, TypeOK
<1>10. CASE Applied(c)
  <2>1. baselines' \in SUBSET Baseline /\ mishaps' \in 0 .. MaxMishaps
    <3>1. AllVerified(c) \in BOOLEAN
      BY DEF AllVerified
    <3> QED BY <1>0, <1>10, <3>1, FlagTypes, BestEffortType DEF Applied
  <2> QED BY <1>0, <1>10, <2>1 DEF Applied, TypeOK
<1>11. CASE Validate(c)
  <2>1. baselines' \in SUBSET Baseline /\ mishaps' \in 0 .. MaxMishaps
    BY <1>0, <1>11, FlagTypes, BestEffortType DEF Validate
  <2> QED BY <1>0, <1>11, <2>1 DEF Validate, TypeOK
<1>12. CASE Prove(c)
  BY <1>0, <1>12 DEF Prove, TypeOK, Concluding, Verdict
<1>13. CASE Conclude(c)
  <2>1. baselines' \in SUBSET Baseline /\ mishaps' \in 0 .. MaxMishaps
    BY <1>0, <1>13, FlagTypes, BestEffortType DEF Conclude
  <2> QED BY <1>0, <1>13, <2>1 DEF Conclude, ReconcileIncident, OutcomeOf, TypeOK
<1>14. CASE Escalate(c)
  BY <1>0, <1>14 DEF Escalate, ReconcileIncident, OutcomeOf, TypeOK
<1>15. CASE Undo(c)
  <2>1. CASE written[c] = {}
    BY <1>0, <1>15, <2>1 DEF Undo, TypeOK
  <2>2. CASE written[c] # {}
    <3>1. /\ baselines' \in SUBSET Baseline /\ mishaps' \in 0 .. MaxMishaps
          /\ pc' = [pc EXCEPT ![c] = "restore"] \/ pc' = [pc EXCEPT ![c] = "rollback_failed"]
      BY <1>0, <1>15, <2>2, FlagTypes, RequiredType DEF Undo
    <3> QED BY <1>0, <1>15, <3>1 DEF Undo, TypeOK
  <2> QED BY <2>1, <2>2
<1>16. CASE Reverify(c)
  <2>1. baselines' \in SUBSET Baseline /\ mishaps' \in 0 .. MaxMishaps
    BY <1>0, <1>16, FlagTypes, BestEffortType DEF Reverify
  <2> QED BY <1>0, <1>16, <2>1 DEF Reverify, TypeOK
<1>17. CASE Raise(c)
  BY <1>0, <1>17, MishapType DEF Raise, TypeOK
<1> QED
  BY <1>1, <1>2, <1>3, <1>4, <1>5, <1>6, <1>7, <1>8, <1>9, <1>10, <1>11, <1>12, <1>13,
     <1>14, <1>15, <1>16, <1>17
  DEF Act, Step

(* A judgement of the recovery is one of its outcomes. *)
LEMMA DecideType == ASSUME NEW b, NEW o PROVE Decide(b, o) \in RecoveryOutcomes
  BY DEF Decide, WhenPost, WhenPre, WhenUnchanged, RecoveryOutcomes

(* Every step keeps the types. *)
LEMMA StepTypeOK == ASSUME Typed, [Next]_vars PROVE TypeOK'
<1>0. TypeOK
  BY DEF Typed
<1> USE DEF disk, locals, startup, history
<1>1. ASSUME NEW c \in Repairs, Act(c) PROVE TypeOK'
  BY <1>1, ActTyped
<1>2. CASE RecoveryStarts
  BY <1>0, <1>2 DEF RecoveryStarts, Incomplete, TypeOK
<1>3. ASSUME NEW b \in queue, Classify(b) PROVE TypeOK'
  <2>1. b \in Baseline
    BY <1>0 DEF TypeOK
  <2>2. PICK outcome \in RecoveryOutcomes :
          recovered' = {d \in recovered : d.baseline.id # b.id}
                         \union {[baseline |-> b, outcome |-> outcome]}
    BY <1>3, DecideType DEF Classify
  <2>3. recovered' \in SUBSET [baseline : Baseline, outcome : RecoveryOutcomes]
    BY <1>0, <2>1, <2>2 DEF TypeOK
  <2>4. /\ recovery' \in {recovery, "retire"} /\ queue' \subseteq queue
        /\ settled' \in {settled, settled \union {b.owner}}
    BY <1>3 DEF Classify
  <2>5. b.owner \in Repairs
    BY <2>1 DEF Baseline
  <2> QED BY <1>0, <1>3, <2>3, <2>4, <2>5 DEF Classify, TypeOK
<1>4. ASSUME NEW b \in queue, Retire(b) PROVE TypeOK'
  <2>1. [b EXCEPT !.complete = TRUE] \in Baseline
    <3>1. b \in Baseline
      BY <1>0 DEF TypeOK
    <3> QED BY <3>1 DEF Baseline
  <2>2. baselines' \in SUBSET Baseline /\ mishaps' \in 0 .. MaxMishaps
    BY <1>0, <1>4, <2>1, SaveType, MishapType DEF Retire, TypeOK
  <2> QED BY <1>0, <1>4, <2>2 DEF Retire, TypeOK
<1>5. CASE RecoveryEnds
  BY <1>0, <1>5 DEF RecoveryEnds, TypeOK
<1>6. ASSUME NEW f \in Files, Edit(f) PROVE TypeOK'
  <2>1. edits' \in 0 .. MaxEdits
    BY <1>0, <1>6, RetainedAssumption DEF Edit, TypeOK
  <2>2. file' \in [Files -> Content \union {Absent}]
    <3>1. CASE file[f] # Absent /\ file' = [file EXCEPT ![f] = [@ EXCEPT !.edit = edits']]
      BY <1>0, <2>1, <3>1 DEF TypeOK, Content
    <3>2. CASE file' = [file EXCEPT ![f] = Absent]
      BY <1>0, <3>2 DEF TypeOK
    <3> QED BY <1>6, <3>1, <3>2 DEF Edit
  <2>3. mishaps' \in 0 .. MaxMishaps
    BY <1>0, <1>6, MishapType DEF Edit
  <2> QED BY <1>0, <1>6, <2>1, <2>2, <2>3 DEF Edit, TypeOK
<1>7. CASE Crash
  <2>1. mishaps' \in 0 .. MaxMishaps
    BY <1>0, <1>7, MishapType DEF Crash
  <2> QED BY <1>0, <1>7, <2>1 DEF Crash, TypeOK, Ended
<1>8. CASE UNCHANGED vars
  BY <1>0, <1>8 DEF vars, TypeOK
<1> QED BY <1>1, <1>2, <1>3, <1>4, <1>5, <1>6, <1>7, <1>8 DEF Next, Act, Recover

(* A repair's steps leave the other repairs alone. *)
LEMMA ActFrame ==
  ASSUME TypeOK, NEW c \in Repairs, Act(c), NEW d \in Repairs, d # c
  PROVE  /\ pc'[d] = pc[d] /\ resumed'[d] = resumed[d] /\ touched'[d] = touched[d]
         /\ written'[d] = written[d] /\ approved'[d] = approved[d] /\ pre'[d] = pre[d]
         /\ left'[d] = left[d] /\ (d \in restored' <=> d \in restored)
         /\ settled' = settled
<1> USE DEF TypeOK, disk, locals, startup, history, Goto
<1>1. CASE Approve(c) \/ Execute(c) \/ Derive(c) \/ Replan(c)
  BY <1>1 DEF Approve, Execute, Derive, Replan
<1>2. CASE Confirm(c) \/ RecordBackup(c) \/ Announce(c)
  BY <1>2 DEF Confirm, RecordBackup, Announce, Required
<1>3. CASE BackUp(c) \/ ValidateRuntime(c) \/ Rescan(c) \/ Prove(c)
  BY <1>3 DEF BackUp, ValidateRuntime, Rescan, Prove
<1>4. ASSUME NEW f \in Files, Write(c, f)
      PROVE  /\ pc'[d] = pc[d] /\ resumed'[d] = resumed[d] /\ touched'[d] = touched[d]
             /\ written'[d] = written[d] /\ approved'[d] = approved[d] /\ pre'[d] = pre[d]
             /\ left'[d] = left[d] /\ restored' = restored /\ settled' = settled
  BY <1>4 DEF Write
<1>5. ASSUME NEW f \in Files, Restore(c, f)
      PROVE  /\ pc'[d] = pc[d] /\ resumed'[d] = resumed[d] /\ touched'[d] = touched[d]
             /\ written'[d] = written[d] /\ approved'[d] = approved[d] /\ pre'[d] = pre[d]
             /\ left'[d] = left[d] /\ (d \in restored' <=> d \in restored) /\ settled' = settled
  BY <1>5 DEF Restore
<1>6. CASE Applied(c) \/ Validate(c) \/ Conclude(c) \/ Reverify(c)
  BY <1>6 DEF Applied, Validate, Conclude, Reverify
<1>7. CASE Escalate(c) \/ Reconcile(c) \/ Raise(c)
  BY <1>7 DEF Escalate, Reconcile, Raise
<1>8. CASE Undo(c)
  BY <1>8 DEF Undo, Required
<1> QED BY <1>1, <1>2, <1>3, <1>4, <1>5, <1>6, <1>7, <1>8 DEF Act, Step

(* A repair's own step keeps its progress in order. *)
LEMMA OwnProgress ==
  ASSUME Typed, NEW c \in Repairs, Act(c)
  PROVE  ProgressOf(c)'
<1>0. TypeOK /\ ProgressOf(c)
  BY DEF Typed, ProgressInv
<1> USE <1>0 DEF TypeOK, disk, locals, startup, history, Goto, ProgressOf, Early, Unsaved, Over,
                 Ended, Proving
<1>1. CASE Approve(c) \/ Execute(c) \/ Derive(c) \/ Replan(c)
  BY <1>1 DEF Approve, Execute, Derive, Replan
<1>2. CASE Confirm(c) \/ RecordBackup(c) \/ Announce(c)
  BY <1>2 DEF Confirm, RecordBackup, Announce, Required
<1>3. CASE BackUp(c) \/ ValidateRuntime(c) \/ Rescan(c)
  BY <1>3 DEF BackUp, ValidateRuntime, Rescan
<1>4. ASSUME NEW f \in Files, Write(c, f) PROVE ProgressOf(c)'
  BY <1>4 DEF Write
<1>5. ASSUME NEW f \in Files, Restore(c, f) PROVE ProgressOf(c)'
  BY <1>5 DEF Restore
<1>6. CASE Applied(c) \/ Validate(c)
  <2>1. CASE Applied(c)
    BY <2>1 DEF Applied
  <2>2. CASE Validate(c)
    BY <2>2 DEF Validate
  <2> QED BY <1>6, <2>1, <2>2
<1>7. CASE Conclude(c) \/ Escalate(c)
  BY <1>7 DEF Conclude, Escalate, OutcomeOf
<1>8. CASE Reverify(c) \/ Reconcile(c) \/ Raise(c)
  BY <1>8 DEF Reverify, Reconcile, Raise, Running
<1>9. CASE Undo(c)
  BY <1>9 DEF Undo, Required
<1>10. CASE Prove(c)
  BY <1>10 DEF Prove, Concluding, Verdict
<1> QED BY <1>1, <1>2, <1>3, <1>4, <1>5, <1>6, <1>7, <1>8, <1>9, <1>10 DEF Act, Step

(* Every step keeps the types and the progress of the repairs. *)
LEMMA StepTyped == ASSUME Typed, [Next]_vars PROVE Typed'
<1>0. TypeOK /\ TypeOK' /\ \A d \in Repairs : ProgressOf(d)
  BY StepTypeOK DEF Typed, ProgressInv
<1> SUFFICES ASSUME NEW d \in Repairs PROVE ProgressOf(d)'
  BY <1>0 DEF Typed, ProgressInv
<1>1. ASSUME NEW c \in Repairs, Act(c) PROVE ProgressOf(d)'
  <2>1. CASE d = c
    BY <1>1, <2>1, OwnProgress
  <2>2. CASE d # c
    BY <1>0, <1>1, <2>2, ActFrame DEF ProgressOf, Over
  <2> QED BY <2>1, <2>2
<1>2. CASE Recover \/ UNCHANGED vars
  BY <1>0, <1>2
  DEF Recover, RecoveryStarts, Classify, Retire, RecoveryEnds, vars, disk, locals, history,
      ProgressOf, Over
<1>3. ASSUME NEW f \in Files, Edit(f) PROVE ProgressOf(d)'
  <2>1. touched'[d] \subseteq touched[d]
    BY <1>0, <1>3 DEF Edit, TypeOK
  <2> QED BY <1>0, <1>3, <2>1 DEF Edit, locals, ProgressOf, Over
<1>4. CASE Crash
  <2>1. pc'[d] = IF pc[d] \in Running THEN "lost" ELSE pc[d]
    BY <1>4 DEF Crash
  <2> QED BY <1>0, <1>4, <2>1
          DEF Crash, locals, history, ProgressOf, Over, Running, Early, Unsaved, Ended, Proving
<1> QED BY <1>1, <1>2, <1>3, <1>4 DEF Next, Act

(* Types, and what they need of the stage of each repair, are invariant. *)
LEMMA Typing == Spec => []Typed
  BY InitTyped, StepTyped, PTL DEF Spec

(* The document, the files and the calls keep their types. *)
THEOREM TypeCorrect == Spec => []TypeOK
  BY Typing, PTL DEF Typed

-----------------------------------------------------------------------------
(* What a step of a repair may do.                                          *)

(* The recovery is not touched, a plan stays approved, a repair that left its
   place does not come back, and one that is over changes nothing more. *)
LEMMA ActKeeps ==
  ASSUME Typed, NEW c \in Repairs, Act(c)
  PROVE  /\ UNCHANGED <<recovery, queue, recovered, settled>>
         /\ pc[c] # "idle" => approved'[c] = approved[c]
         /\ pc[c] \notin Unsaved => pc'[c] \notin Unsaved
         /\ c \in restored' => c \in restored \/ pc[c] = "restore"
         /\ Over(c) => Over(c)' /\ touched'[c] = touched[c] /\ (c \in restored' => c \in restored)
<1>0. TypeOK /\ ProgressOf(c)
  BY DEF Typed, ProgressInv
<1> USE <1>0 DEF TypeOK, disk, locals, startup, history, Goto, Unsaved, Over, Ended, ProgressOf,
                 Proving
<1>1. CASE Approve(c) \/ Execute(c) \/ Derive(c) \/ Replan(c)
  BY <1>1 DEF Approve, Execute, Derive, Replan
<1>2. CASE Confirm(c) \/ RecordBackup(c) \/ Announce(c)
  BY <1>2 DEF Confirm, RecordBackup, Announce, Required
<1>3. CASE BackUp(c) \/ ValidateRuntime(c) \/ Rescan(c)
  BY <1>3 DEF BackUp, ValidateRuntime, Rescan
<1>4. ASSUME NEW f \in Files, Write(c, f)
      PROVE  /\ UNCHANGED <<recovery, queue, recovered, settled, approved, restored>>
             /\ pc[c] \notin Unsaved => pc'[c] \notin Unsaved
             /\ ~Over(c)
  BY <1>4 DEF Write
<1>5. ASSUME NEW f \in Files, Restore(c, f)
      PROVE  /\ UNCHANGED <<recovery, queue, recovered, settled, approved>>
             /\ pc[c] \notin Unsaved => pc'[c] \notin Unsaved
             /\ pc[c] = "restore"
             /\ ~Over(c)
  BY <1>5 DEF Restore
<1>6. CASE Applied(c) \/ Validate(c)
  BY <1>6 DEF Applied, Validate
<1>7. CASE Conclude(c) \/ Escalate(c)
  BY <1>7 DEF Conclude, Escalate, OutcomeOf
<1>8. CASE Reverify(c) \/ Reconcile(c) \/ Raise(c)
  BY <1>8 DEF Reverify, Reconcile, Raise
<1>9. CASE Undo(c)
  BY <1>9 DEF Undo, Required
<1>10. CASE Prove(c)
  BY <1>10 DEF Prove, Concluding, Verdict
<1> QED BY <1>1, <1>2, <1>3, <1>4, <1>5, <1>6, <1>7, <1>8, <1>9, <1>10 DEF Act, Step

(* A record of a repair that is under way, as it is saved at a step. *)
SavedBy(c, r) ==
  /\ baselines' \in Retained(Replaced(baselines, r))
  /\ r.id = approved[c] /\ r.owner = c
  /\ Active(c) /\ pc[c] \notin {"idle", "approved", "derive", "replan"}
  /\ pc'[c] \notin Unsaved \union {"lost", "raised"}
  /\ pc'[c] \in Late => r.writeBegan /\ ~r.complete
  /\ pc'[c] \in {"restore", "reverify"} \/ c \in restored' => r.rollbackBegan

(* Nothing is saved, and no place is reached that needs a record. *)
NothingSaved(c) ==
  /\ baselines' = baselines
  /\ pc'[c] \in Late /\ ~resumed'[c] => pc[c] \in Late
  /\ pc'[c] \in {"restore", "reverify"} => pc[c] \in {"restore", "reverify"}
  /\ pc'[c] \in {"lost", "raised"} => pc[c] \in {"lost", "raised"} \union Running

(* A step saves the record its place calls for, or none. *)
LEMMA ActSaves ==
  ASSUME Typed, NEW c \in Repairs, Act(c)
  PROVE  NothingSaved(c) \/ \E r \in Baseline : SavedBy(c, r)
<1>0. TypeOK /\ ProgressOf(c)
  BY DEF Typed, ProgressInv
<1> USE <1>0 DEF TypeOK, disk, locals, startup, history, Goto, ProgressOf, Proving
<1> USE DEF NothingSaved, Late, Early, Unsaved, Running, Ended
<1>1. CASE Approve(c) \/ Execute(c) \/ Derive(c) \/ Replan(c)
  BY <1>1 DEF Approve, Execute, Derive, Replan
<1>2. CASE BackUp(c) \/ ValidateRuntime(c) \/ Rescan(c)
  BY <1>2 DEF BackUp, ValidateRuntime, Rescan
<1>3. ASSUME NEW f \in Files, Write(c, f) PROVE NothingSaved(c)
  BY <1>3 DEF Write
<1>4. ASSUME NEW f \in Files, Restore(c, f) PROVE NothingSaved(c)
  BY <1>4 DEF Restore
<1>5. CASE Escalate(c) \/ Reconcile(c) \/ Raise(c)
  BY <1>5 DEF Escalate, Reconcile, Raise, OutcomeOf
<1>6. CASE Prove(c)
  BY <1>6 DEF Prove, Concluding, Verdict
<1>7. ASSUME NEW flags \in FlagSet, Save(Record(c, flags)),
             Active(c), pc[c] \notin {"idle", "approved", "derive", "replan"},
             pc'[c] \notin Unsaved \union {"lost", "raised"},
             pc'[c] \in Late => flags.began /\ ~flags.complete,
             pc'[c] \in {"restore", "reverify"} \/ c \in restored' => flags.rollback
      PROVE  \E r \in Baseline : SavedBy(c, r)
  BY <1>7, RecordType, SMTT(30) DEF SavedBy, Save
<1>8. CASE Confirm(c)
  BY <1>7, <1>8, FlagTypes DEF Confirm, Required, Active
<1>9. CASE RecordBackup(c)
  BY <1>7, <1>9, FlagTypes DEF RecordBackup, Required, Active
<1>10. CASE Announce(c)
  <2>1. CASE Save(Record(c, Began)) /\ Goto(c, "write")
    <3>1. Began \in FlagSet /\ Began.began /\ ~Began.complete
      BY FlagTypes DEF Began, Flags
    <3>2. Active(c) /\ pc[c] = "announce" /\ c \notin restored
      BY <1>10 DEF Announce, Active
    <3>3. pc'[c] = "write" /\ restored' = restored
      BY <1>10, <2>1 DEF Announce
    <3> QED BY <1>7, <2>1, <3>1, <3>2, <3>3
  <2>2. CASE baselines' = baselines /\ Goto(c, "blocked")
    BY <1>10, <2>2 DEF Announce
  <2> QED BY <1>10, <2>1, <2>2 DEF Announce, Required
<1>11. CASE Applied(c)
  BY <1>7, <1>11, FlagTypes DEF Applied, BestEffort, Active, Began, Flags, AllVerified, Over
<1>12. CASE Validate(c)
  BY <1>7, <1>12, FlagTypes, ZenonT(40) DEF Validate, BestEffort, Active, Wrote, Began, Flags, Over
<1>13. CASE Conclude(c)
  BY <1>7, <1>13, FlagTypes DEF Conclude, BestEffort, Active, Wrote, Began, Flags, Over, OutcomeOf
<1>14. CASE Undo(c)
  <2> DEFINE flags == [Wrote EXCEPT !.rollback = TRUE]
  <2>1. CASE Save(Record(c, flags)) /\ Goto(c, "restore")
    <3>1. flags \in FlagSet /\ flags.rollback /\ flags.began /\ ~flags.complete
      BY FlagTypes DEF Wrote, Began, Flags
    <3>2. Active(c) /\ pc[c] = "undo"
      BY <1>14 DEF Undo, Active
    <3>3. pc'[c] = "restore"
      BY <2>1
    <3> HIDE DEF flags
    <3> QED BY <1>7, <2>1, <3>1, <3>2, <3>3
  <2>2. CASE baselines' = baselines /\ pc'[c] \in {"validation_failed", "rollback_failed"}
    BY <1>14, <2>2 DEF Undo
  <2> QED BY <1>14, <2>1, <2>2 DEF Undo, Required
<1>15. CASE Reverify(c)
  <2> DEFINE flags == [Wrote EXCEPT !.rollback = TRUE, !.complete = TRUE]
  <2>1. CASE Save(Record(c, flags))
    <3>1. flags \in FlagSet /\ flags.rollback
      BY FlagTypes DEF Wrote, Began, Flags
    <3>2. Active(c) /\ pc[c] = "reverify"
      BY <1>15 DEF Reverify, Active
    <3>3. pc'[c] \in {"rolled_back", "rollback_failed"}
      BY <1>15 DEF Reverify
    <3> HIDE DEF flags
    <3> QED BY <1>7, <2>1, <3>1, <3>2, <3>3
  <2>2. CASE baselines' = baselines
    BY <1>15, <2>2 DEF Reverify
  <2> QED BY <1>15, <2>1, <2>2 DEF Reverify, BestEffort
<1> QED
  BY <1>1, <1>2, <1>3, <1>4, <1>5, <1>6, <1>8, <1>9, <1>10, <1>11, <1>12, <1>13, <1>14, <1>15
  DEF Act, Step

-----------------------------------------------------------------------------
(* One at a time.                                                           *)

(* No two repairs are executed at once, and none while the recovery looks at the
   records, as the code expects (remediation_lifecycle.py 784-787).  A repair
   that is reconciled after a restart may run beside anything. *)
OneAtATime ==
  /\ \A c, d \in Repairs : Active(c) /\ Active(d) => c = d
  /\ recovery \in {"running", "retire"} => \A c \in Repairs : ~Active(c)

(* A changed file does not hold the stale reference, so that no later repair is
   derived for it. *)
TouchInv ==
  \A c \in Repairs :
    /\ \A f \in touched[c] : ~Stale(file[f])
    /\ Active(c) /\ pc[c] # "derive" =>
         \A d \in Repairs \ {c} : touched[d] \intersect DOMAIN approved[c] = {}

(* There is one record of a plan, and it tells whether the files were restored. *)
BaselineInv ==
  /\ \A b \in baselines :
       /\ b.id = approved[b.owner] /\ pc[b.owner] \notin Unsaved
       /\ b.owner \in restored \/ pc[b.owner] \in {"restore", "reverify"} => b.rollbackBegan
       /\ \A other \in baselines : other.id = b.id => other = b
  /\ queue \subseteq Incomplete(baselines)
  /\ queue # {} => recovery \in {"running", "retire"}

AnnouncedInv ==
  \A c \in Repairs \ settled :
    ~resumed[c] /\ (pc[c] \in Late \/ (pc[c] \in {"lost", "raised"} /\ touched[c] # {})) =>
      \E b \in BaselineOf(c) : b.writeBegan /\ ~b.complete

(* A repair that was classified is over. *)
RecoveredInv ==
  \A d \in recovered :
    /\ Over(d.baseline.owner)
    /\ Terminal(d.outcome) => d.baseline.owner \in settled
    /\ MayApply(d.outcome) =>
         touched[d.baseline.owner] = {} /\ d.baseline.owner \notin restored

RepairInv == TouchInv /\ BaselineInv /\ AnnouncedInv /\ RecoveredInv

(* At first nothing is approved, stored or touched. *)
LEMMA InitRepair == Init => RepairInv
  BY DEF Init, RepairInv, TouchInv, BaselineInv, AnnouncedInv, RecoveredInv, Active, Late,
         Running, Early, Unsaved

(* What may become of a file a repair touches. *)
LEMMA ActTouches ==
  ASSUME Typed, NEW c \in Repairs, Act(c)
  PROVE  \/ file' = file /\ touched'[c] = touched[c]
         \/ \E f \in Files : Write(c, f) /\ f \in DOMAIN pre[c] /\ ~Stale(file'[f])
              /\ touched'[c] \subseteq touched[c] \union {f}
              /\ \A g \in Files \ {f} : file'[g] = file[g]
         \/ \E f \in Files : Restore(c, f) /\ f \in DOMAIN pre[c] /\ f \notin touched'[c]
              /\ touched'[c] \subseteq touched[c]
              /\ \A g \in Files \ {f} : file'[g] = file[g]
<1>0. TypeOK /\ ProgressOf(c)
  BY DEF Typed, ProgressInv
<1> USE <1>0 DEF disk, history
<1>1. CASE Approve(c) \/ Execute(c) \/ Derive(c) \/ Replan(c) \/ BackUp(c)
  BY <1>1 DEF Approve, Execute, Derive, Replan, BackUp
<1>2. CASE Confirm(c) \/ RecordBackup(c) \/ Announce(c) \/ Reconcile(c) \/ Raise(c)
  BY <1>2 DEF Confirm, RecordBackup, Announce, Reconcile, Raise
<1>3. CASE ValidateRuntime(c) \/ Rescan(c) \/ Prove(c) \/ Escalate(c) \/ Conclude(c)
  BY <1>3 DEF ValidateRuntime, Rescan, Prove, Escalate, Conclude
<1>4. CASE Applied(c) \/ Validate(c) \/ Undo(c) \/ Reverify(c)
  BY <1>4 DEF Applied, Validate, Undo, Reverify
<1>5. ASSUME NEW f \in Files, Write(c, f), ~(file' = file /\ touched'[c] = touched[c])
      PROVE  /\ f \in DOMAIN pre[c] /\ ~Stale(file'[f])
             /\ touched'[c] \subseteq touched[c] \union {f}
             /\ \A g \in Files \ {f} : file'[g] = file[g]
  <2>1. f \in DOMAIN pre[c]
    BY <1>5 DEF Write, ProgressOf
  <2>2. touched'[c] \subseteq touched[c] \union {f}
    BY <1>5 DEF Write, TypeOK
  <2>3. CASE file[f] # Absent /\ file' = [file EXCEPT ![f] = Repaired(@)]
    BY <2>1, <2>2, <2>3, RepairedType DEF TypeOK
  <2>4. CASE file[f] # Absent /\ file' = [file EXCEPT ![f].ref = "torn"]
    BY <2>1, <2>2, <2>4 DEF TypeOK, Content, Stale
  <2> QED BY <1>5, <2>3, <2>4 DEF Write
<1>6. ASSUME NEW f \in Files, Restore(c, f), ~(file' = file /\ touched'[c] = touched[c])
      PROVE  /\ f \in DOMAIN pre[c] /\ f \notin touched'[c]
             /\ touched'[c] \subseteq touched[c]
             /\ \A g \in Files \ {f} : file'[g] = file[g]
  BY <1>6 DEF Restore, TypeOK, ProgressOf
<1> QED BY <1>1, <1>2, <1>3, <1>4, <1>5, <1>6 DEF Act, Step

(* Only a repair that is under way changes files, and a repair is under way by
   its own step. *)
LEMMA ActTouchInv ==
  ASSUME Typed, TouchInv, OneAtATime, NEW c \in Repairs, Act(c)
  PROVE  TouchInv'
<1>0. TypeOK /\ ProgressOf(c)
  BY DEF Typed, ProgressInv
<1>1. ASSUME NEW f \in Files, Write(c, f) \/ Restore(c, f) PROVE Active(c) /\ pc[c] # "derive"
  BY <1>0, <1>1 DEF Write, Restore, Active, Running, ProgressOf, Ended, Proving
<1>2. \A d \in Repairs \ {c} : touched'[d] = touched[d]
  BY <1>0, ActFrame
<1>3. \A d \in Repairs : \A f \in touched'[d] : ~Stale(file'[f])
  <2>0. \A d \in Repairs : touched[d] \subseteq Files
    BY <1>0 DEF TypeOK
  <2>1. CASE file' = file /\ touched'[c] = touched[c]
    BY <1>2, <2>1 DEF TouchInv, Stale
  <2>2. ASSUME NEW f \in Files, Write(c, f), ~Stale(file'[f]),
               touched'[c] \subseteq touched[c] \union {f},
               \A g \in Files \ {f} : file'[g] = file[g]
        PROVE  \A d \in Repairs : \A g \in touched'[d] : ~Stale(file'[g])
    BY <1>2, <2>0, <2>2 DEF TouchInv, Stale
  <2>3. ASSUME NEW f \in Files, Restore(c, f), f \in DOMAIN pre[c], f \notin touched'[c],
               touched'[c] \subseteq touched[c],
               \A g \in Files \ {f} : file'[g] = file[g]
        PROVE  \A d \in Repairs : \A g \in touched'[d] : ~Stale(file'[g])
    <3>1. \A d \in Repairs \ {c} : f \notin touched[d]
      BY <1>0, <1>1, <2>3 DEF TouchInv, ProgressOf
    <3> QED BY <1>2, <2>0, <2>3, <3>1 DEF TouchInv, Stale
  <2> QED BY <2>1, <2>2, <2>3, ActTouches
<1>4. ASSUME NEW d \in Repairs, Active(d)', pc'[d] # "derive", NEW e \in Repairs \ {d}
      PROVE  touched'[e] \intersect DOMAIN approved'[d] = {}
  <2>1. CASE d = c
    <3>1. touched'[e] = touched[e]
      BY <1>2, <2>1
    <3>2. CASE pc[c] = "derive"
      <4>1. CurrentPlan = approved[c] /\ approved' = approved
        BY <1>0, <1>4, <2>1, <3>2
        DEF Act, Step, Approve, Execute, Reconcile, Raise, Derive, Replan, Confirm, BackUp,
            RecordBackup, Announce, Write, Restore, Applied, Validate, ValidateRuntime, Rescan,
            Prove, Conclude, Escalate, Undo, Reverify, Goto, Active, Running, TypeOK, locals, Ended
      <4>2. \A f \in DOMAIN approved[c] : Stale(file[f])
        BY <4>1 DEF CurrentPlan
      <4> QED BY <2>1, <3>1, <4>1, <4>2 DEF TouchInv
    <3>3. CASE pc[c] # "derive"
      <4>1. Active(c)
        BY <1>0, <1>4, <2>1, <3>3, SMTT(30)
        DEF Act, Step, Approve, Execute, Reconcile, Raise, Derive, Replan, Confirm, BackUp,
            RecordBackup, Announce, Write, Restore, Applied, Validate, ValidateRuntime, Rescan,
            Prove, Conclude, Escalate, Undo, Reverify, Goto, Active, Running, TypeOK, locals,
            ProgressOf, Ended
      <4>2. approved'[c] = approved[c]
        BY <4>1, ActKeeps DEF Active, Running
      <4> QED BY <2>1, <3>1, <3>3, <4>1, <4>2 DEF TouchInv
    <3> QED BY <3>2, <3>3
  <2>2. CASE d # c
    <3>1. pc'[d] = pc[d] /\ approved'[d] = approved[d] /\ resumed'[d] = resumed[d]
      BY <1>0, <2>2, ActFrame
    <3>2. touched'[e] \subseteq touched[e]
      <4>1. CASE e # c
        BY <1>2, <4>1
      <4>2. CASE e = c
        <5>1. ~Active(c)
          BY <1>4, <2>2, <3>1 DEF OneAtATime, Active
        <5> QED BY <1>1, <4>2, <5>1, ActTouches
      <4> QED BY <4>1, <4>2
    <3> QED BY <1>4, <3>1, <3>2 DEF TouchInv, Active
  <2> QED BY <2>1, <2>2
<1> QED BY <1>3, <1>4 DEF TouchInv

(* A step of a repair leaves one record of its plan: its own. *)
LEMMA ActBaselineInv ==
  ASSUME Typed, TypeOK', BaselineInv, OneAtATime, NEW c \in Repairs, Act(c)
  PROVE  BaselineInv'
<1>0. TypeOK /\ ProgressOf(c)
  BY DEF Typed, ProgressInv
<1>1. /\ UNCHANGED <<recovery, queue>>
      /\ pc[c] # "idle" => approved'[c] = approved[c]
      /\ pc[c] \notin Unsaved => pc'[c] \notin Unsaved
      /\ c \in restored' => c \in restored \/ pc[c] = "restore"
  BY ActKeeps
<1>2. \A d \in Repairs \ {c} : /\ pc'[d] = pc[d] /\ approved'[d] = approved[d]
                              /\ (d \in restored' <=> d \in restored)
  BY <1>0, ActFrame
<1>3. \A b \in baselines : b.owner \in Repairs
  BY <1>0 DEF TypeOK, Baseline
<1>4. CASE NothingSaved(c)
  BY <1>1, <1>2, <1>3, <1>4 DEF NothingSaved, BaselineInv, Unsaved
<1>5. ASSUME NEW r \in Baseline, SavedBy(c, r) PROVE BaselineInv'
  <2>1. baselines' \subseteq Replaced(baselines, r)
    BY <1>5, SaveKeeps DEF SavedBy
  <2>2. /\ r.id = approved[c] /\ r.owner = c /\ pc'[c] \notin Unsaved
        /\ approved'[c] = approved[c] /\ Active(c)
    BY <1>1, <1>5 DEF SavedBy
  <2>3. \A b \in baselines' : b = r \/ (b \in baselines /\ b.id # r.id /\ b.owner # c)
    BY <2>1, <2>2 DEF Replaced, BaselineInv
  <2>4. \A b \in baselines' : b.id = approved'[b.owner] /\ pc'[b.owner] \notin Unsaved
    BY <1>2, <1>3, <2>2, <2>3 DEF BaselineInv
  <2>5. \A b \in baselines' :
          b.owner \in restored' \/ pc'[b.owner] \in {"restore", "reverify"} => b.rollbackBegan
    BY <1>2, <1>3, <1>5, <2>2, <2>3 DEF BaselineInv, SavedBy
  <2>6. \A b, other \in baselines' : other.id = b.id => other = b
    BY <2>3 DEF BaselineInv
  <2>7. queue = {}
    BY <2>2 DEF BaselineInv, OneAtATime
  <2> QED BY <1>1, <2>4, <2>5, <2>6, <2>7 DEF BaselineInv
<1> QED BY <1>4, <1>5, ActSaves

(* The record that announces a changed file is replaced only by one that does,
   and never by the record of another repair. *)
LEMMA ActAnnouncedInv ==
  ASSUME Typed, TouchInv, BaselineInv, AnnouncedInv, OneAtATime, NEW c \in Repairs, Act(c)
  PROVE  AnnouncedInv'
<1>0. TypeOK /\ ProgressInv
  BY DEF Typed
<1>1. settled' = settled
  BY ActKeeps
<1> SUFFICES ASSUME NEW d \in Repairs \ settled, ~resumed'[d],
                    pc'[d] \in Late \/ (pc'[d] \in {"lost", "raised"} /\ touched'[d] # {})
             PROVE  \E b \in baselines' : b.owner = d /\ b.writeBegan /\ ~b.complete
  BY <1>1 DEF AnnouncedInv, BaselineOf
<1>2. CASE d = c
  <2>1. CASE NothingSaved(c)
    <3>1. ~resumed[c]
      <4>1. CASE Reconcile(c)
        BY <1>0, <1>2, <4>1 DEF Reconcile, TypeOK
      <4>2. CASE ~Reconcile(c)
        BY <1>2, <4>2
        DEF Act, Step, Approve, Execute, Raise, Derive, Replan, Confirm, BackUp, RecordBackup,
            Announce, Write, Restore, Applied, Validate, ValidateRuntime, Rescan, Prove, Conclude,
            Escalate, Undo, Reverify, locals
      <4> QED BY <4>1, <4>2
    <3>2. CASE pc'[c] \in Late
      BY <1>2, <2>1, <3>1, <3>2 DEF NothingSaved, AnnouncedInv, BaselineOf
    <3>3. CASE pc'[c] \in {"lost", "raised"} /\ touched'[c] # {}
      <4>1. pc[c] \in {"lost", "raised"} \/ pc[c] \in Running
        BY <2>1, <3>3 DEF NothingSaved
      <4>2. touched[c] # {}
        <5>1. ASSUME NEW f \in Files, Write(c, f) PROVE pc'[c] \notin {"lost", "raised"}
          BY <1>0, <5>1 DEF Write, Goto, TypeOK
        <5> QED BY <3>3, <5>1, ActTouches
      <4>3. pc[c] \in {"lost", "raised"} \/ pc[c] \in Late
        BY <1>0, <4>1, <4>2 DEF Late, ProgressInv, ProgressOf
      <4> QED BY <1>2, <2>1, <3>1, <4>2, <4>3 DEF NothingSaved, AnnouncedInv, BaselineOf
    <3> QED BY <1>2, <3>2, <3>3
  <2>2. ASSUME NEW r \in Baseline, SavedBy(c, r)
        PROVE  \E b \in baselines' : b.owner = d /\ b.writeBegan /\ ~b.complete
    <3>1. r.owner = c /\ r.writeBegan /\ ~r.complete
      BY <1>2, <2>2 DEF SavedBy
    <3>2. r \in baselines'
      BY <2>2, <3>1, SaveKeeps DEF SavedBy
    <3> QED BY <1>2, <3>1, <3>2
  <2> QED BY <2>1, <2>2, ActSaves
<1>3. CASE d # c
  <2>1. /\ pc'[d] = pc[d] /\ resumed'[d] = resumed[d] /\ touched'[d] = touched[d]
    BY <1>0, <1>3, ActFrame
  <2>2. PICK b \in baselines : b.owner = d /\ b.writeBegan /\ ~b.complete
    BY <2>1 DEF AnnouncedInv, BaselineOf
  <2>3. CASE NothingSaved(c)
    BY <2>2, <2>3 DEF NothingSaved
  <2>4. ASSUME NEW r \in Baseline, SavedBy(c, r) PROVE b \in baselines'
    <3>1. Active(c) /\ pc[c] # "derive" /\ r.id = approved[c]
      BY <2>4 DEF SavedBy
    <3>2. pc[d] \notin Late
      BY <1>3, <2>1, <3>1 DEF OneAtATime, Active, Late
    <3>3. touched[d] # {} /\ touched[d] \subseteq DOMAIN approved[d]
      BY <1>0, <2>1, <3>2 DEF ProgressInv, ProgressOf
    <3>4. approved[d] # approved[c]
      BY <1>3, <3>1, <3>3 DEF TouchInv
    <3>5. b.id # r.id
      BY <2>2, <3>1, <3>4 DEF BaselineInv
    <3> QED BY <2>2, <2>4, <3>5, SaveKeeps DEF SavedBy
  <2> QED BY <2>2, <2>3, <2>4, ActSaves
<1> QED BY <1>2, <1>3

(* A repair that was classified changes nothing more. *)
LEMMA ActRecoveredInv ==
  ASSUME Typed, RecoveredInv, NEW c \in Repairs, Act(c)
  PROVE  RecoveredInv'
<1>0. TypeOK
  BY DEF Typed
<1>1. /\ recovered' = recovered /\ settled' = settled
      /\ Over(c) => Over(c)' /\ touched'[c] = touched[c] /\ (c \in restored' => c \in restored)
  BY ActKeeps
<1>2. \A d \in Repairs \ {c} : /\ Over(d) => Over(d)'
                              /\ touched'[d] = touched[d] /\ (d \in restored' <=> d \in restored)
  BY <1>0, ActFrame DEF Over
<1>3. \A d \in recovered : d.baseline.owner \in Repairs
  BY <1>0 DEF TypeOK, Baseline
<1> QED BY <1>1, <1>2, <1>3 DEF RecoveredInv

-----------------------------------------------------------------------------
(* The recovery.                                                            *)

(* Only a repair that restored nothing and whose plan is still the current one
   may be applied. *)
LEMMA MayApplyMeans ==
  ASSUME NEW b, NEW o, MayApply(Decide(b, o))
  PROVE  ~b.rollbackBegan /\ o.identity # NoPlan /\ o.identity = b.id
  BY DEF MayApply, Decide, WhenPost, WhenPre, WhenUnchanged

(* What the recovery does to a repair whose record it has loaded. *)
LEMMA ClassifyRecovered ==
  ASSUME Typed, TouchInv, BaselineInv, RecoveredInv, OneAtATime, NEW b \in queue, Classify(b)
  PROVE  RecoveredInv'
<1>0. /\ TypeOK /\ ProgressInv
      /\ b \in Baseline /\ b \in baselines /\ b.owner \in Repairs
      /\ b.id = approved[b.owner] /\ pc[b.owner] \notin Unsaved
      /\ b.owner \in restored => b.rollbackBegan
  BY DEF Typed, TypeOK, BaselineInv, Incomplete, Baseline
<1>1. UNCHANGED <<file, pc, resumed, touched, restored>>
  BY DEF Classify, disk, locals
<1>2. Over(b.owner)
  <2>1. ~Active(b.owner)
    BY <1>0 DEF Classify, OneAtATime
  <2> QED BY <1>0, <2>1 DEF TypeOK, Active, Over, Unsaved
<1>3. PICK o : /\ o.identity \in {CurrentPlan, NoPlan}
               /\ recovered' = {d \in recovered : d.baseline.id # b.id}
                    \union {[baseline |-> b, outcome |-> Decide(b, o)]}
               /\ settled' = IF Terminal(Decide(b, o)) THEN settled \union {b.owner} ELSE settled
  <2>1. PICK readable \in BOOLEAN, backups, other, referenced, fresh, derives \in BOOLEAN :
       LET observation ==
             [seen |-> [f \in Files |-> IF readable THEN file[f] ELSE Unreadable],
              readerAvailable |-> readable, backupsPresent |-> backups,
              incidentPresent |-> incidentSeen,
              identity |-> IF incidentSeen /\ derives /\ Derivable THEN CurrentPlan ELSE NoPlan,
              protectionChanged |-> other,
              referenced |-> referenced, fresh |-> fresh]
           outcome == Decide(b, observation)
       IN
       /\ recovered' = {d \in recovered : d.baseline.id # b.id}
                         \union {[baseline |-> b, outcome |-> outcome]}
       /\ IF Terminal(outcome)
          THEN /\ recovery' = "retire"
               /\ settled' = settled \union {b.owner}
               /\ UNCHANGED queue
          ELSE queue' = queue \ {b} /\ UNCHANGED <<recovery, settled>>
    BY DEF Classify
  <2> DEFINE o == [seen |-> [f \in Files |-> IF readable THEN file[f] ELSE Unreadable],
              readerAvailable |-> readable, backupsPresent |-> backups,
              incidentPresent |-> incidentSeen,
              identity |-> IF incidentSeen /\ derives /\ Derivable THEN CurrentPlan ELSE NoPlan,
              protectionChanged |-> other,
              referenced |-> referenced, fresh |-> fresh]
  <2>2. o.identity \in {CurrentPlan, NoPlan}
    OBVIOUS
  <2> HIDE DEF o
  <2>3. /\ recovered' = {d \in recovered : d.baseline.id # b.id}
                    \union {[baseline |-> b, outcome |-> Decide(b, o)]}
        /\ settled' = IF Terminal(Decide(b, o)) THEN settled \union {b.owner} ELSE settled
    BY <2>1 DEF o
  <2> QED BY <2>2, <2>3
<1>4. MayApply(Decide(b, o)) => touched[b.owner] = {} /\ b.owner \notin restored
  <2> SUFFICES ASSUME MayApply(Decide(b, o)) PROVE touched[b.owner] = {} /\ b.owner \notin restored
    OBVIOUS
  <2>1. ~b.rollbackBegan /\ approved[b.owner] = CurrentPlan
    BY <1>0, <1>3, MayApplyMeans
  <2>2. \A f \in DOMAIN approved[b.owner] : Stale(file[f])
    BY <2>1 DEF CurrentPlan
  <2>3. touched[b.owner] \subseteq DOMAIN approved[b.owner]
    BY <1>0 DEF ProgressInv, ProgressOf
  <2> QED BY <1>0, <2>1, <2>2, <2>3 DEF TouchInv
<1>5. settled \subseteq settled' /\ (Terminal(Decide(b, o)) => b.owner \in settled')
  BY <1>3
<1> QED BY <1>1, <1>2, <1>3, <1>4, <1>5 DEF RecoveredInv, Over

(* The loaded copy of a record that is saved is the record of the document, and
   its repair owes nothing. *)
LEMMA RetireKeeps ==
  ASSUME Typed, BaselineInv, AnnouncedInv, RecoveredInv, NEW b \in queue, Retire(b)
  PROVE  BaselineInv' /\ AnnouncedInv'
<1>0. /\ TypeOK /\ b \in baselines /\ ~b.complete
      /\ \A x \in baselines : x.id = b.id => x = b
      /\ UNCHANGED <<pc, approved, resumed, touched, restored, settled>>
      /\ queue' = queue \ {b} /\ recovery' = "running"
  BY DEF Typed, BaselineInv, Incomplete, Retire, locals, history
<1>1. b \in Baseline
  BY <1>0 DEF TypeOK
<1>2. b.owner \in settled
  BY DEF Retire, RecoveredInv
<1>3. CASE baselines' = baselines
  BY <1>0, <1>3 DEF BaselineInv, AnnouncedInv, BaselineOf
<1>4. CASE baselines' \in Retained(Replaced(baselines, [b EXCEPT !.complete = TRUE]))
  <2> DEFINE r == [b EXCEPT !.complete = TRUE]
  <2>1. r.id = b.id /\ r.owner = b.owner /\ r.rollbackBegan = b.rollbackBegan
    BY <1>1 DEF Baseline
  <2>2. baselines' \subseteq Replaced(baselines, r)
    BY <1>4, SaveKeeps
  <2>3. \A x \in baselines : x # b /\ ~x.complete => x \in baselines'
    <3>1. \A x \in baselines : x.id # r.id /\ ~x.complete => x \in baselines'
      BY <1>4, SaveKeeps
    <3> HIDE DEF r
    <3> QED BY <1>0, <2>1, <3>1
  <2> HIDE DEF r
  <2>4. \A x \in baselines' : x = r \/ (x \in baselines /\ x.id # b.id)
    BY <2>1, <2>2 DEF Replaced
  <2>5. BaselineInv'
    <3>1. \A x \in baselines' :
            /\ x.id = approved[x.owner] /\ pc[x.owner] \notin Unsaved
            /\ x.owner \in restored \/ pc[x.owner] \in {"restore", "reverify"} => x.rollbackBegan
            /\ \A other \in baselines' : other.id = x.id => other = x
      BY <1>0, <2>1, <2>4 DEF BaselineInv
    <3>2. queue \ {b} \subseteq Incomplete(baselines')
      BY <2>3 DEF BaselineInv, Incomplete
    <3> QED BY <1>0, <3>1, <3>2 DEF BaselineInv
  <2>6. AnnouncedInv'
    <3> SUFFICES ASSUME NEW c \in Repairs \ settled, NEW x \in baselines, x.owner = c,
                        x.writeBegan, ~x.complete
                 PROVE  x \in baselines'
      BY <1>0 DEF AnnouncedInv, BaselineOf
    <3> QED BY <1>2, <2>3
  <2> QED BY <2>5, <2>6
<1> QED BY <1>3, <1>4 DEF Retire, Save

(* The other steps of the recovery only read the records. *)
LEMMA RecoverKeeps ==
  ASSUME Typed, RepairInv, OneAtATime, Recover
  PROVE  RepairInv'
<1>0. /\ UNCHANGED <<file, pc, approved, pre, resumed, touched, restored>>
  BY DEF Recover, RecoveryStarts, Classify, Retire, RecoveryEnds, disk, locals, history
<1>1. TouchInv'
  BY <1>0 DEF RepairInv, TouchInv, Active, Stale
<1>2. CASE RecoveryStarts \/ RecoveryEnds
  <2>1. /\ UNCHANGED <<baselines, settled, recovered>>
        /\ queue' \subseteq queue \union Incomplete(baselines)
        /\ queue' # {} => recovery' = "running"
    BY <1>2 DEF RecoveryStarts, RecoveryEnds, history
  <2> QED BY <1>0, <1>1, <2>1
          DEF RepairInv, BaselineInv, AnnouncedInv, RecoveredInv, BaselineOf, Over
<1>3. ASSUME NEW b \in queue, Classify(b) PROVE RepairInv'
  <2>1. /\ baselines' = baselines /\ settled \subseteq settled'
        /\ queue' \subseteq queue /\ recovery' \in {"running", "retire"}
    BY <1>3 DEF Classify
  <2>2. BaselineInv' /\ AnnouncedInv'
    BY <1>0, <2>1 DEF RepairInv, BaselineInv, AnnouncedInv, BaselineOf
  <2> QED BY <1>1, <1>3, <2>2, ClassifyRecovered DEF RepairInv
<1>4. ASSUME NEW b \in queue, Retire(b) PROVE RepairInv'
  <2>1. recovered' = recovered /\ settled' = settled
    BY <1>4 DEF Retire, history
  <2>2. RecoveredInv'
    BY <1>0, <2>1 DEF RepairInv, RecoveredInv, Over
  <2> QED BY <1>1, <1>4, <2>2, RetireKeeps DEF RepairInv
<1> QED BY <1>2, <1>3, <1>4 DEF Recover

(* The owner brings no stale reference back into a file. *)
LEMMA EditKeeps ==
  ASSUME Typed, RepairInv, NEW f \in Files, Edit(f)
  PROVE  RepairInv'
<1>0. /\ TypeOK
      /\ UNCHANGED <<baselines, pc, approved, resumed, restored, settled>>
      /\ UNCHANGED <<recovery, queue, recovered>>
  BY DEF Edit, locals, startup, Typed
<1>1. \A c \in Repairs : touched'[c] \subseteq touched[c]
  BY DEF Edit
<1>2. \A g \in Files : Stale(file'[g]) => Stale(file[g])
  <2>1. CASE file[f] # Absent /\ file' = [file EXCEPT ![f] = [@ EXCEPT !.edit = edits']]
    BY <1>0, <2>1 DEF TypeOK, Content, Stale
  <2>2. CASE file' = [file EXCEPT ![f] = Absent]
    BY <1>0, <2>2 DEF TypeOK, Stale
  <2> QED BY <2>1, <2>2 DEF Edit
<1>3. TouchInv'
  <2>1. \A c \in Repairs : touched[c] \subseteq Files
    BY <1>0 DEF TypeOK
  <2>2. \A c \in Repairs : \A g \in touched'[c] : ~Stale(file'[g])
    BY <1>1, <1>2, <2>1 DEF RepairInv, TouchInv
  <2>3. \A c \in Repairs : Active(c)' => Active(c)
    BY <1>0 DEF Active
  <2> QED BY <1>0, <1>1, <2>2, <2>3 DEF RepairInv, TouchInv
<1>4. BaselineInv'
  BY <1>0 DEF RepairInv, BaselineInv
<1>5. AnnouncedInv'
  BY <1>0, <1>1 DEF RepairInv, AnnouncedInv, BaselineOf
<1>6. RecoveredInv'
  <2>1. \A d \in recovered : d.baseline.owner \in Repairs
    BY <1>0 DEF TypeOK, Baseline
  <2> QED BY <1>0, <1>1, <2>1 DEF RepairInv, RecoveredInv, Over
<1> QED BY <1>3, <1>4, <1>5, <1>6 DEF RepairInv

(* A restart forgets what the recovery concluded and cuts every repair off. *)
LEMMA CrashKeeps ==
  ASSUME Typed, RepairInv, Crash
  PROVE  RepairInv'
<1>0. /\ TypeOK
      /\ UNCHANGED <<file, baselines, approved, resumed, touched, restored, settled>>
      /\ queue' = {} /\ recovered' = {}
      /\ \A c \in Repairs : pc'[c] = IF pc[c] \in Running THEN "lost" ELSE pc[c]
  BY DEF Crash, disk, locals, history, Typed
<1>1. \A c \in Repairs : pc'[c] \notin Running
  BY <1>0 DEF Running
<1>2. TouchInv'
  BY <1>0, <1>1 DEF RepairInv, TouchInv, Active, Stale
<1>3. BaselineInv'
  <2>1. \A b \in baselines : b.owner \in Repairs
    BY <1>0 DEF TypeOK, Baseline
  <2>2. \A c \in Repairs : /\ pc[c] \notin Unsaved => pc'[c] \notin Unsaved
                           /\ pc'[c] \notin {"restore", "reverify"}
    BY <1>0, <1>1 DEF Unsaved, Running
  <2> QED BY <1>0, <2>1, <2>2 DEF RepairInv, BaselineInv
<1>4. AnnouncedInv'
  <2> SUFFICES ASSUME NEW c \in Repairs \ settled, ~resumed[c],
                      pc'[c] \in Late \/ (pc'[c] \in {"lost", "raised"} /\ touched[c] # {})
               PROVE  \E b \in baselines : b.owner = c /\ b.writeBegan /\ ~b.complete
    BY <1>0 DEF AnnouncedInv, BaselineOf
  <2>1. pc'[c] \notin Late
    BY <1>1 DEF Late
  <2>2. pc[c] \in Late \/ pc[c] \in {"lost", "raised"}
    BY <1>0, <2>1 DEF Typed, ProgressInv, ProgressOf, Late
  <2> QED BY <2>1, <2>2 DEF RepairInv, AnnouncedInv, BaselineOf
<1>5. RecoveredInv'
  BY <1>0 DEF RecoveredInv
<1> QED BY <1>2, <1>3, <1>4, <1>5 DEF RepairInv

(* Every step keeps the invariant of the repairs. *)
LEMMA StepRepair ==
  ASSUME Typed, RepairInv, OneAtATime, [Next]_vars
  PROVE  RepairInv'
<1>1. ASSUME NEW c \in Repairs, Act(c) PROVE RepairInv'
  <2>1. TypeOK'
    BY StepTyped DEF Typed
  <2> QED BY <1>1, <2>1, ActTouchInv, ActBaselineInv, ActAnnouncedInv, ActRecoveredInv DEF RepairInv
<1>2. CASE UNCHANGED vars
  BY <1>2
  DEF vars, disk, locals, startup, history, RepairInv, TouchInv, BaselineInv, AnnouncedInv,
      RecoveredInv, BaselineOf, Active, Over, Stale
<1> QED BY <1>1, <1>2, RecoverKeeps, EditKeeps, CrashKeeps DEF Next, Act

(* One at a time, no repair leaves a changed file that no durable record accounts
   for, wherever it is cut off and whatever is edited, lost or pruned meanwhile. *)
THEOREM TouchedFilesAreAnnounced == Spec /\ []OneAtATime => []TouchedIsAnnounced
<1>1. Init => RepairInv
  BY InitRepair
<1>2. Typed /\ RepairInv /\ OneAtATime /\ [Next]_vars => RepairInv'
  BY StepRepair
<1>3. Typed /\ RepairInv => TouchedIsAnnounced
  <2> SUFFICES ASSUME Typed, RepairInv, NEW c \in Repairs \ settled, touched[c] # {}, ~resumed[c],
                      pc[c] \in Running \union {"lost", "raised"}
               PROVE  \E b \in BaselineOf(c) : b.writeBegan
    BY DEF TouchedIsAnnounced
  <2>1. pc[c] \in Late \/ pc[c] \in {"lost", "raised"}
    BY DEF Typed, ProgressInv, ProgressOf, Late
  <2> QED BY <2>1 DEF RepairInv, AnnouncedInv
<1> QED BY <1>1, <1>2, <1>3, Typing, PTL DEF Spec

(* One at a time, no restart allows a repair again that has changed a file or has
   begun to restore one, however often it is interrupted. *)
THEOREM RepairsAreNotReapplied == Spec /\ []OneAtATime => []NeverReapplied
<1>1. Init => RepairInv
  BY InitRepair
<1>2. Typed /\ RepairInv /\ OneAtATime /\ [Next]_vars => RepairInv'
  BY StepRepair
<1>3. RepairInv => NeverReapplied
  BY DEF RepairInv, RecoveredInv, NeverReapplied
<1> QED BY <1>1, <1>2, <1>3, Typing, PTL DEF Spec

-----------------------------------------------------------------------------
(* A single repair is always one at a time: a restart finds a record only of a
   repair that is over.                                                     *)

RecoveredLater == \A c \in Repairs : ~Over(c) => recovery = "none"

(* With a single repair, recovery reads records only of a repair that is over. *)
LEMMA StepLater ==
  ASSUME \A c, d \in Repairs : c = d, Typed, RepairInv, RecoveredLater, [Next]_vars
  PROVE  RecoveredLater'
<1>0. TypeOK
  BY DEF Typed
<1> SUFFICES ASSUME NEW c \in Repairs, ~Over(c)' PROVE recovery' = "none"
  BY DEF RecoveredLater
<1>1. ASSUME NEW d \in Repairs, Act(d) PROVE recovery' = "none"
  BY <1>1, ActKeeps DEF RecoveredLater
<1>2. CASE Recover \/ UNCHANGED vars
  BY <1>2 DEF Recover, RecoveryStarts, Classify, Retire, RecoveryEnds, vars, locals, RecoveredLater,
              Over, startup
<1>3. CASE \E f \in Files : Edit(f)
  BY <1>3 DEF Edit, locals, startup, RecoveredLater, Over
<1>4. CASE Crash
  <2>1. pc[c] \in {"idle", "approved"}
    BY <1>0, <1>4 DEF Crash, locals, Over, TypeOK, Ended
  <2>2. \A b \in baselines : b.owner = c
    BY <1>0 DEF TypeOK, Baseline
  <2>3. baselines = {}
    BY <2>1, <2>2 DEF RepairInv, BaselineInv, Unsaved
  <2> QED BY <1>4, <2>3 DEF Crash, Armed
<1> QED BY <1>1, <1>2, <1>3, <1>4 DEF Next, Act

(* With a single repair no hypothesis is needed: its changes are announced and it
   is never applied again, however often it is cut off. *)
THEOREM SingleRepairIsSafe ==
  ASSUME \A c, d \in Repairs : c = d
  PROVE  Spec => [](TouchedIsAnnounced /\ NeverReapplied)
<1>1. Init => RepairInv /\ RecoveredLater
  BY InitRepair DEF Init, RecoveredLater
<1>2. Typed /\ RecoveredLater => OneAtATime
  BY DEF OneAtATime, RecoveredLater, Active, Over, Ended, Running
<1>3. Typed /\ RepairInv /\ RecoveredLater /\ [Next]_vars => RepairInv' /\ RecoveredLater'
  BY <1>2, StepRepair, StepLater
<1>4. Spec => []OneAtATime
  BY <1>1, <1>2, <1>3, Typing, PTL DEF Spec
<1> QED BY <1>4, TouchedFilesAreAnnounced, RepairsAreNotReapplied, PTL

=============================================================================
