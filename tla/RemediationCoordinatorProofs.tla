--------------------- MODULE RemediationCoordinatorProofs ---------------------
(***************************************************************************)
(* The coordinator, for any number of plans, approvals, calls and tokens,  *)
(* any lease and any capacity.                                             *)
(***************************************************************************)
EXTENDS RemediationCoordinator, FiniteSetTheorems, TLAPS

(* A verdict is reached before it is recorded. *)
Decided ==
  /\ \A c \in Calls : pc[c] \in {"record", "block", "refuse"} => verdict[c] # "none"
  /\ \A c \in Rollbacks :
       /\ pc[c] \notin {"check", "execute", "verify", "refuse", "block"}
       /\ verdict[c] # "unknown_plan"
       /\ pc[c] = "record" => undo[c] # "none"

(* A rollback is asked for an execution that is already recorded. *)
RecordedFirst ==
  \A c \in Rollbacks :
    pc[c] # "idle" => \E e \in executions : e.id = arg[c].execution

Typed == TypeOK /\ Decided /\ RecordedFirst

-----------------------------------------------------------------------------

(* A call is an execution or a rollback. *)
LEMMA CallsApart ==
  /\ Rollbacks \subseteq Calls /\ Executions \subseteq Calls
  /\ \A c \in Calls : c \in Rollbacks <=> c \notin Executions
  BY CallsAssumption DEF Calls

(* The remembered tokens are tokens. *)
LEMMA WithTokenType ==
  ASSUME NEW ts \in Seq(Tokens), NEW t \in Tokens
  PROVE  WithToken(ts, t) \in Seq(Tokens)
<1>1. CASE Len(ts) < MaxTokens
  BY <1>1 DEF WithToken
<1>2. CASE ~(Len(ts) < MaxTokens)
  <2>1. ts # <<>>
    BY <1>2, LimitsAssumption
  <2>2. Tail(ts) \in Seq(Tokens)
    BY <2>1
  <2> QED BY <1>2, <2>2 DEF WithToken
<1> QED BY <1>1, <1>2

(* The types hold at first. *)
LEMMA InitTyped == Init => Typed
<1> SUFFICES ASSUME Init PROVE Typed
  OBVIOUS
<1>1. RecordsOK
  <2>1. approvals \in [Approvals -> ApprovalRecord \union {NoRecord}]
    <3>1. [plan : Plans, state : {"granted"}, revoked : {FALSE}, expires : {ApprovalLease}]
            \subseteq ApprovalRecord
      BY LeaseAssumption DEF ApprovalRecord
    <3> QED BY <3>1 DEF Init
  <2> QED BY <2>1 DEF Init, RecordsOK, PlanStates
<1>2. ControlOK
  BY DEF Init, LocalInit, ControlOK, Places, Resting, Verdicts
<1>3. LocalsOK
  <2>1. PICK p \in Plans, a \in Approvals, t \in Tokens, e \in Executions : TRUE
    BY ArgumentsAssumption
  <2>2. [plan |-> p, approval |-> a, token |-> t, execution |-> e] \in Argument
    BY DEF Argument
  <2>3. (CHOOSE x \in Argument : TRUE) \in Argument
    BY <2>2
  <2> QED BY <2>3 DEF Init, LocalInit, LocalsOK
<1>4. WorldOK
  BY DEF Init, WorldOK
<1>5. Decided
  BY DEF Decided, Init, LocalInit, Calls
<1>6. RecordedFirst
  BY CallsApart DEF RecordedFirst, Init, LocalInit
<1> QED BY <1>1, <1>2, <1>3, <1>4, <1>5, <1>6 DEF Typed, TypeOK

(* A step of a call that was made is a step of that call alone: no other call
   moves, nobody's arguments change, and no execution record is lost. *)
LEMMA Frame ==
  ASSUME ControlOK, NEW c \in Calls, Step(c)
  PROVE  /\ UNCHANGED <<arg, now, clock>>
         /\ executions \subseteq executions'
         /\ pc[c] # "idle"
         /\ pc'[c] # "idle"
         /\ \A d \in Calls \ {c} : pc'[d] = pc[d]
<1>0. pc \in [Calls -> Places] /\ ending[c] # "idle"
  BY DEF ControlOK
<1>1. CASE Token(c)
  BY <1>0, <1>1 DEF Token, Goto, records, progress, world
<1>2. CASE TokenExhausted(c)
  BY <1>0, <1>2 DEF TokenExhausted, Goto, records, progress, world
<1>3. CASE LoadPlan(c)
  BY <1>0, <1>3 DEF LoadPlan, Goto, Refuse, records, progress, world
<1>4. CASE LoadExecution(c)
  BY <1>0, <1>4 DEF LoadExecution, Goto, records, progress, world
<1>5. CASE AcquireLock(c)
  BY <1>0, <1>5 DEF AcquireLock, Goto, records, progress, world
<1>6. CASE LockRefused(c)
  BY <1>0, <1>6 DEF LockRefused, Goto, Refuse, records, progress, world
<1>7. CASE Check(c)
  BY <1>0, <1>7 DEF Check, Goto, Block, records, progress, world
<1>8. CASE ExecuteStep(c)
  BY <1>0, <1>8 DEF ExecuteStep, Goto, StopAndUndo, Block, records, progress, world
<1>9. CASE VerifyStep(c)
  BY <1>0, <1>9 DEF VerifyStep, Goto, StopAndUndo, Block, records, progress, world
<1>10. CASE UndoStep(c)
  BY <1>0, <1>10 DEF UndoStep, Goto, records, progress, world
<1>11. CASE RecordExecution(c)
  BY <1>0, <1>11 DEF RecordExecution, Goto, Leave, records, progress, world
<1>12. CASE RecordFails(c)
  BY <1>0, <1>12 DEF RecordFails, Goto, Leave, Block, records, progress, world
<1>13. CASE RecordRollback(c)
  BY <1>0, <1>13 DEF RecordRollback, Goto, Leave, records, progress, world
<1>14. CASE RecordRollbackFails(c)
  BY <1>0, <1>14 DEF RecordRollbackFails, Goto, Leave, records, progress, world
<1>15. CASE Release(c)
  BY <1>0, <1>15 DEF Release, Goto, records, progress, world
<1> QED
  BY <1>1, <1>2, <1>3, <1>4, <1>5, <1>6, <1>7, <1>8, <1>9, <1>10, <1>11, <1>12, <1>13,
     <1>14, <1>15
  DEF Step

(* Executions stay recorded, and a rollback keeps its execution. *)
LEMMA StepRecordedFirst ==
  ASSUME RecordsOK, ControlOK, LocalsOK, RecordedFirst, [Next]_vars
  PROVE  RecordedFirst'
<1>1. ASSUME NEW c \in Calls, Begin(c) PROVE RecordedFirst'
  <2>1. CASE \E p \in Plans, a \in Approvals, t \in Tokens : BeginExecution(c, p, a, t)
    <3>1. c \notin Rollbacks /\ executions' = executions
      BY <2>1, CallsApart DEF BeginExecution, records
    <3>2. \A d \in Calls \ {c} : pc'[d] = pc[d] /\ arg'[d] = arg[d]
      BY <2>1, ControlOK, LocalsOK DEF BeginExecution, Goto, ControlOK, LocalsOK
    <3> QED BY <3>1, <3>2, CallsApart DEF RecordedFirst
  <2>2. CASE \E e \in executions, t \in Tokens : BeginRollback(c, e, t)
    <3>1. PICK e \in executions, t \in Tokens : BeginRollback(c, e, t)
      BY <2>2
    <3>2. executions' = executions
      BY <3>1 DEF BeginRollback, records
    <3>3. arg'[c].execution = e.id
      BY <3>1, LocalsOK DEF BeginRollback, LocalsOK, Argument
    <3>4. \A d \in Calls \ {c} : pc'[d] = pc[d] /\ arg'[d] = arg[d]
      BY <3>1, ControlOK, LocalsOK DEF BeginRollback, Goto, ControlOK, LocalsOK
    <3> QED BY <3>2, <3>3, <3>4, CallsApart DEF RecordedFirst
  <2> QED BY <1>1, <2>1, <2>2 DEF Begin
<1>2. ASSUME NEW c \in Calls, Step(c) PROVE RecordedFirst'
  BY <1>2, Frame, CallsApart, RecordedFirst DEF RecordedFirst
<1>3. CASE Tick \/ UNCHANGED vars
  BY <1>3, RecordedFirst DEF RecordedFirst, Tick, records, vars
<1>4. CASE Crash
  BY <1>4, CallsApart, RecordedFirst DEF RecordedFirst, Crash, records, Resting
<1> QED BY <1>1, <1>2, <1>3, <1>4 DEF Next

(* What a call is given at its start is an argument. *)
LEMMA ArgumentsGiven ==
  ASSUME LocalsOK, NEW c \in Calls, NEW p \in Plans, NEW t \in Tokens
  PROVE  /\ \A a \in Approvals :
              [arg EXCEPT ![c].plan = p, ![c].approval = a, ![c].token = t]
                \in [Calls -> Argument]
         /\ \A x \in Executions :
              [arg EXCEPT ![c].plan = p, ![c].execution = x, ![c].token = t]
                \in [Calls -> Argument]
<1> DEFINE planned == [arg EXCEPT ![c].plan = p]
<1>1. planned \in [Calls -> Argument]
  BY DEF LocalsOK, Argument
<1>2. ASSUME NEW given \in [Calls -> Argument]
      PROVE  [given EXCEPT ![c].token = t] \in [Calls -> Argument]
  BY DEF Argument
<1>3. ASSUME NEW a \in Approvals
      PROVE  [arg EXCEPT ![c].plan = p, ![c].approval = a, ![c].token = t]
               \in [Calls -> Argument]
  <2> DEFINE given == [planned EXCEPT ![c].approval = a]
  <2>1. given \in [Calls -> Argument]
    <3> HIDE DEF planned
    <3> QED BY <1>1 DEF Argument
  <2>2. [given EXCEPT ![c].token = t] \in [Calls -> Argument]
    <3> HIDE DEF given
    <3> QED BY <1>2, <2>1
  <2> QED BY <2>2
<1>4. ASSUME NEW x \in Executions
      PROVE  [arg EXCEPT ![c].plan = p, ![c].execution = x, ![c].token = t]
               \in [Calls -> Argument]
  <2> DEFINE given == [planned EXCEPT ![c].execution = x]
  <2>1. given \in [Calls -> Argument]
    <3> HIDE DEF planned
    <3> QED BY <1>1 DEF Argument
  <2>2. [given EXCEPT ![c].token = t] \in [Calls -> Argument]
    <3> HIDE DEF given
    <3> QED BY <1>2, <2>1
  <2> QED BY <2>2
<1> QED BY <1>3, <1>4

(* A step keeps the types. *)
LEMMA StepTyped == ASSUME Typed, [Next]_vars PROVE Typed'
<1> SUFFICES ASSUME RecordsOK, ControlOK, LocalsOK, WorldOK, Decided, RecordedFirst
             PROVE  TypeOK' /\ Decided'
  BY StepRecordedFirst DEF Typed, TypeOK
<1>1. ASSUME NEW c \in Calls, NEW p \in Plans, NEW a \in Approvals,
             NEW t \in Tokens, BeginExecution(c, p, a, t) PROVE TypeOK' /\ Decided'
  <2>1. ControlOK'
    BY <1>1, ControlOK
    DEF BeginExecution, Goto, ControlOK, progress, Places, Resting, Verdicts
  <2>2. LocalsOK'
    <3>1. arg' \in [Calls -> Argument]
      BY <1>1, LocalsOK, ArgumentsGiven DEF BeginExecution
    <3>2. now' \in [Calls -> Nat]
      BY <1>1, LocalsOK, WorldOK DEF BeginExecution, LocalsOK, WorldOK
    <3> QED BY <1>1, <3>1, <3>2, LocalsOK DEF BeginExecution, LocalsOK, progress
  <2>3. Decided'
    BY <1>1, Decided, ControlOK, CallsApart
    DEF BeginExecution, Goto, ControlOK, Decided, progress
  <2>4. RecordsOK' /\ WorldOK'
    BY <1>1, RecordsOK, WorldOK DEF BeginExecution, RecordsOK, records, WorldOK, world
  <2> QED BY <2>1, <2>2, <2>3, <2>4 DEF TypeOK
<1>2. ASSUME NEW c \in Calls, NEW e \in executions, NEW t \in Tokens, BeginRollback(c, e, t)
      PROVE  TypeOK' /\ Decided'
  <2>1. ControlOK'
    BY <1>2, ControlOK
    DEF BeginRollback, Goto, ControlOK, progress, Places, Resting, Verdicts
  <2>2. LocalsOK'
    <3>1. e.plan \in Plans /\ e.id \in Executions
      BY RecordsOK DEF RecordsOK, ExecutionRecord
    <3>2. arg' \in [Calls -> Argument]
      BY <1>2, <3>1, LocalsOK, ArgumentsGiven DEF BeginRollback
    <3> QED BY <1>2, <3>2, LocalsOK, WorldOK
    DEF BeginRollback, LocalsOK, WorldOK, progress
  <2>3. Decided'
    BY <1>2, Decided, ControlOK, CallsApart
    DEF BeginRollback, Goto, ControlOK, Decided, progress
  <2>4. RecordsOK' /\ WorldOK'
    BY <1>2, RecordsOK, WorldOK DEF BeginRollback, RecordsOK, records, WorldOK, world
  <2> QED BY <2>1, <2>2, <2>3, <2>4 DEF TypeOK
<1>3. ASSUME NEW c \in Calls, Token(c) PROVE TypeOK' /\ Decided'
  <2>1. RecordsOK'
    <3>1. arg[c].token \in Tokens
      BY LocalsOK DEF LocalsOK, Argument
    <3>2. WithToken(tokens, arg[c].token) \in Seq(Tokens)
      BY <3>1, RecordsOK, WithTokenType DEF RecordsOK
    <3> QED BY <1>3, <3>2, RecordsOK DEF Token, RecordsOK
  <2>2. ControlOK'
    BY <1>3, ControlOK DEF Token, Goto, ControlOK, progress, Places, Resting, Verdicts
  <2>3. WorldOK'
    <3>1. arg[c].token \in Tokens
      BY LocalsOK DEF LocalsOK, Argument
    <3> QED BY <1>3, <3>1, WorldOK DEF Token, WorldOK
  <2>4. Decided'
    BY <1>3, Decided, CallsApart, ControlOK
    DEF Token, Goto, ControlOK, Decided, progress
  <2>5. LocalsOK'
    BY <1>3, LocalsOK DEF Token, LocalsOK, progress
  <2> QED BY <2>1, <2>2, <2>3, <2>4, <2>5 DEF TypeOK
<1>4. ASSUME NEW c \in Calls, TokenExhausted(c) PROVE TypeOK' /\ Decided'
  <2>1. ControlOK'
    BY <1>4, ControlOK
    DEF TokenExhausted, Goto, ControlOK, progress, Places, Resting, Verdicts
  <2>2. WorldOK'
    BY <1>4, WorldOK DEF TokenExhausted, WorldOK, world, Exhaust
  <2>3. Decided'
    BY <1>4, Decided, ControlOK, CallsApart
    DEF TokenExhausted, Goto, ControlOK, Decided, progress
  <2>4. RecordsOK' /\ LocalsOK'
    BY <1>4, RecordsOK, LocalsOK
    DEF TokenExhausted, RecordsOK, records, LocalsOK, progress
  <2> QED BY <2>1, <2>2, <2>3, <2>4 DEF TypeOK
<1>5. ASSUME NEW c \in Calls, LoadPlan(c) PROVE TypeOK' /\ Decided'
  <2>1. ControlOK'
    BY <1>5, ControlOK
    DEF LoadPlan, Goto, ControlOK, progress, Places, Resting, Verdicts, Refuse
  <2>2. Decided'
    BY <1>5, Decided, CallsApart, ControlOK
    DEF LoadPlan, Goto, ControlOK, Decided, progress, Refuse
  <2>3. RecordsOK' /\ LocalsOK' /\ WorldOK'
    BY <1>5, RecordsOK, LocalsOK, WorldOK
    DEF LoadPlan, RecordsOK, records, LocalsOK, progress, WorldOK, world
  <2> QED BY <2>1, <2>2, <2>3 DEF TypeOK
<1>6. ASSUME NEW c \in Calls, LoadExecution(c) PROVE TypeOK' /\ Decided'
  <2>1. ControlOK'
    BY <1>6, ControlOK
    DEF LoadExecution, Goto, ControlOK, progress, Places, Resting, Verdicts
  <2>2. LocalsOK'
    <3> DEFINE e == CHOOSE r \in executions : r.id = arg[c].execution
    <3>1. e \in ExecutionRecord
      BY <1>6, RecordedFirst, RecordsOK, CallsApart
      DEF LoadExecution, RecordedFirst, RecordsOK
    <3>2. e.done \intersect Reversible[e.plan] \subseteq Nat
      BY <3>1 DEF ExecutionRecord
    <3> HIDE DEF e
    <3> QED BY <1>6, <3>2, LocalsOK DEF LoadExecution, LocalsOK, e
  <2>3. Decided'
    BY <1>6, Decided, ControlOK, CallsApart
    DEF LoadExecution, Goto, ControlOK, Decided, progress
  <2>4. RecordsOK' /\ WorldOK'
    BY <1>6, RecordsOK, WorldOK DEF LoadExecution, RecordsOK, records, WorldOK, world
  <2> QED BY <2>1, <2>2, <2>3, <2>4 DEF TypeOK
<1>7. ASSUME NEW c \in Calls, AcquireLock(c) PROVE TypeOK' /\ Decided'
  <2>1. RecordsOK'
    <3>1. PlanOf(c) \in Plans /\ now[c] \in Nat
      BY LocalsOK DEF LocalsOK, Argument, PlanOf
    <3>2. NewLock(c, PlanOf(c), now[c]) \in LockRecord
      BY <3>1, PlansAssumption, LeaseAssumption DEF NewLock, LockRecord
    <3> QED BY <1>7, <3>2, RecordsOK DEF AcquireLock, RecordsOK, WithLock
  <2>2. ControlOK'
    BY <1>7, ControlOK
    DEF AcquireLock, Goto, ControlOK, progress, Places, Resting, Verdicts
  <2>3. Decided'
    BY <1>7, Decided, CallsApart, ControlOK
    DEF AcquireLock, Goto, ControlOK, Decided, progress
  <2>4. LocalsOK' /\ WorldOK'
    BY <1>7, LocalsOK, WorldOK DEF AcquireLock, LocalsOK, progress, WorldOK, world
  <2> QED BY <2>1, <2>2, <2>3, <2>4 DEF TypeOK
<1>8. ASSUME NEW c \in Calls, LockRefused(c) PROVE TypeOK' /\ Decided'
  <2>1. ControlOK'
    BY <1>8, ControlOK
    DEF LockRefused, Goto, ControlOK, progress, Places, Resting, Verdicts, Refuse
  <2>2. WorldOK'
    BY <1>8, WorldOK DEF LockRefused, WorldOK, world, Exhaust
  <2>3. Decided'
    BY <1>8, Decided, CallsApart, ControlOK
    DEF LockRefused, Goto, ControlOK, Decided, progress, Refuse
  <2>4. RecordsOK' /\ LocalsOK'
    BY <1>8, RecordsOK, LocalsOK DEF LockRefused, RecordsOK, records, LocalsOK, progress
  <2> QED BY <2>1, <2>2, <2>3, <2>4 DEF TypeOK
<1>9. ASSUME NEW c \in Calls, Check(c) PROVE TypeOK' /\ Decided'
  <2>1. ControlOK'
    BY <1>9, ControlOK
    DEF Check, Goto, ControlOK, progress, Places, Resting, Verdicts, Block
  <2>2. Decided'
    BY <1>9, Decided, ControlOK, CallsApart
    DEF Check, Goto, ControlOK, Decided, progress, Block
  <2>3. RecordsOK' /\ LocalsOK' /\ WorldOK'
    BY <1>9, RecordsOK, LocalsOK, WorldOK
    DEF Check, RecordsOK, records, LocalsOK, progress, WorldOK, world
  <2> QED BY <2>1, <2>2, <2>3 DEF TypeOK
<1>10. ASSUME NEW c \in Calls, ExecuteStep(c) PROVE TypeOK' /\ Decided'
  <2>1. ControlOK'
    BY <1>10, ControlOK
    DEF ExecuteStep, Goto, ControlOK, progress, Places, Resting, Verdicts, StopAndUndo,
        Block
  <2>2. LocalsOK'
    BY <1>10, LocalsOK DEF ExecuteStep, Goto, LocalsOK, progress, StopAndUndo, Block
  <2>3. WorldOK'
    BY <1>10, WorldOK, LocalsOK, Decided, CallsApart
    DEF ExecuteStep, WorldOK, world, StopAndUndo, LocalsOK, Decided
  <2>4. Decided'
    BY <1>10, Decided, ControlOK, CallsApart
    DEF ExecuteStep, Goto, ControlOK, Decided, progress, StopAndUndo, Block
  <2>5. RecordsOK'
    BY <1>10, RecordsOK DEF ExecuteStep, RecordsOK, records
  <2> QED BY <2>1, <2>2, <2>3, <2>4, <2>5 DEF TypeOK
<1>11. ASSUME NEW c \in Calls, VerifyStep(c) PROVE TypeOK' /\ Decided'
  <2>1. ControlOK'
    BY <1>11, ControlOK
    DEF VerifyStep, Goto, ControlOK, progress, Places, Resting, Verdicts, StopAndUndo,
        Block
  <2>2. LocalsOK'
    BY <1>11, LocalsOK DEF VerifyStep, Goto, LocalsOK, progress, StopAndUndo, Block
  <2>3. Decided'
    BY <1>11, Decided, ControlOK, CallsApart
    DEF VerifyStep, Goto, ControlOK, Decided, progress, StopAndUndo, Block
  <2>4. RecordsOK' /\ WorldOK'
    BY <1>11, RecordsOK, WorldOK DEF VerifyStep, RecordsOK, records, WorldOK, world
  <2> QED BY <2>1, <2>2, <2>3, <2>4 DEF TypeOK
<1>12. ASSUME NEW c \in Calls, UndoStep(c) PROVE TypeOK' /\ Decided'
  <2>1. ControlOK'
    BY <1>12, ControlOK
    DEF UndoStep, Goto, ControlOK, progress, Places, Resting, Verdicts
  <2>2. LocalsOK'
    BY <1>12, LocalsOK DEF UndoStep, Goto, LocalsOK, progress, UndoOutcome, StillToUndo
  <2>3. WorldOK'
    BY <1>12, WorldOK DEF UndoStep, WorldOK, world
  <2>4. Decided'
    <3>1. \A d \in Calls \ {c} :
             pc'[d] = pc[d] /\ verdict'[d] = verdict[d] /\ undo'[d] = undo[d]
      BY <1>12, ControlOK, LocalsOK DEF UndoStep, Goto, ControlOK, LocalsOK
    <3>2. undo'[c] # "none"
      BY <1>12, LocalsOK DEF UndoStep, UndoOutcome, LocalsOK
    <3>3. pc'[c] \in {"undo", "record"}
      BY <1>12, ControlOK DEF UndoStep, Goto, ControlOK
    <3>4. verdict'[c] \in {verdict[c], "rolled_back", "rollback_failed"}
      BY <1>12, ControlOK DEF UndoStep, ControlOK
    <3>5. pc'[c] = "record" => verdict'[c] # "none"
      BY <1>12, ControlOK DEF UndoStep, ControlOK, Goto
    <3> QED BY <3>1, <3>2, <3>3, <3>4, <3>5, Decided, CallsApart DEF Decided
  <2>5. RecordsOK'
    BY <1>12, RecordsOK DEF UndoStep, RecordsOK, records
  <2> QED BY <2>1, <2>2, <2>3, <2>4, <2>5 DEF TypeOK
<1>13. ASSUME NEW c \in Calls, RecordExecution(c) PROVE TypeOK' /\ Decided'
  <2>1. RecordsOK'
    BY <1>13, RecordsOK, LocalsOK, ControlOK, Decided
    DEF RecordExecution, RecordsOK, records, LocalsOK, ControlOK, Decided, Verdicts,
        PlanOf, Record, UndoRecord, Subject, Argument, ExecutionRecord, RollbackRecord,
        ExecutionOutcomes, PlanStates
  <2>2. ControlOK'
    BY <1>13, ControlOK
    DEF RecordExecution, Goto, ControlOK, progress, Places, Resting, Verdicts, Leave
  <2>3. Decided'
    BY <1>13, Decided, ControlOK, CallsApart
    DEF RecordExecution, Goto, ControlOK, Decided, progress, Leave
  <2>4. LocalsOK' /\ WorldOK'
    BY <1>13, LocalsOK, WorldOK DEF RecordExecution, LocalsOK, progress, WorldOK, world
  <2> QED BY <2>1, <2>2, <2>3, <2>4 DEF TypeOK
<1>14. ASSUME NEW c \in Calls, RecordFails(c) PROVE TypeOK' /\ Decided'
  <2>1. ControlOK'
    BY <1>14, ControlOK
    DEF RecordFails, Goto, ControlOK, progress, Places, Resting, Verdicts, Leave, Block
  <2>2. LocalsOK'
    BY <1>14, LocalsOK DEF RecordFails, Goto, LocalsOK, progress, Block
  <2>3. WorldOK'
    BY <1>14, WorldOK DEF RecordFails, WorldOK, world, Exhaust
  <2>4. Decided'
    <3>1. c \notin Rollbacks
      BY <1>14, CallsApart DEF RecordFails
    <3>2. \A d \in Calls \ {c} :
             pc'[d] = pc[d] /\ verdict'[d] = verdict[d] /\ undo'[d] = undo[d]
      BY <1>14, ControlOK, LocalsOK
      DEF RecordFails, Leave, Block, Goto, ControlOK, LocalsOK
    <3>3. pc'[c] \in {"record", "block", "refuse"} => verdict'[c] # "none"
      BY <1>14, ControlOK DEF RecordFails, Leave, Block, Goto, ControlOK
    <3> QED BY <3>1, <3>2, <3>3, Decided, CallsApart DEF Decided
  <2>5. RecordsOK'
    BY <1>14, RecordsOK DEF RecordFails, RecordsOK, records
  <2> QED BY <2>1, <2>2, <2>3, <2>4, <2>5 DEF TypeOK
<1>15. ASSUME NEW c \in Calls, RecordRollback(c) PROVE TypeOK' /\ Decided'
  <2>1. RecordsOK'
    <3>1. c \in Rollbacks /\ c \in Calls /\ verdict[c] \in PlanStates
      BY <1>15, ControlOK, Decided, CallsApart
      DEF RecordRollback, ControlOK, Decided, Verdicts, PlanStates
    <3>2. UndoRecord(c) \in RollbackRecord
      <4>1. arg[c].execution \in Executions
        BY LocalsOK DEF LocalsOK, Argument
      <4>2. undo[c] \in {"succeeded", "failed"}
        BY <1>15, <3>1, LocalsOK, Decided DEF RecordRollback, LocalsOK, Decided
      <4> QED BY <3>1, <4>1, <4>2, CallsApart DEF UndoRecord, Subject, RollbackRecord
    <3> QED BY <1>15, <3>1, <3>2, RecordsOK DEF RecordRollback, RecordsOK
  <2>2. ControlOK'
    BY <1>15, ControlOK
    DEF RecordRollback, Goto, ControlOK, progress, Places, Resting, Verdicts, Leave
  <2>3. Decided'
    BY <1>15, Decided, ControlOK, CallsApart
    DEF RecordRollback, Goto, ControlOK, Decided, progress, Leave
  <2>4. LocalsOK' /\ WorldOK'
    BY <1>15, LocalsOK, WorldOK DEF RecordRollback, LocalsOK, progress, WorldOK, world
  <2> QED BY <2>1, <2>2, <2>3, <2>4 DEF TypeOK
<1>16. ASSUME NEW c \in Calls, RecordRollbackFails(c) PROVE TypeOK' /\ Decided'
  <2>1. ControlOK'
    BY <1>16, ControlOK
    DEF RecordRollbackFails, Goto, ControlOK, progress, Places, Resting, Verdicts, Leave
  <2>2. WorldOK'
    BY <1>16, WorldOK DEF RecordRollbackFails, WorldOK, world, Exhaust
  <2>3. Decided'
    BY <1>16, Decided, ControlOK, CallsApart
    DEF RecordRollbackFails, Goto, ControlOK, Decided, progress, Leave
  <2>4. RecordsOK' /\ LocalsOK'
    BY <1>16, RecordsOK, LocalsOK
    DEF RecordRollbackFails, RecordsOK, records, LocalsOK, progress
  <2> QED BY <2>1, <2>2, <2>3, <2>4 DEF TypeOK
<1>17. ASSUME NEW c \in Calls, Release(c) PROVE TypeOK' /\ Decided'
  <2>1. RecordsOK'
    BY <1>17, RecordsOK, ZenonT(40) DEF Release, RecordsOK, records, WithRelease, LockRecord
  <2>2. ControlOK'
    BY <1>17, ControlOK
    DEF Release, Goto, ControlOK, progress, Places, Resting, Verdicts
  <2>3. WorldOK'
    BY <1>17, WorldOK DEF Release, WorldOK, world, Exhaust
  <2>4. Decided'
    BY <1>17, Decided, ControlOK, CallsApart
    DEF Release, Goto, ControlOK, Decided, progress
  <2>5. LocalsOK'
    BY <1>17, LocalsOK DEF Release, LocalsOK, progress
  <2> QED BY <2>1, <2>2, <2>3, <2>4, <2>5 DEF TypeOK
<1>18. CASE Tick
  BY <1>18, RecordsOK, ControlOK, LocalsOK, WorldOK, Decided
  DEF Tick, TypeOK, RecordsOK, ControlOK, LocalsOK, WorldOK, Decided, records, progress
<1>19. CASE Crash
  <2>1. ControlOK'
    BY <1>19, ControlOK DEF Crash, ControlOK, Places, Resting, progress
  <2>2. Decided'
    BY <1>19, ControlOK, Decided, CallsApart
    DEF Crash, ControlOK, Decided, progress, Resting
  <2>3. RecordsOK' /\ LocalsOK' /\ WorldOK'
    BY <1>19, RecordsOK, LocalsOK, WorldOK
    DEF Crash, RecordsOK, LocalsOK, WorldOK, records, progress
  <2> QED BY <2>1, <2>2, <2>3 DEF TypeOK
<1>20. CASE UNCHANGED vars
  BY <1>20, RecordsOK, ControlOK, LocalsOK, WorldOK, Decided
  DEF vars, TypeOK, RecordsOK, ControlOK, LocalsOK, WorldOK, Decided, records, progress, world
<1> QED
  BY <1>1, <1>2, <1>3, <1>4, <1>5, <1>6, <1>7, <1>8, <1>9, <1>10, <1>11, <1>12, <1>13,
     <1>14, <1>15, <1>16, <1>17, <1>18, <1>19, <1>20
  DEF Next, Begin, Step

(* The types hold in every behaviour. *)
LEMMA Typing == Spec => []Typed
  BY InitTyped, StepTyped, PTL DEF Spec

(* The document, the calls and the world have their types, whatever the order of
   the calls, the crashes and the failures. *)
THEOREM TypeCorrect == Spec => []TypeOK
  BY Typing, PTL DEF Typed

-----------------------------------------------------------------------------
(* Leases.  A call that works has its lock in the document, unless the lease
   of the lock has run out: only then may another call have dropped it.     *)

ClockLeads == \A c \in Calls : now[c] <= clock

HoldsLock ==
  \A c \in Calls : Working(c) =>
    NewLock(c, PlanOf(c), now[c]) \in locks \/ LeaseEnd(c) <= clock

LeaseInv == ClockLeads /\ HoldsLock /\ LeaseExclusion

(* Nobody works at first. *)
LEMMA InitLease == Init => LeaseInv
  BY DEF Init, LocalInit, LeaseInv, ClockLeads, HoldsLock, LeaseExclusion, Working

(* The clock is never behind the time a call was made at. *)
LEMMA StepClock ==
  ASSUME Typed, ClockLeads, [Next]_vars PROVE ClockLeads'
<1>0. ControlOK /\ LocalsOK /\ WorldOK
  BY DEF Typed, TypeOK
<1>1. ASSUME NEW c \in Calls, Begin(c) PROVE ClockLeads'
  <2>1. now' = [now EXCEPT ![c] = clock] /\ clock' = clock
    BY <1>1 DEF Begin, BeginExecution, BeginRollback, world
  <2> QED BY <1>0, <2>1 DEF ClockLeads, LocalsOK, WorldOK
<1>2. ASSUME NEW c \in Calls, Step(c) PROVE ClockLeads'
  BY <1>0, <1>2, Frame DEF ClockLeads
<1>3. CASE Tick
  BY <1>0, <1>3 DEF Tick, ClockLeads, LocalsOK, WorldOK
<1>4. CASE Crash \/ UNCHANGED vars
  BY <1>4 DEF Crash, vars, world, ClockLeads
<1> QED BY <1>1, <1>2, <1>3, <1>4 DEF Next

(* A step that takes no lock keeps the locks of all that still work. *)
LEMMA LeaseKept ==
  ASSUME LeaseInv, LocalsOK, clock \in Nat, clock' \in Nat, clock <= clock',
         \A c \in Calls : Working(c)' =>
           /\ Working(c) /\ arg'[c] = arg[c] /\ now'[c] = now[c]
           /\ NewLock(c, PlanOf(c), now[c]) \in locks => NewLock(c, PlanOf(c), now[c]) \in locks'
  PROVE  HoldsLock' /\ LeaseExclusion'
<1>1. \A c \in Calls : Working(c)' =>
        /\ PlanOf(c)' = PlanOf(c) /\ LeaseEnd(c)' = LeaseEnd(c)
        /\ NewLock(c, PlanOf(c), now[c])' = NewLock(c, PlanOf(c), now[c])
  BY DEF PlanOf, LeaseEnd, NewLock
<1>2. \A c \in Calls : LeaseEnd(c) \in Nat
  BY LeaseAssumption DEF LeaseEnd, LocalsOK
<1>3. HoldsLock'
  BY <1>1, <1>2 DEF LeaseInv, HoldsLock
<1>4. LeaseExclusion'
  BY <1>1, <1>2 DEF LeaseInv, LeaseExclusion, SameWork
<1> QED BY <1>3, <1>4

(* Taking the lock: who is displaced has run out of lease, and so has everybody    else
     who works on the same plan or target. *)
LEMMA LeaseAcquired ==
  ASSUME Typed, LeaseInv, NEW c \in Calls, AcquireLock(c)
  PROVE  HoldsLock' /\ LeaseExclusion'
<1>0. RecordsOK /\ ControlOK /\ LocalsOK /\ WorldOK
  BY DEF Typed, TypeOK
<1>1. /\ locks' = WithLock(locks, c, PlanOf(c), now[c])
      /\ ~LockConflict(locks, PlanOf(c), now[c])
      /\ UNCHANGED <<arg, now, clock>>
  BY DEF AcquireLock, world
<1>2. \A d \in Calls \ {c} : Working(d)' <=> Working(d)
  BY <1>0 DEF AcquireLock, Goto, ControlOK, Working
<1>3. \A d \in Calls : /\ LeaseEnd(d) \in Nat /\ PlanOf(d) \in Plans
                      /\ now[d] \in Nat /\ now[d] <= clock
  BY <1>0, LeaseAssumption
  DEF LeaseEnd, LocalsOK, PlanOf, Argument, LeaseInv, ClockLeads
<1>4. \A d \in Calls : /\ PlanOf(d)' = PlanOf(d) /\ LeaseEnd(d)' = LeaseEnd(d)
                      /\ NewLock(d, PlanOf(d), now[d])' = NewLock(d, PlanOf(d), now[d])
  BY <1>1 DEF PlanOf, LeaseEnd, NewLock
(* What the new lock displaces has expired. *)
<1>5. ASSUME NEW d \in Calls, Working(d), ~(LeaseEnd(d) <= clock)
      PROVE  /\ NewLock(d, PlanOf(d), now[d]) \in locks
             /\ HeldAt(NewLock(d, PlanOf(d), now[d]), now[c])
  <2>1. NewLock(d, PlanOf(d), now[d]) \in locks
    BY <1>5 DEF LeaseInv, HoldsLock
  <2>2. now[c] < now[d] + Lease
    BY <1>0, <1>3, <1>5, LeaseAssumption DEF LeaseEnd, WorldOK
  <2> QED BY <2>1, <2>2 DEF HeldAt, NewLock
<1>6. HoldsLock'
  <2>1. NewLock(c, PlanOf(c), now[c]) \in locks'
    BY <1>1 DEF WithLock
  <2>2. ASSUME NEW d \in Calls, Working(d)', ~(LeaseEnd(d) <= clock), d # c
        PROVE  NewLock(d, PlanOf(d), now[d]) \in locks'
    BY <1>1, <1>2, <1>5, <2>2 DEF WithLock
  <2> QED BY <1>1, <1>4, <2>1, <2>2 DEF HoldsLock
<1>7. ASSUME NEW d \in Calls, d # c, Working(d), SameWork(c, d) \/ SameWork(d, c)
      PROVE  LeaseEnd(d) <= clock
  <2>1. SameObject(NewLock(d, PlanOf(d), now[d]), PlanOf(c))
    BY <1>7 DEF SameWork, SameObject, NewLock
  <2> QED BY <1>1, <1>5, <1>7, <2>1 DEF LockConflict
<1>8. LeaseExclusion'
  <2> SUFFICES ASSUME NEW d \in Calls, NEW e \in Calls, d # e, Working(d)', Working(e)',
                      SameWork(d, e)'
               PROVE  LeaseEnd(d) <= clock \/ LeaseEnd(e) <= clock
    BY <1>1, <1>4 DEF LeaseExclusion
  <2>1. SameWork(d, e)
    BY <1>4 DEF SameWork
  <2>2. CASE d = c
    BY <1>2, <1>7, <2>1, <2>2
  <2>3. CASE e = c
    BY <1>2, <1>7, <2>1, <2>3
  <2>4. CASE d # c /\ e # c
    BY <1>2, <2>1, <2>4 DEF LeaseInv, LeaseExclusion
  <2> QED BY <2>2, <2>3, <2>4
<1> QED BY <1>6, <1>8

(* A released lock is not one of another call. *)
LEMMA LeaseReleased ==
  ASSUME Typed, LeaseInv, NEW c \in Calls, Release(c)
  PROVE  HoldsLock' /\ LeaseExclusion'
<1>0. ControlOK /\ LocalsOK /\ WorldOK
  BY DEF Typed, TypeOK
<1>1. UNCHANGED <<arg, now, clock>>
  BY DEF Release
<1>2. ~Working(c)' /\ \A d \in Calls \ {c} : Working(d)' <=> Working(d)
  BY <1>0 DEF Release, Goto, ControlOK, Working
<1>3. ASSUME NEW d \in Calls, d # c, NewLock(d, PlanOf(d), now[d]) \in locks
      PROVE  NewLock(d, PlanOf(d), now[d]) \in locks'
  <2>1. NewLock(d, PlanOf(d), now[d]).owner = d
    BY DEF NewLock
  <2> QED BY <1>3, <2>1 DEF Release, WithRelease
<1> QED BY <1>0, <1>1, <1>2, <1>3, LeaseKept DEF WorldOK

(* Nobody starts to work without taking the lock. *)
LEMMA WorkNeedsLock ==
  ASSUME ControlOK, NEW c \in Calls, Step(c), ~AcquireLock(c), ~Release(c)
  PROVE  locks' = locks /\ (Working(c)' => Working(c))
<1> USE DEF Working, records
<1>0. pc \in [Calls -> Places]
  BY DEF ControlOK
<1>1. CASE Token(c)
  BY <1>0, <1>1 DEF Token, Goto
<1>2. CASE TokenExhausted(c)
  BY <1>0, <1>2 DEF TokenExhausted, Goto
<1>3. CASE LoadPlan(c)
  BY <1>0, <1>3 DEF LoadPlan, Goto, Refuse
<1>4. CASE LoadExecution(c)
  BY <1>0, <1>4 DEF LoadExecution, Goto
<1>5. CASE LockRefused(c)
  BY <1>0, <1>5 DEF LockRefused, Goto, Refuse
<1>6. CASE Check(c)
  BY <1>0, <1>6 DEF Check
<1>7. CASE ExecuteStep(c)
  BY <1>0, <1>7 DEF ExecuteStep
<1>8. CASE VerifyStep(c)
  BY <1>0, <1>8 DEF VerifyStep
<1>9. CASE UndoStep(c)
  BY <1>0, <1>9 DEF UndoStep
<1>10. CASE RecordExecution(c)
  BY <1>0, <1>10 DEF RecordExecution, Goto, Leave
<1>11. CASE RecordFails(c)
  BY <1>0, <1>11 DEF RecordFails, Goto, Leave, Block
<1>12. CASE RecordRollback(c)
  BY <1>0, <1>12 DEF RecordRollback
<1>13. CASE RecordRollbackFails(c)
  BY <1>0, <1>13 DEF RecordRollbackFails
<1> QED
  BY <1>1, <1>2, <1>3, <1>4, <1>5, <1>6, <1>7, <1>8, <1>9, <1>10, <1>11, <1>12, <1>13
  DEF Step

(* Every step keeps the invariant of the leases. *)
LEMMA StepLease == ASSUME Typed, LeaseInv, [Next]_vars PROVE LeaseInv'
<1>0. ControlOK /\ LocalsOK /\ WorldOK
  BY DEF Typed, TypeOK
<1>1. ClockLeads'
  BY StepClock DEF LeaseInv
<1>2. ASSUME NEW c \in Calls, Begin(c) PROVE HoldsLock' /\ LeaseExclusion'
  <2>1. clock' = clock /\ locks' = locks
    BY <1>2 DEF Begin, BeginExecution, BeginRollback, world, records
  <2>2. ~Working(c)'
    BY <1>0, <1>2 DEF Begin, BeginExecution, BeginRollback, Goto, ControlOK, Working
  <2>3. \A d \in Calls \ {c} : pc'[d] = pc[d] /\ arg'[d] = arg[d] /\ now'[d] = now[d]
    BY <1>0, <1>2 DEF Begin, BeginExecution, BeginRollback, Goto, ControlOK, LocalsOK
  <2> QED BY <1>0, <2>1, <2>2, <2>3, LeaseKept DEF WorldOK, Working
<1>3. ASSUME NEW c \in Calls, Step(c) PROVE HoldsLock' /\ LeaseExclusion'
  <2>1. CASE AcquireLock(c)
    BY <2>1, LeaseAcquired
  <2>2. CASE Release(c)
    BY <2>2, LeaseReleased
  <2>3. CASE ~AcquireLock(c) /\ ~Release(c)
    BY <1>0, <1>3, <2>3, Frame, WorkNeedsLock, LeaseKept DEF WorldOK, Working
  <2> QED BY <2>1, <2>2, <2>3
<1>4. CASE Tick
  <2>1. UNCHANGED <<pc, arg, now, locks>> /\ clock' = clock + 1
    BY <1>4 DEF Tick, records
  <2>2. \A d \in Calls : Working(d)' =>
           /\ Working(d) /\ arg'[d] = arg[d] /\ now'[d] = now[d]
           /\ NewLock(d, PlanOf(d), now[d]) \in locks => NewLock(d, PlanOf(d), now[d]) \in locks'
    BY <2>1 DEF Working
  <2>3. clock \in Nat /\ clock' \in Nat /\ clock <= clock'
    BY <1>0, <2>1 DEF WorldOK
  <2> QED BY <1>0, <1>1, <2>2, <2>3, LeaseKept DEF LeaseInv
<1>5. CASE Crash
  <2>1. UNCHANGED <<arg, now, locks, clock>>
    BY <1>5 DEF Crash, records
  <2>2. \A d \in Calls : Working(d)' => Working(d)
    BY <1>5 DEF Crash, Working, Resting
  <2>3. \A d \in Calls : Working(d)' =>
           /\ Working(d) /\ arg'[d] = arg[d] /\ now'[d] = now[d]
           /\ NewLock(d, PlanOf(d), now[d]) \in locks => NewLock(d, PlanOf(d), now[d]) \in locks'
    BY <2>1, <2>2
  <2>4. clock \in Nat /\ clock' \in Nat /\ clock <= clock'
    BY <1>0, <2>1 DEF WorldOK
  <2> QED BY <1>0, <1>1, <2>3, <2>4, LeaseKept DEF LeaseInv
<1>6. CASE UNCHANGED vars
  <2>1. UNCHANGED <<pc, arg, now, locks, clock>>
    BY <1>6 DEF vars, records, world
  <2>2. \A d \in Calls : Working(d)' =>
           /\ Working(d) /\ arg'[d] = arg[d] /\ now'[d] = now[d]
           /\ NewLock(d, PlanOf(d), now[d]) \in locks => NewLock(d, PlanOf(d), now[d]) \in locks'
    BY <2>1 DEF Working
  <2>3. clock \in Nat /\ clock' \in Nat /\ clock <= clock'
    BY <1>0, <2>1 DEF WorldOK
  <2> QED BY <1>0, <1>1, <2>2, <2>3, LeaseKept DEF LeaseInv
<1> QED BY <1>1, <1>2, <1>3, <1>4, <1>5, <1>6 DEF Next, LeaseInv

(* Two calls work on one plan or one target only after the lease of one of
   them has run out, for any lease, any number of calls and any crashes: what
   the persisted lock of locks.py guarantees, and all that it guarantees. *)
THEOREM LeasesExclude == Spec => []LeaseExclusion
<1>1. Init => LeaseInv
  BY InitLease
<1>2. Typed /\ LeaseInv /\ [Next]_vars => LeaseInv'
  BY StepLease
<1> QED BY <1>1, <1>2, Typing, PTL DEF Spec, LeaseInv

-----------------------------------------------------------------------------
(* Rollbacks.  An execution is recorded by its own call, once, and a rollback
   is recorded for a recorded execution.                                    *)

(* A call whose execution is recorded has left the places that record it. *)
Unrecorded ==
  \A c \in Executions :
    pc[c] \notin Resting \union {"release"} \/ pc[c] = "idle" =>
      \A e \in executions : e.id # c

RollbackOfRecorded ==
  \A r \in rollbacks : \E e \in executions : e.id = r.execution

RollbackInv == Unrecorded /\ RollbackOfRecorded /\ SingleRollback

(* Nothing is recorded at first. *)
LEMMA InitRollback == Init => RollbackInv
  BY DEF Init, RollbackInv, Unrecorded, RollbackOfRecorded, SingleRollback

(* The records stay as they are, and nobody goes back to where they are written. *)
LEMMA RollbackKept ==
  ASSUME RollbackInv, UNCHANGED <<executions, rollbacks>>,
         \A c \in Executions :
           pc'[c] \notin Resting \union {"release"} \/ pc'[c] = "idle" =>
             pc[c] \notin Resting \union {"release"} \/ pc[c] = "idle"
  PROVE  RollbackInv'
  BY DEF RollbackInv, Unrecorded, RollbackOfRecorded, SingleRollback

(* A first record of an execution may bring its automatic rollback. *)
LEMMA RollbackByExecution ==
  ASSUME Typed, RollbackInv, NEW c \in Calls, RecordExecution(c)
  PROVE  RollbackInv'
<1>0. ControlOK /\ LocalsOK
  BY DEF Typed, TypeOK
<1>1. /\ c \in Executions
      /\ \A e \in executions : e.id # c
  BY DEF RecordExecution, RollbackInv, Unrecorded, Resting
<1>2. executions' = executions \union {Record(c)} /\ Record(c).id = c
  BY DEF RecordExecution, Record
<1>3. rollbacks' \in {rollbacks, rollbacks \union {UndoRecord(c)}}
      /\ UndoRecord(c).execution = c
  BY <1>1 DEF RecordExecution, UndoRecord, Subject
<1>4. Unrecorded'
  <2>1. pc'[c] \in {"returned", "release"}
    BY <1>0 DEF RecordExecution, Leave, Goto, ControlOK
  <2>2. \A d \in Calls \ {c} : pc'[d] = pc[d]
    BY <1>0, Frame DEF Step
  <2> QED BY <1>2, <2>1, <2>2, CallsApart DEF RollbackInv, Unrecorded, Resting
<1>5. RollbackOfRecorded'
  BY <1>2, <1>3 DEF RollbackInv, RollbackOfRecorded
<1>6. SingleRollback'
  <2>1. \A r \in rollbacks : r.execution # c
    BY <1>1 DEF RollbackInv, RollbackOfRecorded
  <2> QED BY <1>3, <2>1 DEF RollbackInv, SingleRollback
<1> QED BY <1>4, <1>5, <1>6 DEF RollbackInv

(* A requested rollback is recorded if the execution has none. *)
LEMMA RollbackByRequest ==
  ASSUME Typed, RollbackInv, NEW c \in Calls, RecordRollback(c)
  PROVE  RollbackInv'
<1>0. ControlOK /\ LocalsOK
  BY DEF Typed, TypeOK
<1>1. /\ c \in Rollbacks
      /\ executions' = executions
      /\ rollbacks' = rollbacks \union {UndoRecord(c)}
      /\ \A r \in rollbacks : r.execution # arg[c].execution
  BY DEF RecordRollback, UndoRefused, RolledBack
<1>2. UndoRecord(c).execution = arg[c].execution
  BY <1>1, CallsApart DEF UndoRecord, Subject
<1>3. Unrecorded'
  <2>1. \A d \in Executions : pc'[d] = pc[d]
    BY <1>0, <1>1, Frame, CallsApart DEF Step
  <2> QED BY <1>1, <2>1 DEF RollbackInv, Unrecorded
<1>4. RollbackOfRecorded'
  <2>1. \E e \in executions : e.id = arg[c].execution
    BY <1>1 DEF RecordRollback, Typed, RecordedFirst
  <2> QED BY <1>1, <1>2, <2>1 DEF RollbackInv, RollbackOfRecorded
<1>5. SingleRollback'
  BY <1>1, <1>2 DEF RollbackInv, SingleRollback
<1> QED BY <1>3, <1>4, <1>5 DEF RollbackInv

(* The other steps of a call record nothing and lead to no place before. *)
LEMMA NothingRecorded ==
  ASSUME ControlOK, NEW c \in Calls, Step(c), ~RecordExecution(c), ~RecordRollback(c)
  PROVE  /\ UNCHANGED <<executions, rollbacks>>
         /\ pc[c] \in Resting \union {"release"} => pc'[c] \in Resting \ {"idle"}
<1> USE DEF records
<1>0. pc \in [Calls -> Places] /\ ending \in [Calls -> {"returned", "rejected", "raised"}]
  BY DEF ControlOK
<1>1. CASE Token(c)
  BY <1>0, <1>1 DEF Token, Resting
<1>2. CASE TokenExhausted(c)
  BY <1>0, <1>2 DEF TokenExhausted, Resting
<1>3. CASE LoadPlan(c)
  BY <1>0, <1>3 DEF LoadPlan, Resting
<1>4. CASE LoadExecution(c)
  BY <1>0, <1>4 DEF LoadExecution, Resting
<1>5. CASE AcquireLock(c)
  BY <1>0, <1>5 DEF AcquireLock, Resting
<1>6. CASE LockRefused(c)
  BY <1>0, <1>6 DEF LockRefused, Resting
<1>7. CASE Check(c)
  BY <1>0, <1>7 DEF Check, Resting
<1>8. CASE ExecuteStep(c)
  BY <1>0, <1>8 DEF ExecuteStep, Resting
<1>9. CASE VerifyStep(c)
  BY <1>0, <1>9 DEF VerifyStep, Resting
<1>10. CASE UndoStep(c)
  BY <1>0, <1>10 DEF UndoStep, Resting
<1>11. CASE RecordFails(c)
  BY <1>0, <1>11 DEF RecordFails, Resting
<1>12. CASE RecordRollbackFails(c)
  BY <1>0, <1>12 DEF RecordRollbackFails, Resting
<1>13. CASE Release(c)
  BY <1>0, <1>13 DEF Release, Resting, Goto
<1> QED
  BY <1>1, <1>2, <1>3, <1>4, <1>5, <1>6, <1>7, <1>8, <1>9, <1>10, <1>11, <1>12, <1>13
  DEF Step

(* Every step keeps the invariant of the rollbacks. *)
LEMMA StepRollback == ASSUME Typed, RollbackInv, [Next]_vars PROVE RollbackInv'
<1>0. ControlOK
  BY DEF Typed, TypeOK
<1>1. ASSUME NEW c \in Calls, Begin(c) PROVE RollbackInv'
  <2>1. UNCHANGED <<executions, rollbacks>> /\ pc[c] = "idle"
    BY <1>1 DEF Begin, BeginExecution, BeginRollback, records
  <2>2. \A d \in Calls \ {c} : pc'[d] = pc[d]
    BY <1>0, <1>1 DEF Begin, BeginExecution, BeginRollback, Goto, ControlOK
  <2> QED BY <2>1, <2>2, RollbackKept, CallsApart
<1>2. ASSUME NEW c \in Calls, Step(c) PROVE RollbackInv'
  <2>1. CASE RecordExecution(c)
    BY <2>1, RollbackByExecution
  <2>2. CASE RecordRollback(c)
    BY <2>2, RollbackByRequest
  <2>3. CASE ~RecordExecution(c) /\ ~RecordRollback(c)
    <3>1. UNCHANGED <<executions, rollbacks>>
      BY <1>0, <1>2, <2>3, NothingRecorded
    <3>2. pc[c] \in Resting \union {"release"} => pc'[c] \in Resting \ {"idle"}
      BY <1>0, <1>2, <2>3, NothingRecorded
    <3>3. \A d \in Calls \ {c} : pc'[d] = pc[d]
      BY <1>0, <1>2, Frame
    <3> QED BY <3>1, <3>2, <3>3, RollbackKept, CallsApart
  <2> QED BY <2>1, <2>2, <2>3
<1>3. CASE Tick \/ UNCHANGED vars
  BY <1>3, RollbackKept DEF Tick, vars, records
<1>4. CASE Crash
  <2>1. UNCHANGED <<executions, rollbacks>>
    BY <1>4 DEF Crash, records
  <2>2. \A d \in Calls : pc'[d] = pc[d] \/ pc'[d] = "lost"
    BY <1>4 DEF Crash
  <2> QED BY <2>1, <2>2, RollbackKept, CallsApart DEF Resting
<1> QED BY <1>1, <1>2, <1>3, <1>4 DEF Next

(* An execution has at most one rollback on record, however many requests to
   reverse it overlap, expire, fail or are lost. *)
THEOREM RollbacksAreSingle == Spec => []SingleRollback
<1>1. Init => RollbackInv
  BY InitRollback
<1>2. Typed /\ RollbackInv /\ [Next]_vars => RollbackInv'
  BY StepRollback
<1> QED BY <1>1, <1>2, Typing, PTL DEF Spec, RollbackInv

-----------------------------------------------------------------------------
(* Answers.  Whether an execution is recorded is decided when the call leaves
   the place that records it, and the answer carried past the release of the
   lock is the same.                                                        *)

SingleRecord == \A e, f \in executions : e.id = f.id => e = f

Answered(c, how) == pc[c] = how \/ (pc[c] = "release" /\ ending[c] = how)

AnswerIsTrue ==
  \A c \in Executions :
    /\ Answered(c, "returned") => \E e \in executions : e.id = c
    /\ Answered(c, "raised") => \A e \in executions : e.id # c

AnswerInv == Unrecorded /\ SingleRecord /\ AnswerIsTrue

(* Nobody has an answer at first. *)
LEMMA InitAnswer == Init => AnswerInv
  BY DEF Init, LocalInit, AnswerInv, Unrecorded, SingleRecord, AnswerIsTrue, Answered, Calls

(* Whoever records or fails to record comes from a place where nothing of it is
   recorded yet. *)
LEMMA AnswerByRecord ==
  ASSUME Typed, AnswerInv, NEW c \in Calls, RecordExecution(c)
  PROVE  AnswerInv'
<1>0. ControlOK
  BY DEF Typed, TypeOK
<1>1. c \in Executions /\ \A e \in executions : e.id # c
  BY DEF RecordExecution, AnswerInv, Unrecorded, Resting
<1>2. executions' = executions \union {Record(c)} /\ Record(c).id = c
  BY DEF RecordExecution, Record
<1>3. Answered(c, "returned")' /\ ~Answered(c, "raised")'
  BY <1>0 DEF RecordExecution, Leave, Goto, ControlOK, Answered, progress
<1>4. \A d \in Calls \ {c} : pc'[d] = pc[d] /\ ending'[d] = ending[d]
  BY <1>0 DEF RecordExecution, Leave, Goto, ControlOK
<1>5. pc'[c] \in {"returned", "release"}
  BY <1>0 DEF RecordExecution, Leave, Goto, ControlOK
<1>6. Unrecorded'
  BY <1>2, <1>4, <1>5, CallsApart DEF AnswerInv, Unrecorded, Resting
<1>7. SingleRecord'
  BY <1>1, <1>2 DEF AnswerInv, SingleRecord
<1>8. AnswerIsTrue'
  BY <1>2, <1>3, <1>4, CallsApart DEF AnswerInv, AnswerIsTrue, Answered
<1> QED BY <1>6, <1>7, <1>8 DEF AnswerInv

(* The steps after the recording keep the answer; those before give none. *)
LEMMA AnswerKept ==
  ASSUME ControlOK, NEW c \in Calls, Step(c), ~RecordExecution(c)
  PROVE  /\ executions' = executions
         /\ \A d \in Calls \ {c} : pc'[d] = pc[d] /\ ending'[d] = ending[d]
         /\ pc[c] \in Resting \union {"release"} => pc'[c] \in Resting \ {"idle"}
         /\ c \in Executions /\ Answered(c, "returned")' => Answered(c, "returned")
         /\ c \in Executions /\ Answered(c, "raised")' =>
              Answered(c, "raised") \/ pc[c] \notin Resting \union {"release"}
<1> USE CallsApart DEF records, progress, Answered
<1>0. pc \in [Calls -> Places] /\ ending \in [Calls -> {"returned", "rejected", "raised"}]
  BY DEF ControlOK
<1>1. CASE Token(c)
  BY <1>0, <1>1 DEF Token, Resting, Goto
<1>2. CASE TokenExhausted(c)
  BY <1>0, <1>2 DEF TokenExhausted, Resting, Goto
<1>3. CASE LoadPlan(c)
  BY <1>0, <1>3 DEF LoadPlan, Resting, Goto, Refuse
<1>4. CASE LoadExecution(c)
  BY <1>0, <1>4 DEF LoadExecution, Resting, Goto
<1>5. CASE AcquireLock(c)
  BY <1>0, <1>5 DEF AcquireLock, Resting, Goto
<1>6. CASE LockRefused(c)
  BY <1>0, <1>6 DEF LockRefused, Resting, Goto, Refuse
<1>7. CASE Check(c)
  BY <1>0, <1>7 DEF Check, Resting, Goto, Block
<1>8. CASE ExecuteStep(c)
  BY <1>0, <1>8 DEF ExecuteStep, Resting, Goto, StopAndUndo, Block
<1>9. CASE VerifyStep(c)
  BY <1>0, <1>9 DEF VerifyStep, Resting, Goto, StopAndUndo, Block
<1>10. CASE UndoStep(c)
  BY <1>0, <1>10 DEF UndoStep, Resting, Goto
<1>11. CASE RecordFails(c)
  BY <1>0, <1>11 DEF RecordFails, Resting, Goto, Leave, Block
<1>12. CASE RecordRollback(c)
  BY <1>0, <1>12 DEF RecordRollback, Resting, Goto, Leave
<1>13. CASE RecordRollbackFails(c)
  BY <1>0, <1>13 DEF RecordRollbackFails, Resting, Goto, Leave
<1>14. CASE Release(c)
  BY <1>0, <1>14 DEF Release, Resting, Goto
<1> QED
  BY <1>1, <1>2, <1>3, <1>4, <1>5, <1>6, <1>7, <1>8, <1>9, <1>10, <1>11, <1>12, <1>13,
     <1>14
  DEF Step

(* Every step keeps the invariant of the answers. *)
LEMMA StepAnswer == ASSUME Typed, AnswerInv, [Next]_vars PROVE AnswerInv'
<1>0. ControlOK
  BY DEF Typed, TypeOK
<1>1. ASSUME NEW c \in Calls, Begin(c) PROVE AnswerInv'
  <2>1. executions' = executions /\ ending' = ending /\ pc[c] = "idle"
    BY <1>1 DEF Begin, BeginExecution, BeginRollback, records, progress
  <2>2. pc'[c] \in {"token", "load"} /\ \A d \in Calls \ {c} : pc'[d] = pc[d]
    BY <1>0, <1>1 DEF Begin, BeginExecution, BeginRollback, Goto, ControlOK
  <2> QED BY <2>1, <2>2, CallsApart
          DEF AnswerInv, Unrecorded, SingleRecord, AnswerIsTrue, Answered, Resting
<1>2. ASSUME NEW c \in Calls, Step(c) PROVE AnswerInv'
  <2>1. CASE RecordExecution(c)
    BY <2>1, AnswerByRecord
  <2>2. CASE ~RecordExecution(c)
    <3>1. executions' = executions
      BY <1>0, <1>2, <2>2, AnswerKept
    <3>2. \A d \in Calls \ {c} : pc'[d] = pc[d] /\ ending'[d] = ending[d]
      BY <1>0, <1>2, <2>2, AnswerKept
    <3>3. Unrecorded' /\ SingleRecord'
      <4>1. pc[c] \in Resting \union {"release"} => pc'[c] \in Resting \ {"idle"}
        BY <1>0, <1>2, <2>2, AnswerKept
      <4>2. pc[c] # "idle" /\ pc'[c] # "idle"
        BY <1>0, <1>2, Frame
      <4> QED BY <3>1, <3>2, <4>1, <4>2, CallsApart
      DEF AnswerInv, Unrecorded, SingleRecord
    <3>4. AnswerIsTrue'
      <4>1. c \in Executions /\ Answered(c, "returned")' => Answered(c, "returned")
        BY <1>0, <1>2, <2>2, AnswerKept
      <4>2. c \in Executions /\ Answered(c, "raised")' => \A e \in executions : e.id # c
        BY <1>0, <1>2, <2>2, AnswerKept DEF AnswerInv, AnswerIsTrue, Unrecorded
      <4> QED BY <3>1, <3>2, <4>1, <4>2, CallsApart
      DEF AnswerInv, AnswerIsTrue, Answered
    <3> QED BY <3>3, <3>4 DEF AnswerInv
  <2> QED BY <2>1, <2>2
<1>3. CASE Tick \/ UNCHANGED vars
  BY <1>3
  DEF Tick, vars, records, progress, AnswerInv, Unrecorded, SingleRecord, AnswerIsTrue,
              Answered
<1>4. CASE Crash
  <2>1. UNCHANGED <<executions, ending>>
    BY <1>4 DEF Crash, records, progress
  <2>2. \A d \in Calls : pc'[d] = "lost" \/ (pc'[d] = pc[d] /\ pc[d] \in Resting)
    BY <1>4 DEF Crash
  <2> QED BY <2>1, <2>2, CallsApart
          DEF AnswerInv, Unrecorded, SingleRecord, AnswerIsTrue, Answered, Resting
<1> QED BY <1>1, <1>2, <1>3, <1>4 DEF Next

(* A caller that gets an execution record finds exactly that record in the
   document, and one that gets an exception finds none. *)
THEOREM AnswersAreRecorded == Spec => []ReturnedIsRecorded
<1>1. Init => AnswerInv
  BY InitAnswer
<1>2. Typed /\ AnswerInv /\ [Next]_vars => AnswerInv'
  BY StepAnswer
<1>3. AnswerInv => ReturnedIsRecorded
  <2> SUFFICES ASSUME AnswerInv, NEW c \in Executions
               PROVE  LET mine == {e \in executions : e.id = c} IN
                      /\ pc[c] = "returned" => Cardinality(mine) = 1
                      /\ pc[c] \in {"idle", "token", "load", "lock", "check", "raised"}
                           => mine = {}
    BY DEF ReturnedIsRecorded
  <2> DEFINE mine == {e \in executions : e.id = c}
  <2>1. ASSUME pc[c] = "returned" PROVE Cardinality(mine) = 1
    <3>1. PICK e \in executions : e.id = c
      BY <2>1 DEF AnswerInv, AnswerIsTrue, Answered
    <3>2. mine = {e}
      BY <3>1 DEF AnswerInv, SingleRecord
    <3> QED BY <3>2, FS_Singleton
  <2>2. ASSUME pc[c] \in {"idle", "token", "load", "lock", "check", "raised"} PROVE mine = {}
    BY <2>2 DEF AnswerInv, AnswerIsTrue, Answered, Unrecorded, Resting
  <2> QED BY <2>1, <2>2
<1> QED BY <1>1, <1>2, <1>3, Typing, PTL DEF Spec

-----------------------------------------------------------------------------
(* Replay protection.  The document remembers the last tokens accepted, and as
   many as it can.                                                          *)

Remembered ==
  /\ Len(tokens) <= MaxTokens
  /\ Len(tokens) <= Len(accepted)
  /\ Len(tokens) = MaxTokens \/ Len(tokens) = Len(accepted)
  /\ \A i \in 1 .. Len(tokens) : tokens[i] = accepted[Len(accepted) - Len(tokens) + i]

ReplayInv == Remembered /\ ReplayWindow

(* No token has been accepted at first. *)
LEMMA InitReplay == Init => ReplayInv
  BY LimitsAssumption DEF Init, ReplayInv, Remembered, ReplayWindow

(* A token the gate lets through is none of the remembered ones. *)
LEMMA TokenAccepted ==
  ASSUME RecordsOK, WorldOK, ReplayInv, NEW t \in Tokens, ~TokenKnown(tokens, t),
         tokens' = WithToken(tokens, t), accepted' = Append(accepted, t)
  PROVE  ReplayInv'
<1>0. tokens \in Seq(Tokens) /\ accepted \in Seq(Tokens) /\ MaxTokens \in Nat \ {0}
  BY LimitsAssumption DEF RecordsOK, WorldOK
<1>1. /\ Len(accepted') = Len(accepted) + 1
      /\ accepted'[Len(accepted) + 1] = t
      /\ \A i \in 1 .. Len(accepted) : accepted'[i] = accepted[i]
  BY <1>0
<1>2. Remembered'
  <2>1. CASE Len(tokens) < MaxTokens
    <3>1. /\ Len(tokens') = Len(tokens) + 1
          /\ tokens'[Len(tokens) + 1] = t
          /\ \A i \in 1 .. Len(tokens) : tokens'[i] = tokens[i]
      BY <1>0, <2>1 DEF WithToken
    <3>2. Len(tokens) = Len(accepted) /\ Len(tokens') = Len(accepted')
      BY <1>0, <1>1, <2>1, <3>1 DEF ReplayInv, Remembered
    <3>3. ASSUME NEW i \in 1 .. Len(tokens')
          PROVE  tokens'[i] = accepted'[i]
      <4>1. \A j \in 1 .. Len(tokens) : tokens[j] = accepted[j]
        BY <1>0, <3>2 DEF ReplayInv, Remembered
      <4>2. CASE i = Len(tokens) + 1
        BY <1>1, <3>1, <3>2, <4>2
      <4>3. CASE i # Len(tokens) + 1
        BY <1>0, <1>1, <3>1, <3>2, <3>3, <4>1, <4>3
      <4> QED BY <4>2, <4>3
    <3>4. Len(tokens') <= MaxTokens /\ Len(tokens') \in Nat
      BY <1>0, <2>1, <3>1
    <3> QED BY <3>2, <3>3, <3>4 DEF Remembered
  <2>2. CASE Len(tokens) = MaxTokens
    <3>1. /\ Len(tokens') = Len(tokens)
          /\ tokens'[Len(tokens)] = t
          /\ \A i \in 1 .. Len(tokens) - 1 : tokens'[i] = tokens[i + 1]
      BY <1>0, <2>2 DEF WithToken
    <3>2. ASSUME NEW i \in 1 .. Len(tokens')
          PROVE  tokens'[i] = accepted'[Len(accepted') - Len(tokens') + i]
      <4>1. CASE i = Len(tokens)
        BY <1>0, <1>1, <3>1, <4>1
      <4>2. CASE i # Len(tokens)
        <5>1. i \in 1 .. Len(tokens) - 1 /\ i + 1 \in 1 .. Len(tokens)
          BY <1>0, <3>1, <3>2, <4>2
        <5>2. tokens'[i] = accepted[Len(accepted) - Len(tokens) + (i + 1)]
          BY <3>1, <5>1 DEF ReplayInv, Remembered
        <5>3. Len(accepted) - Len(tokens) + (i + 1) \in 1 .. Len(accepted)
          BY <1>0, <5>1 DEF ReplayInv, Remembered
        <5>4. Len(accepted') - Len(tokens') + i = Len(accepted) - Len(tokens) + (i + 1)
          BY <1>0, <1>1, <3>1, <5>1
        <5> QED BY <1>1, <5>2, <5>3, <5>4
      <4> QED BY <4>1, <4>2
    <3>3. /\ Len(tokens') = MaxTokens /\ Len(tokens') <= MaxTokens
          /\ Len(tokens') <= Len(accepted')
      BY <1>0, <1>1, <2>2, <3>1 DEF ReplayInv, Remembered
    <3> QED BY <3>2, <3>3 DEF Remembered
  <2>3. Len(tokens) \in Nat /\ Len(tokens) <= MaxTokens
    BY <1>0 DEF ReplayInv, Remembered
  <2> QED BY <1>0, <2>1, <2>2, <2>3
<1>3. ReplayWindow'
  <2> SUFFICES ASSUME NEW i \in 1 .. Len(accepted) + 1, NEW j \in 1 .. Len(accepted) + 1,
                      i < j, accepted'[i] = accepted'[j]
               PROVE  j - i > MaxTokens
    BY <1>1 DEF ReplayWindow
  <2>1. CASE j <= Len(accepted)
    BY <1>0, <1>1, <2>1 DEF ReplayInv, ReplayWindow
  <2>2. CASE j = Len(accepted) + 1
    <3> SUFFICES ASSUME j - i <= MaxTokens PROVE FALSE
      BY <1>0
    <3> DEFINE k == i - (Len(accepted) - Len(tokens))
    <3>1. k \in 1 .. Len(tokens)
      BY <1>0, <2>2 DEF ReplayInv, Remembered
    <3>2. tokens[k] = accepted[i]
      BY <1>0, <3>1 DEF ReplayInv, Remembered
    <3>3. accepted[i] = t
      BY <1>0, <1>1, <2>2
    <3> QED BY <3>1, <3>2, <3>3 DEF TokenKnown
  <2>3. j <= Len(accepted) \/ j = Len(accepted) + 1
    BY <1>0
  <2> QED BY <2>1, <2>2, <2>3
<1> QED BY <1>2, <1>3 DEF ReplayInv

(* Nothing else touches the tokens. *)
LEMMA TokensKept ==
  ASSUME NEW c \in Calls, Begin(c) \/ Step(c), ~Token(c)
  PROVE  UNCHANGED <<tokens, accepted>>
<1> USE DEF records, world
<1>0. CASE Begin(c)
  BY <1>0 DEF Begin, BeginExecution, BeginRollback
<1>1. CASE TokenExhausted(c)
  BY <1>1 DEF TokenExhausted
<1>2. CASE LoadPlan(c)
  BY <1>2 DEF LoadPlan
<1>3. CASE LoadExecution(c)
  BY <1>3 DEF LoadExecution
<1>4. CASE AcquireLock(c)
  BY <1>4 DEF AcquireLock
<1>5. CASE LockRefused(c)
  BY <1>5 DEF LockRefused
<1>6. CASE Check(c)
  BY <1>6 DEF Check
<1>7. CASE ExecuteStep(c)
  BY <1>7 DEF ExecuteStep
<1>8. CASE VerifyStep(c)
  BY <1>8 DEF VerifyStep
<1>9. CASE UndoStep(c)
  BY <1>9 DEF UndoStep
<1>10. CASE RecordExecution(c)
  BY <1>10 DEF RecordExecution
<1>11. CASE RecordFails(c)
  BY <1>11 DEF RecordFails
<1>12. CASE RecordRollback(c)
  BY <1>12 DEF RecordRollback
<1>13. CASE RecordRollbackFails(c)
  BY <1>13 DEF RecordRollbackFails
<1>14. CASE Release(c)
  BY <1>14 DEF Release
<1> QED
  BY <1>0, <1>1, <1>2, <1>3, <1>4, <1>5, <1>6, <1>7, <1>8, <1>9, <1>10, <1>11, <1>12,
     <1>13, <1>14
  DEF Step

(* Every step keeps the invariant of the replay gate. *)
LEMMA StepReplay == ASSUME Typed, ReplayInv, [Next]_vars PROVE ReplayInv'
<1>0. RecordsOK /\ LocalsOK /\ WorldOK
  BY DEF Typed, TypeOK
<1>1. CASE UNCHANGED <<tokens, accepted>>
  BY <1>1 DEF ReplayInv, Remembered, ReplayWindow
<1>2. ASSUME NEW c \in Calls, Token(c) PROVE ReplayInv'
  <2>1. arg[c].token \in Tokens
    BY <1>0 DEF LocalsOK, Argument
  <2>2. CASE TokenKnown(tokens, arg[c].token)
    BY <1>1, <1>2, <2>2 DEF Token
  <2>3. CASE ~TokenKnown(tokens, arg[c].token)
    BY <1>0, <1>2, <2>1, <2>3, TokenAccepted DEF Token
  <2> QED BY <2>2, <2>3
<1>3. ASSUME NEW c \in Calls, Begin(c) \/ Step(c) PROVE ReplayInv'
  BY <1>1, <1>2, <1>3, TokensKept
<1>4. CASE Tick \/ Crash \/ UNCHANGED vars
  BY <1>1, <1>4 DEF Tick, Crash, vars, records, world
<1> QED BY <1>3, <1>4 DEF Next

(* A token is accepted again only after more than MaxTokens others have been, for
   every capacity: the window of the replay protection is exactly the capacity. *)
THEOREM ReplaysAreCaught == Spec => []ReplayWindow
<1>1. Init => ReplayInv
  BY InitReplay
<1>2. Typed /\ ReplayInv /\ [Next]_vars => ReplayInv'
  BY StepReplay
<1> QED BY <1>1, <1>2, Typing, PTL DEF Spec, ReplayInv

-----------------------------------------------------------------------------
(* Truth.  What a record says of the target holds from when its call has made
   it so, and nobody but a recorded request changes it back.                *)

Ahead == {"idle", "token", "load", "lock", "check"}

(* None of the completed reversible steps is in effect but those left. *)
Reversed(e, plan, completed, left) ==
  \A s \in (completed \intersect Reversible[plan]) \ left : <<e, s>> \notin inEffect

(* An execution knows which of its steps are in place and which are reversed. *)
ExecutionIsTrue(c) ==
  /\ pc[c] \in Ahead \union {"refuse"} => undo[c] = "none"
  /\ pc[c] \in Ahead => step[c] = 1
  /\ pc[c] \in Ahead \union {"refuse", "block"} => done[c] = {}
  /\ pc[c] \in {"execute", "verify"} =>
       /\ undo[c] = "none"
       /\ \A s \in Steps(PlanOf(c)) : s < step[c] => <<c, s>> \in inEffect
  /\ pc[c] = "verify" => <<c, step[c]>> \in inEffect
  /\ pc[c] = "undo" /\ undo[c] # "failed" => Reversed(c, PlanOf(c), done[c], todo[c])
  /\ pc[c] = "record" =>
       /\ verdict[c] = "succeeded" =>
            \A s \in Steps(PlanOf(c)) : <<c, s>> \in inEffect
       /\ verdict[c] = "rolled_back" => undo[c] = "succeeded"
       /\ undo[c] = "succeeded" => Reversed(c, PlanOf(c), done[c], {})
  /\ pc[c] \in {"block", "refuse"} => verdict[c] \in {"failed", "unknown_plan"}

(* A requested rollback knows which steps of its execution it has reversed. *)
RollbackIsTrue(c) ==
  /\ pc[c] \in Ahead => undo[c] = "none"
  /\ \A e \in executions : e.id = arg[c].execution =>
       /\ pc[c] \in {"token", "lock", "undo"} /\ undo[c] # "failed" =>
            Reversed(e.id, e.plan, e.done, todo[c])
       /\ pc[c] = "record" /\ undo[c] = "succeeded" =>
            Reversed(e.id, e.plan, e.done, {})

TruthInv ==
  /\ \A c \in Executions : ExecutionIsTrue(c)
  /\ \A c \in Rollbacks : RollbackIsTrue(c)
  /\ RecordsAreTrue

(* Nothing is done and nothing recorded at first. *)
LEMMA InitTruth == Init => TruthInv
  BY CallsApart
  DEF Init, LocalInit, TruthInv, ExecutionIsTrue, RollbackIsTrue, RecordsAreTrue, Ahead

(* A step of a call leaves the progress of the other calls alone. *)
LEMMA ProgressFrame ==
  ASSUME Typed, NEW c \in Calls, Step(c), NEW d \in Calls, d # c
  PROVE  /\ step'[d] = step[d] /\ done'[d] = done[d] /\ todo'[d] = todo[d]
         /\ undo'[d] = undo[d] /\ verdict'[d] = verdict[d]
<1>0. /\ DOMAIN step = Calls /\ DOMAIN done = Calls /\ DOMAIN todo = Calls
      /\ DOMAIN undo = Calls /\ DOMAIN verdict = Calls
  BY DEF Typed, TypeOK, LocalsOK, ControlOK
<1> USE DEF progress
<1>1. CASE Token(c) \/ TokenExhausted(c)
  BY <1>0, <1>1 DEF Token, TokenExhausted
<1>2. CASE LoadPlan(c) \/ LoadExecution(c)
  BY <1>0, <1>2 DEF LoadPlan, Refuse, LoadExecution
<1>3. CASE AcquireLock(c) \/ LockRefused(c)
  BY <1>0, <1>3 DEF AcquireLock, LockRefused, Refuse
<1>4. CASE Check(c)
  BY <1>0, <1>4 DEF Check, Block
<1>5. CASE ExecuteStep(c)
  BY <1>0, <1>5 DEF ExecuteStep, StopAndUndo, Block
<1>6. CASE VerifyStep(c)
  BY <1>0, <1>6 DEF VerifyStep, StopAndUndo, Block
<1>7. CASE UndoStep(c)
  BY <1>0, <1>7 DEF UndoStep
<1>8. CASE RecordExecution(c) \/ RecordFails(c)
  BY <1>0, <1>8 DEF RecordExecution, RecordFails, Leave, Block
<1>9. CASE RecordRollback(c) \/ RecordRollbackFails(c) \/ Release(c)
  BY <1>0, <1>9 DEF RecordRollback, RecordRollbackFails, Leave, Release
<1> QED BY <1>1, <1>2, <1>3, <1>4, <1>5, <1>6, <1>7, <1>8, <1>9 DEF Step

(* The target changes by a step executed or one reversed. *)
LEMMA EffectFrame ==
  ASSUME NEW c \in Calls, Step(c)
  PROVE  \/ inEffect' = inEffect
         \/ ExecuteStep(c) /\ inEffect' = inEffect \union {<<c, step[c]>>}
         \/ UndoStep(c) /\ \E s : inEffect' = inEffect \ {<<Subject(c), s>>}
<1> USE DEF world
<1>1. CASE Token(c) \/ TokenExhausted(c)
  BY <1>1 DEF Token, TokenExhausted
<1>2. CASE LoadPlan(c) \/ LoadExecution(c)
  BY <1>2 DEF LoadPlan, LoadExecution
<1>3. CASE AcquireLock(c) \/ LockRefused(c) \/ Check(c)
  BY <1>3 DEF AcquireLock, LockRefused, Check
<1>4. CASE ExecuteStep(c)
  BY <1>4 DEF ExecuteStep
<1>5. CASE VerifyStep(c)
  BY <1>5 DEF VerifyStep
<1>6. CASE UndoStep(c)
  BY <1>6 DEF UndoStep
<1>7. CASE RecordExecution(c) \/ RecordFails(c)
  BY <1>7 DEF RecordExecution, RecordFails
<1>8. CASE RecordRollback(c) \/ RecordRollbackFails(c) \/ Release(c)
  BY <1>8 DEF RecordRollback, RecordRollbackFails, Release
<1> QED BY <1>1, <1>2, <1>3, <1>4, <1>5, <1>6, <1>7, <1>8 DEF Step

(* A call that is not recorded is changed by nobody else, and a recorded one
   only by a request that reverses it. *)
LEMMA EffectKept ==
  ASSUME Typed, Unrecorded, NEW c \in Calls, Step(c)
  PROVE  /\ \A d \in Executions \ {c} : \A s :
              (\A e \in executions : e.id # d) =>
                 (<<d, s>> \in inEffect' <=> <<d, s>> \in inEffect)
         /\ \A e \in executions : \A s :
              /\ <<e.id, s>> \in inEffect' => <<e.id, s>> \in inEffect
              /\ <<e.id, s>> \in inEffect /\ <<e.id, s>> \notin inEffect' =>
                   c \in Rollbacks /\ arg[c].execution = e.id /\ undo'[c] # "none"
<1>0. LocalsOK
  BY DEF Typed, TypeOK
<1>1. CASE inEffect' = inEffect
  BY <1>1
<1>2. CASE ExecuteStep(c) /\ inEffect' = inEffect \union {<<c, step[c]>>}
  <2>1. \A e \in executions : e.id # c
    <3>1. c \in Executions /\ pc[c] = "execute"
      BY <1>2, CallsApart DEF ExecuteStep, Typed, Decided
    <3> QED BY <3>1 DEF Unrecorded, Resting
  <2> QED BY <1>2, <2>1
<1>3. CASE UndoStep(c) /\ \E s : inEffect' = inEffect \ {<<Subject(c), s>>}
  <2>1. pc[c] = "undo" /\ undo'[c] \in {"succeeded", "failed"}
    BY <1>0, <1>3 DEF UndoStep, UndoOutcome, LocalsOK
  <2>2. CASE c \in Executions
    BY <1>3, <2>1, <2>2 DEF Unrecorded, Resting, Subject
  <2>3. CASE c \notin Executions
    <3>1. \E e \in executions : e.id = arg[c].execution
      BY <2>1, <2>3, CallsApart DEF Typed, RecordedFirst
    <3> QED BY <1>3, <2>1, <2>3, <3>1, CallsApart DEF Subject
  <2> QED BY <2>2, <2>3
<1> QED BY <1>1, <1>2, <1>3, EffectFrame

(* Every step of an execution keeps what it knows of its own steps. *)
LEMMA OwnExecution ==
  ASSUME Typed, NEW c \in Executions, ExecutionIsTrue(c), Step(c)
  PROVE  ExecutionIsTrue(c)'
<1>0. /\ c \in Calls /\ ControlOK /\ LocalsOK
      /\ UNCHANGED <<arg, now, clock>>
  <2>1. c \in Calls /\ ControlOK
    BY CallsApart DEF Typed, TypeOK
  <2> QED BY <2>1, Frame DEF Typed, TypeOK
<1>a. /\ pc \in [Calls -> Places] /\ verdict \in [Calls -> Verdicts]
      /\ ending \in [Calls -> {"returned", "rejected", "raised"}]
  BY <1>0 DEF ControlOK
<1>b. /\ step \in [Calls -> Nat] /\ done \in [Calls -> SUBSET Nat]
      /\ todo \in [Calls -> SUBSET Nat] /\ undo \in [Calls -> {"none", "succeeded", "failed"}]
  BY <1>0 DEF LocalsOK
<1> USE DEF progress, world, records, Ahead, Goto
<1>1. CASE Token(c)
  BY <1>0, <1>a, <1>b, <1>1 DEF Token, ExecutionIsTrue
<1>2. CASE TokenExhausted(c)
  BY <1>0, <1>a, <1>b, <1>2 DEF TokenExhausted, ExecutionIsTrue
<1>3. CASE LoadPlan(c)
  BY <1>0, <1>a, <1>b, <1>3 DEF LoadPlan, Refuse, ExecutionIsTrue
<1>4. CASE AcquireLock(c)
  BY <1>0, <1>a, <1>b, <1>4 DEF AcquireLock, ExecutionIsTrue
<1>5. CASE LockRefused(c)
  BY <1>0, <1>a, <1>b, <1>5 DEF LockRefused, Refuse, ExecutionIsTrue
<1>6. CASE Check(c)
  BY <1>0, <1>a, <1>b, <1>6 DEF Check, Block, ExecutionIsTrue, Steps
<1>7. CASE ExecuteStep(c)
  BY <1>0, <1>a, <1>b, <1>7
  DEF ExecuteStep, StopAndUndo, Block, ExecutionIsTrue, Reversed, PlanOf
<1>8. CASE VerifyStep(c)
  <2>1. /\ undo[c] = "none" /\ <<c, step[c]>> \in inEffect
        /\ \A s \in Steps(PlanOf(c)) : s < step[c] => <<c, s>> \in inEffect
        /\ inEffect' = inEffect /\ PlanOf(c)' = PlanOf(c) /\ undo' = undo
        /\ Steps(PlanOf(c))' = Steps(PlanOf(c))
    BY <1>0, <1>8 DEF VerifyStep, ExecutionIsTrue, PlanOf, Steps
  <2>2. CASE pc' = [pc EXCEPT ![c] = "execute"] /\ step' = [step EXCEPT ![c] = @ + 1]
    <3>1. pc'[c] = "execute" /\ step'[c] = step[c] + 1 /\ step[c] \in Nat
      BY <1>0, <1>a, <1>b, <2>2
    <3>2. \A s \in Steps(PlanOf(c)) : s < step[c] + 1 => s < step[c] \/ s = step[c]
      BY <3>1 DEF Steps
    <3> QED BY <2>1, <3>1, <3>2 DEF ExecutionIsTrue
  <2>3. CASE /\ step[c] >= StepCount[PlanOf(c)]
             /\ pc' = [pc EXCEPT ![c] = "record"]
             /\ verdict' = [verdict EXCEPT ![c] = "succeeded"]
    <3>1. pc'[c] = "record" /\ verdict'[c] = "succeeded" /\ undo'[c] = "none"
      BY <1>0, <1>a, <2>1, <2>3
    <3>2. \A s \in Steps(PlanOf(c)) : s < step[c] \/ s = step[c]
      <4>1. step[c] \in Nat /\ StepCount[PlanOf(c)] \in Nat
        BY <1>0, <1>b, PlansAssumption DEF LocalsOK, Argument, PlanOf
      <4> QED BY <2>3, <4>1 DEF Steps
    <3> QED BY <2>1, <3>1, <3>2 DEF ExecutionIsTrue
  <2>4. CASE StopAndUndo(c, done[c]) /\ done' = done
    BY <1>0, <1>a, <1>b, <2>1, <2>4 DEF StopAndUndo, ExecutionIsTrue, Reversed
  <2>5. CASE Block(c) /\ done' = [done EXCEPT ![c] = {}]
    BY <1>0, <1>a, <1>b, <2>1, <2>5 DEF Block, ExecutionIsTrue
  <2>6. step[c] \in Nat /\ StepCount[PlanOf(c)] \in Nat
    BY <1>0, <1>b, PlansAssumption DEF LocalsOK, Argument, PlanOf
  <2> QED BY <1>8, <2>2, <2>3, <2>4, <2>5, <2>6 DEF VerifyStep
<1>9. CASE UndoStep(c)
  BY <1>0, <1>a, <1>b, <1>9
  DEF UndoStep, UndoOutcome, StillToUndo, Subject, ExecutionIsTrue, Reversed, PlanOf
<1>10. CASE RecordExecution(c)
  BY <1>0, <1>a, <1>b, <1>10 DEF RecordExecution, Leave, ExecutionIsTrue
<1>11. CASE RecordFails(c)
  BY <1>0, <1>a, <1>b, <1>11 DEF RecordFails, Leave, Block, ExecutionIsTrue
<1>12. CASE Release(c)
  BY <1>0, <1>a, <1>b, <1>12 DEF Release, ExecutionIsTrue
<1>13. ~LoadExecution(c) /\ ~RecordRollback(c) /\ ~RecordRollbackFails(c)
  BY <1>0, CallsApart DEF LoadExecution, RecordRollback, RecordRollbackFails
<1> QED
  BY <1>1, <1>2, <1>3, <1>4, <1>5, <1>6, <1>7, <1>8, <1>9, <1>10, <1>11, <1>12, <1>13
  DEF Step

(* Every step of a rollback keeps what it knows of the steps of its execution. *)
LEMMA OwnRollback ==
  ASSUME Typed, SingleRecord, NEW c \in Rollbacks, RollbackIsTrue(c), Step(c)
  PROVE  RollbackIsTrue(c)'
<1>0. /\ c \in Calls /\ ControlOK /\ LocalsOK /\ c \notin Executions
      /\ UNCHANGED <<arg, now, clock>>
      /\ \E e \in executions : e.id = arg[c].execution
  <2>1. c \in Calls /\ ControlOK /\ c \notin Executions
    BY CallsApart DEF Typed, TypeOK
  <2>2. pc[c] # "idle"
    BY <2>1, Frame
  <2> QED BY <2>1, <2>2, Frame DEF Typed, TypeOK, RecordedFirst
<1>a. /\ pc \in [Calls -> Places] /\ verdict \in [Calls -> Verdicts]
      /\ ending \in [Calls -> {"returned", "rejected", "raised"}]
  BY <1>0 DEF ControlOK
<1>b. /\ step \in [Calls -> Nat] /\ done \in [Calls -> SUBSET Nat]
      /\ todo \in [Calls -> SUBSET Nat] /\ undo \in [Calls -> {"none", "succeeded", "failed"}]
  BY <1>0 DEF LocalsOK
<1> USE DEF progress, world, records, Ahead, Goto
<1>1. CASE Token(c)
  BY <1>0, <1>a, <1>b, <1>1 DEF Token, RollbackIsTrue, Reversed
<1>2. CASE TokenExhausted(c)
  BY <1>0, <1>a, <1>b, <1>2 DEF TokenExhausted, RollbackIsTrue, Reversed
<1>3. CASE LoadExecution(c)
  BY <1>0, <1>a, <1>b, <1>3 DEF LoadExecution, RollbackIsTrue, Reversed, SingleRecord
<1>4. CASE AcquireLock(c)
  BY <1>0, <1>a, <1>b, <1>4 DEF AcquireLock, RollbackIsTrue, Reversed
<1>5. CASE LockRefused(c)
  BY <1>0, <1>a, <1>b, <1>5 DEF LockRefused, RollbackIsTrue, Reversed
<1>6. CASE UndoStep(c)
  BY <1>0, <1>a, <1>b, <1>6
  DEF UndoStep, UndoOutcome, StillToUndo, Subject, RollbackIsTrue, Reversed
<1>7. CASE RecordRollback(c)
  BY <1>0, <1>a, <1>b, <1>7 DEF RecordRollback, Leave, RollbackIsTrue, Reversed
<1>8. CASE RecordRollbackFails(c)
  BY <1>0, <1>a, <1>b, <1>8 DEF RecordRollbackFails, Leave, RollbackIsTrue, Reversed
<1>9. CASE Release(c)
  BY <1>0, <1>a, <1>b, <1>9 DEF Release, RollbackIsTrue, Reversed
<1>10. ~LoadPlan(c) /\ ~Check(c) /\ ~ExecuteStep(c) /\ ~VerifyStep(c)
       /\ ~RecordExecution(c) /\ ~RecordFails(c)
  BY <1>0 DEF LoadPlan, Check, ExecuteStep, VerifyStep, RecordExecution, RecordFails, Typed, Decided
<1> QED
  BY <1>1, <1>2, <1>3, <1>4, <1>5, <1>6, <1>7, <1>8, <1>9, <1>10
  DEF Step

(* What an execution knows is not disturbed by the calls of the others. *)
LEMMA OtherExecution ==
  ASSUME Typed, Unrecorded, NEW d \in Executions, ExecutionIsTrue(d),
         NEW c \in Calls, c # d, Step(c)
  PROVE  ExecutionIsTrue(d)'
<1>0. d \in Calls /\ ControlOK
  BY CallsApart DEF Typed, TypeOK
<1>1. /\ step'[d] = step[d] /\ done'[d] = done[d] /\ todo'[d] = todo[d]
      /\ undo'[d] = undo[d] /\ verdict'[d] = verdict[d]
  BY <1>0, ProgressFrame
<1>2. pc'[d] = pc[d] /\ arg' = arg /\ PlanOf(d)' = PlanOf(d)
  BY <1>0, Frame DEF PlanOf
<1>3. CASE pc[d] \in (Resting \ {"idle"}) \union {"release"}
  BY <1>1, <1>2, <1>3 DEF ExecutionIsTrue, Ahead, Resting
<1>4. CASE pc[d] \notin (Resting \ {"idle"}) \union {"release"}
  <2>1. \A e \in executions : e.id # d
    BY <1>4 DEF Unrecorded, Resting
  <2>2. \A s : <<d, s>> \in inEffect' <=> <<d, s>> \in inEffect
    BY <2>1, EffectKept
  <2>3. /\ Steps(PlanOf(d))' = Steps(PlanOf(d))
        /\ Reversed(d, PlanOf(d), done[d], todo[d])' <=> Reversed(d, PlanOf(d), done[d], todo[d])
        /\ Reversed(d, PlanOf(d), done[d], {})' <=> Reversed(d, PlanOf(d), done[d], {})
    BY <1>1, <1>2, <2>2 DEF Reversed, Steps
  <2> QED BY <1>1, <1>2, <2>2, <2>3 DEF ExecutionIsTrue
<1> QED BY <1>3, <1>4

(* What a rollback knows is not undone by the calls of the others: its execution
   is recorded, and a recorded execution gains no effect. *)
LEMMA OtherRollback ==
  ASSUME Typed, Unrecorded, SingleRecord, NEW d \in Rollbacks, RollbackIsTrue(d),
         NEW c \in Calls, c # d, Step(c)
  PROVE  RollbackIsTrue(d)'
<1>0. d \in Calls /\ ControlOK
  BY CallsApart DEF Typed, TypeOK
<1>1. todo'[d] = todo[d] /\ undo'[d] = undo[d]
  BY <1>0, ProgressFrame
<1>2. pc'[d] = pc[d] /\ arg' = arg
  BY <1>0, Frame
<1>3. CASE pc[d] = "idle"
  BY <1>1, <1>2, <1>3 DEF RollbackIsTrue, Ahead
<1>4. CASE pc[d] # "idle"
  <2>1. PICK f \in executions : f.id = arg[d].execution
    BY <1>4 DEF Typed, RecordedFirst
  <2>2. \A e \in executions' : e.id = f.id => e = f
    <3>1. CASE executions' = executions
      BY <3>1 DEF SingleRecord
    <3>2. CASE RecordExecution(c)
      <4>1. \A e \in executions : e.id # c
        BY <3>2 DEF RecordExecution, Unrecorded, Resting
      <4>2. executions' = executions \union {Record(c)} /\ Record(c).id = c
        BY <3>2 DEF RecordExecution, Record
      <4> QED BY <4>1, <4>2 DEF SingleRecord
    <3> QED BY <1>0, <3>1, <3>2, AnswerKept
  <2>3. \A s : <<f.id, s>> \in inEffect' => <<f.id, s>> \in inEffect
    BY EffectKept
  <2>4. \A left : Reversed(f.id, f.plan, f.done, left) => Reversed(f.id, f.plan, f.done, left)'
    BY <2>3 DEF Reversed
  <2> QED BY <1>1, <1>2, <2>1, <2>2, <2>4 DEF RollbackIsTrue
<1> QED BY <1>3, <1>4

(* The records that are there stay true: what a request reverses, its own call
   witnesses. *)
LEMMA RecordsStayTrue ==
  ASSUME Typed, RollbackInv, AnswerInv, TruthInv, NEW c \in Calls, Step(c),
         NEW e \in executions
  PROVE  /\ e.outcome = "succeeded" =>
              \A s \in Steps(e.plan) :
                \/ <<e.id, s>> \in inEffect'
                \/ \E d \in Rollbacks : arg'[d].execution = e.id /\ undo'[d] # "none"
         /\ (e.outcome = "rolled_back" \/ \E r \in rollbacks :
               r.execution = e.id /\ r.outcome = "succeeded") =>
              \A s \in e.done \intersect Reversible[e.plan] : <<e.id, s>> \notin inEffect'
<1>0. /\ ControlOK /\ Unrecorded
      /\ arg' = arg
  BY Frame DEF Typed, TypeOK, RollbackInv
<1>1. \A s : <<e.id, s>> \in inEffect' => <<e.id, s>> \in inEffect
  BY <1>0, EffectKept
<1>2. \A s : <<e.id, s>> \in inEffect /\ <<e.id, s>> \notin inEffect' =>
               c \in Rollbacks /\ arg[c].execution = e.id /\ undo'[c] # "none"
  BY <1>0, EffectKept
<1>3. \A d \in Rollbacks : undo[d] # "none" => undo'[d] # "none"
  <2> SUFFICES ASSUME NEW d \in Rollbacks, undo[d] # "none" PROVE undo'[d] # "none"
    OBVIOUS
  <2>1. CASE d # c
    BY <2>1, ProgressFrame, CallsApart
  <2>2. CASE d = c
    <3>1. c \notin Executions
      BY <2>2, CallsApart
    <3>2. CASE UndoStep(c)
      BY <2>2, <3>2 DEF UndoStep, UndoOutcome, Typed, TypeOK, LocalsOK
    <3>3. CASE ~UndoStep(c)
      BY <2>2, <3>1, <3>3
      DEF Step, Token, TokenExhausted, LoadPlan, LoadExecution, AcquireLock, LockRefused, Check,
          ExecuteStep, VerifyStep, RecordExecution, RecordFails, RecordRollback,
          RecordRollbackFails, Release, progress
    <3> QED BY <3>2, <3>3
  <2> QED BY <2>1, <2>2
<1> QED BY <1>0, <1>1, <1>2, <1>3 DEF TruthInv, RecordsAreTrue

(* The record an execution writes is true. *)
LEMMA RecordExecutionTrue ==
  ASSUME Typed, RollbackInv, AnswerInv, TruthInv, NEW c \in Calls, RecordExecution(c)
  PROVE  RecordsAreTrue'
<1>0. /\ c \in Executions /\ ExecutionIsTrue(c)
      /\ \A e \in executions : e.id # c
      /\ \A r \in rollbacks : r.execution # c
      /\ UNCHANGED <<arg, undo, inEffect>>
      /\ pc[c] \in {"record", "block", "refuse"}
  BY DEF RecordExecution, TruthInv, RollbackInv, Unrecorded, RollbackOfRecorded, Resting, world
<1>1. /\ executions' = executions \union {Record(c)}
      /\ Record(c).id = c /\ Record(c).plan = PlanOf(c) /\ Record(c).done = done[c]
      /\ Record(c).outcome = IF verdict[c] = "unknown_plan" THEN "failed" ELSE verdict[c]
  BY DEF RecordExecution, Record
<1>2. /\ rollbacks' \subseteq rollbacks \union {UndoRecord(c)}
      /\ UndoRecord(c).execution = c /\ UndoRecord(c).outcome = undo[c]
  BY <1>0 DEF RecordExecution, UndoRecord, Subject
<1>3. verdict[c] = "succeeded" => \A s \in Steps(PlanOf(c)) : <<c, s>> \in inEffect
  BY <1>0 DEF ExecutionIsTrue
<1>4. verdict[c] = "rolled_back" \/ undo[c] = "succeeded" =>
        \A s \in done[c] \intersect Reversible[PlanOf(c)] : <<c, s>> \notin inEffect
  BY <1>0 DEF ExecutionIsTrue, Ahead, Reversed
<1>5. \A e \in executions, r \in rollbacks' : r.execution = e.id => r \in rollbacks
  BY <1>0, <1>2
<1>6. \A r \in rollbacks' : r.execution = c => r.outcome = undo[c]
  BY <1>0, <1>2
<1>7. RecordsAreTrue
  BY DEF TruthInv
<1> SUFFICES ASSUME NEW e \in executions'
             PROVE  /\ e.outcome = "succeeded" =>
                         \A s \in Steps(e.plan) :
                           \/ <<e.id, s>> \in inEffect
                           \/ \E d \in Rollbacks : arg[d].execution = e.id /\ undo[d] # "none"
                    /\ (e.outcome = "rolled_back" \/ \E r \in rollbacks' :
                          r.execution = e.id /\ r.outcome = "succeeded") =>
                         \A s \in e.done \intersect Reversible[e.plan] : <<e.id, s>> \notin inEffect
  BY <1>0 DEF RecordsAreTrue, Steps
<1>8. CASE e \in executions
  BY <1>5, <1>7, <1>8 DEF RecordsAreTrue
<1>9. CASE e = Record(c)
  BY <1>1, <1>3, <1>4, <1>6, <1>9
<1> QED BY <1>1, <1>8, <1>9

(* The record a rollback writes is true. *)
LEMMA RecordRollbackTrue ==
  ASSUME Typed, RollbackInv, AnswerInv, TruthInv, NEW c \in Calls, RecordRollback(c)
  PROVE  RecordsAreTrue'
<1>0. /\ c \in Rollbacks /\ RollbackIsTrue(c) /\ pc[c] = "record"
      /\ UNCHANGED <<executions, arg, undo, inEffect>>
      /\ rollbacks' = rollbacks \union {UndoRecord(c)}
  BY DEF RecordRollback, TruthInv, world
<1>1. UndoRecord(c).execution = arg[c].execution /\ UndoRecord(c).outcome = undo[c]
  BY <1>0, CallsApart DEF UndoRecord, Subject
<1>2. \A e \in executions : e.id = arg[c].execution /\ undo[c] = "succeeded" =>
        \A s \in e.done \intersect Reversible[e.plan] : <<e.id, s>> \notin inEffect
  BY <1>0 DEF RollbackIsTrue, Reversed
<1> QED BY <1>0, <1>1, <1>2 DEF TruthInv, RecordsAreTrue, Steps

(* Every step keeps the records true and what the calls know. *)
LEMMA StepTruth ==
  ASSUME Typed, RollbackInv, AnswerInv, TruthInv, [Next]_vars
  PROVE  TruthInv'
<1>0. ControlOK /\ LocalsOK /\ Unrecorded /\ SingleRecord
  BY DEF Typed, TypeOK, RollbackInv, AnswerInv
<1>1. ASSUME NEW c \in Calls, Begin(c) PROVE TruthInv'
  <2>1. /\ UNCHANGED <<executions, rollbacks, step, done, todo, undo, verdict, inEffect>>
        /\ pc[c] = "idle" /\ pc'[c] \in {"token", "load"}
        /\ c \in Executions => pc'[c] = "token"
        /\ c \in Rollbacks => pc'[c] = "load"
        /\ \A d \in Calls \ {c} : pc'[d] = pc[d] /\ arg'[d] = arg[d]
    BY <1>0, <1>1, CallsApart
    DEF Begin, BeginExecution, BeginRollback, Goto, ControlOK, LocalsOK, records, progress, world
  <2>2. \A d \in Executions : ExecutionIsTrue(d)'
    <3> SUFFICES ASSUME NEW d \in Executions PROVE ExecutionIsTrue(d)'
      OBVIOUS
    <3>1. CASE d = c
      BY <2>1, <3>1 DEF TruthInv, ExecutionIsTrue, Ahead
    <3>2. CASE d # c
      <4>1. PlanOf(d)' = PlanOf(d) /\ Steps(PlanOf(d))' = Steps(PlanOf(d)) /\ pc'[d] = pc[d]
        BY <2>1, <3>2, CallsApart DEF PlanOf, Steps
      <4> QED BY <2>1, <4>1 DEF TruthInv, ExecutionIsTrue, Reversed
    <3> QED BY <3>1, <3>2
  <2>3. \A d \in Rollbacks : RollbackIsTrue(d)'
    <3> SUFFICES ASSUME NEW d \in Rollbacks PROVE RollbackIsTrue(d)'
      OBVIOUS
    <3>1. CASE d = c
      BY <2>1, <3>1 DEF TruthInv, RollbackIsTrue, Ahead
    <3>2. CASE d # c
      BY <2>1, <3>2, CallsApart DEF TruthInv, RollbackIsTrue, Reversed
    <3> QED BY <3>1, <3>2
  <2>4. RecordsAreTrue'
    <3>1. \A d \in Rollbacks : undo[d] # "none" => arg'[d] = arg[d]
      BY <2>1, CallsApart DEF TruthInv, RollbackIsTrue, Ahead
    <3> QED BY <2>1, <3>1 DEF TruthInv, RecordsAreTrue, Steps
  <2> QED BY <2>2, <2>3, <2>4 DEF TruthInv
<1>2. ASSUME NEW c \in Calls, Step(c) PROVE TruthInv'
  <2>1. \A d \in Executions : ExecutionIsTrue(d)'
    <3> SUFFICES ASSUME NEW d \in Executions PROVE ExecutionIsTrue(d)'
      OBVIOUS
    <3> QED BY <1>0, <1>2, OwnExecution, OtherExecution DEF TruthInv
  <2>2. \A d \in Rollbacks : RollbackIsTrue(d)'
    <3> SUFFICES ASSUME NEW d \in Rollbacks PROVE RollbackIsTrue(d)'
      OBVIOUS
    <3> QED BY <1>0, <1>2, OwnRollback, OtherRollback DEF TruthInv
  <2>3. RecordsAreTrue'
    <3>1. CASE RecordExecution(c)
      BY <3>1, RecordExecutionTrue
    <3>2. CASE RecordRollback(c)
      BY <3>2, RecordRollbackTrue
    <3>3. CASE ~RecordExecution(c) /\ ~RecordRollback(c)
      <4>1. UNCHANGED <<executions, rollbacks>>
        BY <1>0, <1>2, <3>3, NothingRecorded
      <4>2. \A e \in executions :
              /\ e.outcome = "succeeded" =>
                   \A s \in Steps(e.plan) :
                     \/ <<e.id, s>> \in inEffect'
                     \/ \E d \in Rollbacks : arg'[d].execution = e.id /\ undo'[d] # "none"
              /\ (e.outcome = "rolled_back" \/ \E r \in rollbacks :
                    r.execution = e.id /\ r.outcome = "succeeded") =>
                   \A s \in e.done \intersect Reversible[e.plan] : <<e.id, s>> \notin inEffect'
        BY <1>2, RecordsStayTrue
      <4> QED BY <4>1, <4>2 DEF RecordsAreTrue, Steps
    <3> QED BY <3>1, <3>2, <3>3
  <2> QED BY <2>1, <2>2, <2>3 DEF TruthInv
<1>3. CASE Tick \/ Crash \/ UNCHANGED vars
  <2>1. /\ UNCHANGED <<executions, rollbacks, arg, step, done, todo, undo, verdict, inEffect>>
        /\ \A d \in Calls : pc'[d] = pc[d] \/ pc'[d] = "lost"
    BY <1>3 DEF Tick, Crash, vars, records, progress, world
  <2>2. \A d \in Executions : ExecutionIsTrue(d)'
    <3> SUFFICES ASSUME NEW d \in Executions PROVE ExecutionIsTrue(d)'
      OBVIOUS
    <3>1. PlanOf(d)' = PlanOf(d) /\ Steps(PlanOf(d))' = Steps(PlanOf(d))
      BY <2>1 DEF PlanOf, Steps
    <3> QED BY <2>1, <3>1, CallsApart DEF TruthInv, ExecutionIsTrue, Reversed, Ahead
  <2>3. \A d \in Rollbacks : RollbackIsTrue(d)'
    BY <2>1, CallsApart DEF TruthInv, RollbackIsTrue, Reversed, Ahead
  <2>4. RecordsAreTrue'
    BY <2>1 DEF TruthInv, RecordsAreTrue, Steps
  <2> QED BY <2>2, <2>3, <2>4 DEF TruthInv
<1> QED BY <1>1, <1>2, <1>3 DEF Next

(* What the records say of the target is so: after "succeeded" every step is in
   place until a request reverses it, and after a successful rollback none of the
   completed reversible steps is, however calls overlap, fail or are lost. *)
THEOREM RecordsTellTheTruth == Spec => []RecordsAreTrue
<1>1. Init => RollbackInv /\ AnswerInv /\ TruthInv
  BY InitRollback, InitAnswer, InitTruth
<1>2. Typed /\ RollbackInv /\ AnswerInv /\ TruthInv /\ [Next]_vars
        => (RollbackInv /\ AnswerInv /\ TruthInv)'
  BY StepRollback, StepAnswer, StepTruth
<1>3. TruthInv => RecordsAreTrue
  BY DEF TruthInv
<1> QED BY <1>1, <1>2, <1>3, Typing, PTL DEF Spec

=============================================================================
