----------------------- MODULE RemediationSystemProofs -----------------------
(***************************************************************************)
(* Authority, for any plans, approvals, requests, executions, leases and   *)
(* limits: what is done to a target is done under a valid approval, and    *)
(* an approval identifier stands for one decision.                         *)
(*                                                                         *)
(* Both rest on what a step may do to the approvals: nothing, one decision *)
(* under an identifier nobody used, or one revocation.                     *)
(***************************************************************************)
EXTENDS RemediationSystem, SequenceTheorems, FiniteSetTheorems, TLAPS

(* Requests and approvals are well-formed, and who revokes has an approval. *)
Reviewed ==
  /\ approvals \in [Approvals -> ApprovalRecord \union {NoRecord}]
  /\ clock \in Nat
  /\ DOMAIN place = Clients
  /\ request \in [Clients -> Review!Request]
  /\ asked \in [Clients -> Nat]
  /\ \A c \in Clients : request[c].op = "revoke" =>
       approvals[request[c].approval] # NoRecord
  /\ \A c \in Clients : request[c].op = "revoke" /\ place[c] = "commit" =>
       approvals[request[c].approval].state = "granted"

(* A decision under a new identifier, and a revocation. *)
Decides(a) ==
  /\ approvals[a] = NoRecord
  /\ \E r \in ApprovalRecord :
       ~r.revoked /\ approvals' = [approvals EXCEPT ![a] = r]

Revokes(a) ==
  /\ approvals[a] \in ApprovalRecord
  /\ approvals[a].state = "granted"
  /\ approvals' = [approvals EXCEPT ![a].revoked = TRUE]

ApprovalStep ==
  \/ UNCHANGED approvals
  \/ \E a \in Approvals : Decides(a) \/ Revokes(a)

-----------------------------------------------------------------------------

(* A request that arrives is well-formed. *)
LEMMA ArrivalStep ==
  ASSUME Reviewed, NEW c \in Clients, Review!Arrival(c)
  PROVE  Reviewed' /\ UNCHANGED approvals
<1> DEFINE Fits(r) == r.op = "revoke" => approvals[r.approval] # NoRecord
<1>1. UNCHANGED <<approvals, clock>>
  BY DEF Review!Arrival, Review!Ask, Review!AskToRevoke, Review!AskToSnooze, Review!AskToList,
         Review!Arrive, Review!document, Review!others
<1>2. request[c] \in Review!Request
  BY DEF Reviewed
<1>3. \E r \in Review!Request : Review!Arrive(c, r) /\ Fits(r)
  <2>1. ASSUME NEW op \in Review!Operations, NEW p \in Plans, NEW t \in Tokens,
               Review!Ask(c, op, p, t)
        PROVE  <1>3
    <3> DEFINE r == [request[c] EXCEPT !.op = op, !.plan = p, !.token = t]
    <3>1. Review!Arrive(c, r) /\ op # "revoke"
      BY <2>1 DEF Review!Ask
    <3>2. r \in Review!Request /\ r.op = op
      BY <1>2 DEF Review!Request
    <3> QED BY <3>1, <3>2
  <2>2. ASSUME NEW a \in Approvals, NEW t \in Tokens, Review!AskToRevoke(c, a, t)
        PROVE  <1>3
    <3> DEFINE r == [request[c] EXCEPT !.op = "revoke", !.approval = a, !.token = t]
    <3>1. Review!Arrive(c, r) /\ approvals[a] # NoRecord
      BY <2>2 DEF Review!AskToRevoke
    <3>2. r \in Review!Request /\ r.approval = a
      BY <1>2 DEF Review!Request, Review!Operations
    <3> QED BY <3>1, <3>2
  <2>3. ASSUME NEW p \in Plans, NEW t \in Tokens,
               NEW until \in clock + 1 .. clock + MaxSnooze,
               Review!AskToSnooze(c, p, t, until)
        PROVE  <1>3
    <3>1. until \in Nat
      BY ReviewAssumption DEF Reviewed
    <3> DEFINE r == [request[c] EXCEPT !.op = "snooze", !.plan = p, !.token = t,
                                       !.until = until]
    <3>2. Review!Arrive(c, r)
      BY <2>3 DEF Review!AskToSnooze
    <3>3. r \in Review!Request /\ r.op = "snooze"
      BY <1>2, <3>1 DEF Review!Request, Review!Operations
    <3> QED BY <3>2, <3>3
  <2>4. ASSUME Review!AskToList(c) PROVE <1>3
    BY <1>2, <2>4 DEF Review!AskToList, Review!Request, Review!Operations
  <2> QED BY <2>1, <2>2, <2>3, <2>4 DEF Review!Arrival
<1>4. PICK r \in Review!Request : Review!Arrive(c, r) /\ Fits(r)
  BY <1>3
<1>5. /\ request' = [request EXCEPT ![c] = r]
      /\ asked' = [asked EXCEPT ![c] = clock]
      /\ place' = [place EXCEPT ![c] = "load"]
  BY <1>4 DEF Review!Arrive, Review!Move
<1> QED BY <1>1, <1>4, <1>5 DEF Reviewed

(* Judging a request changes no approval; a revocation goes on only when the
   approval was granted. *)
LEMMA LoadStep ==
  ASSUME Reviewed, NEW c \in Clients,
         \/ Review!LoadCreate(c) \/ Review!LoadApprove(c) \/ Review!LoadReject(c)
         \/ Review!LoadRevoke(c) \/ Review!LoadSnooze(c) \/ Review!LoadResume(c)
         \/ Review!LoadList(c)
  PROVE  Reviewed' /\ UNCHANGED approvals
<1>1. \E op \in Review!Operations : Review!Judge(c, op)
  BY DEF Review!LoadCreate, Review!LoadApprove, Review!LoadReject, Review!LoadRevoke,
         Review!LoadSnooze, Review!LoadResume, Review!LoadList, Review!Operations
<1>2. UNCHANGED <<approvals, clock, request, asked>>
  BY <1>1 DEF Review!Judge, Review!document, Review!others
<1>3. \E to \in {"commit", "refused", "answered"} : place' = [place EXCEPT ![c] = to]
  BY DEF Review!LoadCreate, Review!LoadApprove, Review!LoadReject, Review!LoadRevoke,
         Review!LoadSnooze, Review!LoadResume, Review!LoadList, Review!Move
<1>4. request[c].op = "revoke" /\ place'[c] = "commit" =>
        approvals[request[c].approval].state = "granted"
  <2> SUFFICES ASSUME request[c].op = "revoke", place'[c] = "commit"
               PROVE  approvals[request[c].approval].state = "granted"
    OBVIOUS
  <2>1. Review!LoadRevoke(c)
    BY DEF Review!LoadCreate, Review!LoadApprove, Review!LoadReject,
           Review!LoadSnooze, Review!LoadResume, Review!LoadList, Review!Judge
  <2> QED BY <2>1 DEF Review!LoadRevoke, Review!Move, Reviewed
<1> QED BY <1>2, <1>3, <1>4 DEF Reviewed

(* A decision is a record of its own, and it is made under an identifier that is
   an approval's. *)
LEMMA NewApprovalDecides ==
  ASSUME Reviewed, NEW c \in Clients, NEW r \in ApprovalRecord, ~r.revoked,
         Review!NewApproval(c, r)
  PROVE  ApprovalStep
<1>1. PICK a \in Approvals :
        approvals' = [approvals EXCEPT ![a] = IF @ = NoRecord THEN r ELSE @]
  <2>1. request[c].plan \in Plans /\ request[c].token \in Tokens
    BY DEF Reviewed, Review!Request
  <2> QED BY <2>1, ApprovalOfAssumption DEF Review!NewApproval, Review!PlanOf
<1>2. CASE approvals[a] = NoRecord
  BY <1>1, <1>2 DEF ApprovalStep, Decides
<1>3. CASE approvals[a] # NoRecord
  BY <1>1, <1>3 DEF ApprovalStep, Reviewed
<1> QED BY <1>2, <1>3

(* A commit decides or revokes at most. *)
LEMMA CommitStep ==
  ASSUME Reviewed, NEW c \in Clients,
         \/ Review!CommitCreate(c) \/ Review!CommitApprove(c) \/ Review!CommitReject(c)
         \/ Review!CommitRevoke(c) \/ Review!CommitSnooze(c) \/ Review!CommitResume(c)
         \/ Review!CommitList(c) \/ Review!CommitFails(c)
  PROVE  /\ ApprovalStep
         /\ UNCHANGED <<request, asked, clock>>
         /\ \E to \in Review!Ended : place' = [place EXCEPT ![c] = to]
<1>1. /\ UNCHANGED <<request, asked, clock>>
      /\ \E to \in Review!Ended : place' = [place EXCEPT ![c] = to]
  BY DEF Review!CommitCreate, Review!CommitApprove, Review!CommitReject, Review!CommitRevoke,
         Review!CommitSnooze, Review!CommitResume, Review!CommitList, Review!CommitFails,
         Review!Commit, Review!Move, Review!others, Review!Ended
<1>2. ASSUME \/ Review!CommitCreate(c) \/ Review!CommitSnooze(c) \/ Review!CommitResume(c)
             \/ Review!CommitList(c) \/ Review!CommitFails(c)
      PROVE  ApprovalStep
  BY <1>2 DEF Review!CommitCreate, Review!CommitSnooze, Review!CommitResume,
              Review!CommitList, Review!CommitFails, Review!document, ApprovalStep
<1>3. ASSUME Review!CommitApprove(c) PROVE ApprovalStep
  <2> DEFINE r == [plan |-> request[c].plan, state |-> "granted", revoked |-> FALSE,
                   expires |-> asked[c] + ApprovalLease]
  <2>1. Review!NewApproval(c, r)
    BY <1>3 DEF Review!CommitApprove, Review!PlanOf
  <2>2. r \in ApprovalRecord
    BY LeaseAssumption DEF Reviewed, Review!Request, ApprovalRecord
  <2>3. ~r.revoked
    OBVIOUS
  <2> QED BY <2>1, <2>2, <2>3, NewApprovalDecides
<1>4. ASSUME Review!CommitReject(c) PROVE ApprovalStep
  <2> DEFINE r == [plan |-> request[c].plan, state |-> "rejected", revoked |-> FALSE,
                   expires |-> 0]
  <2>1. Review!NewApproval(c, r)
    BY <1>4 DEF Review!CommitReject, Review!PlanOf
  <2>2. r \in ApprovalRecord
    BY DEF Reviewed, Review!Request, ApprovalRecord
  <2>3. ~r.revoked
    OBVIOUS
  <2> QED BY <2>1, <2>2, <2>3, NewApprovalDecides
<1>5. ASSUME Review!CommitRevoke(c) PROVE ApprovalStep
  <2> DEFINE a == request[c].approval
  <2>1. place[c] = "commit" /\ request[c].op = "revoke"
        /\ approvals' = [approvals EXCEPT ![a].revoked = TRUE]
    BY <1>5 DEF Review!CommitRevoke, Review!Commit
  <2>2. a \in Approvals
    BY DEF Reviewed, Review!Request
  <2>3. approvals[a] \in ApprovalRecord /\ approvals[a].state = "granted"
    BY <2>1, <2>2 DEF Reviewed
  <2> QED BY <2>1, <2>2, <2>3 DEF ApprovalStep, Revokes
<1> QED BY <1>1, <1>2, <1>3, <1>4, <1>5

(* What was decided under an identifier stays. *)
Firm ==
  \A a \in Approvals : approvals[a] # NoRecord =>
    /\ approvals'[a] # NoRecord
    /\ approvals'[a].state = approvals[a].state
    /\ approvals'[a].plan = approvals[a].plan
    /\ approvals'[a].expires = approvals[a].expires

(* A later decision or revocation does not change what an approval was given for. *)
LEMMA DecisionsAreFirm ==
  ASSUME Reviewed, ApprovalStep
  PROVE  Firm /\ approvals' \in [Approvals -> ApprovalRecord \union {NoRecord}]
<1>1. CASE UNCHANGED approvals
  BY <1>1 DEF Reviewed, Firm
<1>2. ASSUME NEW a \in Approvals, Decides(a)
      PROVE  Firm /\ approvals' \in [Approvals -> ApprovalRecord \union {NoRecord}]
  BY <1>2, NoRecordAssumption DEF Reviewed, Firm, Decides
<1>3. ASSUME NEW a \in Approvals, Revokes(a)
      PROVE  Firm /\ approvals' \in [Approvals -> ApprovalRecord \union {NoRecord}]
  <2> DEFINE r == [approvals[a] EXCEPT !.revoked = TRUE]
  <2>1. /\ r \in ApprovalRecord
        /\ r.state = approvals[a].state
        /\ r.plan = approvals[a].plan
        /\ r.expires = approvals[a].expires
    BY <1>3 DEF Revokes, ApprovalRecord
  <2>2. approvals' = [approvals EXCEPT ![a] = r]
    BY <1>3 DEF Revokes
  <2> HIDE DEF r
  <2> QED BY <2>1, <2>2, NoRecordAssumption DEF Reviewed, Firm
<1> QED BY <1>1, <1>2, <1>3 DEF ApprovalStep

(* A review request keeps requests and approvals well-formed. *)
LEMMA ReviewingStep ==
  ASSUME Reviewed, NEW c \in Clients, Reviewing(c)
  PROVE  Reviewed' /\ ApprovalStep
<1>1. CASE Review!Arrival(c)
  BY <1>1, ArrivalStep DEF ApprovalStep
<1>2. CASE \/ Review!LoadCreate(c) \/ Review!LoadApprove(c) \/ Review!LoadReject(c)
           \/ Review!LoadRevoke(c) \/ Review!LoadSnooze(c) \/ Review!LoadResume(c)
           \/ Review!LoadList(c)
  BY <1>2, LoadStep DEF ApprovalStep
<1>3. CASE \/ Review!CommitCreate(c) \/ Review!CommitApprove(c) \/ Review!CommitReject(c)
           \/ Review!CommitRevoke(c) \/ Review!CommitSnooze(c) \/ Review!CommitResume(c)
           \/ Review!CommitList(c) \/ Review!CommitFails(c)
  <2>1. ApprovalStep
    BY <1>3, CommitStep
  <2>2. Firm /\ approvals' \in [Approvals -> ApprovalRecord \union {NoRecord}]
    BY <2>1, DecisionsAreFirm
  <2>3. UNCHANGED <<request, asked, clock>>
    BY <1>3, CommitStep
  <2>4. \E to \in Review!Ended : place' = [place EXCEPT ![c] = to]
    BY <1>3, CommitStep
  <2>5. \A d \in Clients : request[d].approval \in Approvals
    BY DEF Reviewed, Review!Request
  <2> QED BY <2>1, <2>2, <2>3, <2>4, <2>5 DEF Reviewed, Firm, Review!Ended
<1> QED BY <1>1, <1>2, <1>3 DEF Reviewing, Review!Step

-----------------------------------------------------------------------------

(* The calls are known, and an execution that came past its judgement was
   authorised: only executions change a target, and none has that was not made. *)
Called ==
  /\ DOMAIN pc = Calls /\ DOMAIN arg = Calls /\ DOMAIN now = Calls
  /\ ending \in [Calls -> {"returned", "rejected", "raised"}]
  /\ \A c \in Executions : arg[c] \in Argument

JudgedFirst ==
  \A c \in Calls :
    /\ pc[c] \in {"check", "execute", "verify"} => c \in Executions
    /\ c \in Executions /\ pc[c] \in {"lock", "check", "execute", "verify"} => Authorised(c)

MadeFirst == \A x \in inEffect : x[1] \in Executions /\ pc[x[1]] # "idle"

AuthInv == Reviewed /\ Called /\ JudgedFirst /\ MadeFirst /\ AuthorisedExecution

(* An authorised call stays so whatever becomes of the approvals. *)
LEMMA StaysAuthorised ==
  ASSUME Firm, NEW c \in Executions, arg[c] \in Argument, Authorised(c),
         arg'[c] = arg[c], now'[c] = now[c]
  PROVE  Authorised(c)'
BY DEF Firm, Authorised, PlanOf, Argument

(* The invariant holds at first. *)
LEMMA InitAuth == SystemInit => AuthInv
<1> SUFFICES ASSUME SystemInit PROVE AuthInv
  OBVIOUS
<1>1. Plans # {} /\ Approvals # {} /\ Tokens # {} /\ Executions # {}
  BY ArgumentsAssumption
<1>2. Reviewed
  BY <1>1 DEF SystemInit, Review!ReviewInit, Reviewed, Review!Request, Review!Operations
<1>3. Called
  <2>1. Argument # {}
    <3>1. PICK p \in Plans, a \in Approvals, t \in Tokens, e \in Executions : TRUE
      BY <1>1
    <3>2. [plan |-> p, approval |-> a, token |-> t, execution |-> e] \in Argument
      BY DEF Argument
    <3> QED BY <3>2
  <2>2. (CHOOSE a \in Argument : TRUE) \in Argument
    BY <2>1
  <2> QED BY <2>2 DEF SystemInit, LocalInit, Called, Calls
<1> QED BY <1>2, <1>3 DEF SystemInit, LocalInit, AuthInv, JudgedFirst, MadeFirst,
                          AuthorisedExecution

(* Where calls and approvals are not touched, nothing changes. *)
LEMMA ReviewingKeeps ==
  ASSUME AuthInv, Reviewed', ApprovalStep,
         UNCHANGED <<pc, arg, now, ending, inEffect>>
  PROVE  AuthInv'
<1>1. Firm
  BY DecisionsAreFirm DEF AuthInv
<1>2. Called' /\ MadeFirst'
  BY DEF AuthInv, Called, MadeFirst
<1>3. ASSUME NEW c \in Executions, Authorised(c) PROVE Authorised(c)'
  BY <1>1, <1>3, StaysAuthorised DEF AuthInv, Called
<1>4. JudgedFirst'
  BY <1>3 DEF AuthInv, JudgedFirst
<1>5. AuthorisedExecution'
  BY <1>3 DEF AuthInv, MadeFirst, AuthorisedExecution
<1> QED BY <1>2, <1>4, <1>5 DEF AuthInv

(* A call that is made changes only itself. *)
LEMMA BeginKeeps ==
  ASSUME AuthInv, NEW c \in Calls,
         \/ \E p \in Plans, a \in Approvals, t \in Tokens : BeginExecution(c, p, a, t)
         \/ \E e \in executions, t \in Tokens : BeginRollback(c, e, t)
  PROVE  /\ Called' /\ JudgedFirst' /\ MadeFirst' /\ AuthorisedExecution'
         /\ UNCHANGED <<approvals, clock>>
<1> USE DEF AuthInv, Called, JudgedFirst, MadeFirst
<1>1. UNCHANGED <<approvals, clock, inEffect, ending>>
  BY DEF BeginExecution, BeginRollback, records, world, progress
<1>2. pc[c] = "idle" /\ \E to \in {"token", "load"} : pc' = [pc EXCEPT ![c] = to]
  BY DEF BeginExecution, BeginRollback, Goto
<1>3. \A d \in Calls \ {c} : arg'[d] = arg[d] /\ now'[d] = now[d] /\ pc'[d] = pc[d]
  BY DEF BeginExecution, BeginRollback, Goto
<1>4. DOMAIN arg' = Calls /\ DOMAIN now' = Calls
  BY DEF BeginExecution, BeginRollback
<1>5. c \in Executions => arg'[c] \in Argument
  <2> SUFFICES ASSUME c \in Executions PROVE arg'[c] \in Argument
    OBVIOUS
  <2>1. PICK p \in Plans, a \in Approvals, t \in Tokens : BeginExecution(c, p, a, t)
    BY CallsAssumption DEF BeginRollback
  <2>2. arg'[c] = [arg[c] EXCEPT !.plan = p, !.approval = a, !.token = t]
    BY <2>1 DEF BeginExecution
  <2> QED BY <2>2 DEF Argument
<1>6. Called'
  BY <1>1, <1>2, <1>3, <1>4, <1>5 DEF Calls
<1>7. ASSUME NEW d \in Calls \ {c}, Authorised(d) PROVE Authorised(d)'
  BY <1>1, <1>3, <1>7 DEF Authorised, PlanOf
<1>8. JudgedFirst'
  BY <1>2, <1>3, <1>7
<1>9. \A x \in inEffect : x[1] \in Calls \ {c}
  BY <1>2 DEF Calls
<1>10. MadeFirst'
  BY <1>1, <1>3, <1>9
<1>11. AuthorisedExecution'
  BY <1>1, <1>7, <1>9 DEF AuthorisedExecution
<1> QED BY <1>1, <1>6, <1>8, <1>10, <1>11

(* What a step of a call may do: go on, past its judgement only when authorised,
   and change the target only as an authorised execution. *)
Goes(c) ==
  /\ DOMAIN pc' = Calls
  /\ \A d \in Calls \ {c} : pc'[d] = pc[d]
  /\ pc'[c] # "idle"
  /\ pc'[c] \in {"check", "execute", "verify"} => c \in Executions
  /\ c \in Executions /\ pc'[c] \in {"lock", "check", "execute", "verify"} => Authorised(c)
  /\ \A x \in inEffect' :
       x \in inEffect \/ (x[1] = c /\ c \in Executions /\ Authorised(c))

(* A step of a call that does no more than this keeps every execution authorised. *)
LEMMA CallKeeps ==
  ASSUME AuthInv, NEW c \in Calls, Goes(c),
         UNCHANGED <<approvals, arg, now>>,
         ending' \in [Calls -> {"returned", "rejected", "raised"}]
  PROVE  Called' /\ JudgedFirst' /\ MadeFirst' /\ AuthorisedExecution'
<1> USE DEF AuthInv, Called, JudgedFirst, MadeFirst, Goes
<1>1. \A d \in Calls : Authorised(d) <=> Authorised(d)'
  BY DEF Authorised, PlanOf
<1>2. Called'
  OBVIOUS
<1>3. JudgedFirst'
  BY <1>1 DEF Calls
<1>4. MadeFirst'
  BY DEF Calls
<1>5. AuthorisedExecution'
  BY <1>1 DEF AuthorisedExecution, Calls
<1> QED BY <1>2, <1>3, <1>4, <1>5

(* Where a call goes next, step by step. *)
LEMMA StepGoes ==
  ASSUME AuthInv, NEW c \in Calls, Step(c)
  PROVE  /\ Goes(c)
         /\ UNCHANGED <<approvals, arg, now>>
         /\ ending' \in [Calls -> {"returned", "rejected", "raised"}]
<1> DEFINE Kept == /\ UNCHANGED <<approvals, arg, now>>
                   /\ ending' \in [Calls -> {"returned", "rejected", "raised"}]
<1>0. /\ ending \in [Calls -> {"returned", "rejected", "raised"}]
      /\ DOMAIN pc = Calls
      /\ pc[c] \in {"check", "execute", "verify"} => c \in Executions
      /\ c \in Executions /\ pc[c] \in {"lock", "check", "execute", "verify"} => Authorised(c)
  BY DEF AuthInv, Called, JudgedFirst
<1> USE DEF Goto
<1>1. ASSUME Token(c) \/ TokenExhausted(c) \/ LoadExecution(c)
      PROVE  Kept /\ Goes(c)
  BY <1>0, <1>1, CallsAssumption
  DEF Token, TokenExhausted, LoadExecution, records, progress, world, Goes
<1>2. ASSUME LoadPlan(c)
      PROVE  Kept /\ Goes(c)
  <2>1. Kept /\ UNCHANGED inEffect
    BY <1>0, <1>2 DEF LoadPlan, records, world
  <2>2. CASE pc' = [pc EXCEPT ![c] = "refuse"]
    BY <1>0, <2>1, <2>2 DEF Goes
  <2>3. CASE /\ pc' = [pc EXCEPT ![c] = "lock"]
             /\ ValidFor(approvals[arg[c].approval], PlanOf(c), now[c])
    <3>1. Authorised(c)
      BY <2>3 DEF ValidFor, Authorised
    <3> QED BY <1>0, <2>1, <2>3, <3>1 DEF Goes
  <2> QED BY <1>2, <2>2, <2>3 DEF LoadPlan, Refuse
<1>3. ASSUME AcquireLock(c) \/ LockRefused(c)
      PROVE  Kept /\ Goes(c)
  BY <1>0, <1>3 DEF AcquireLock, LockRefused, Refuse, records, progress, world, Goes
<1>4. ASSUME Check(c)
      PROVE  Kept /\ Goes(c)
  BY <1>0, <1>4 DEF Check, Block, records, world, Goes
<1>5. ASSUME ExecuteStep(c)
      PROVE  Kept /\ Goes(c)
  <2>1. Kept /\ c \in Executions /\ Authorised(c)
    BY <1>0, <1>5 DEF ExecuteStep, records
  <2>2. \E to \in {"verify", "record", "undo", "block"} : pc' = [pc EXCEPT ![c] = to]
    BY <1>5 DEF ExecuteStep, StopAndUndo, Block
  <2>3. \A x \in inEffect' : x \in inEffect \/ x[1] = c
    BY <1>5 DEF ExecuteStep
  <2> QED BY <1>0, <2>1, <2>2, <2>3 DEF Goes
<1>6. ASSUME VerifyStep(c)
      PROVE  Kept /\ Goes(c)
  <2>1. Kept /\ c \in Executions /\ Authorised(c) /\ UNCHANGED inEffect
    BY <1>0, <1>6 DEF VerifyStep, records, world
  <2>2. \E to \in {"execute", "record", "undo", "block"} : pc' = [pc EXCEPT ![c] = to]
    BY <1>6 DEF VerifyStep, StopAndUndo, Block
  <2> QED BY <1>0, <2>1, <2>2 DEF Goes
<1>7. ASSUME UndoStep(c)
      PROVE  Kept /\ Goes(c)
  <2>1. Kept /\ pc[c] = "undo"
    BY <1>0, <1>7 DEF UndoStep, records
  <2>2. \A x \in inEffect' : x \in inEffect
    BY <1>7 DEF UndoStep
  <2>3. UNCHANGED pc \/ pc' = [pc EXCEPT ![c] = "record"]
    BY <1>7 DEF UndoStep
  <2> QED BY <1>0, <2>1, <2>2, <2>3 DEF Goes
<1>8. ASSUME RecordExecution(c) \/ RecordFails(c) \/ RecordRollback(c) \/ RecordRollbackFails(c)
      PROVE  Kept /\ Goes(c)
  <2>1. UNCHANGED <<approvals, arg, now, inEffect>>
    BY <1>8 DEF RecordExecution, RecordFails, RecordRollback, RecordRollbackFails, records, world
  <2>2. /\ \E to \in {"returned", "rejected", "raised", "release", "block"} :
             pc' = [pc EXCEPT ![c] = to]
        /\ \/ UNCHANGED ending
           \/ \E how \in {"returned", "rejected", "raised"} :
                ending' = [ending EXCEPT ![c] = how]
    BY <1>8 DEF RecordExecution, RecordFails, RecordRollback, RecordRollbackFails, Leave, Block
  <2> QED BY <1>0, <2>1, <2>2 DEF Goes
<1>9. ASSUME Release(c)
      PROVE  Kept /\ Goes(c)
  <2>1. Kept /\ UNCHANGED inEffect /\ pc' = [pc EXCEPT ![c] = ending[c]]
    BY <1>0, <1>9 DEF Release, progress
  <2>2. ending[c] \in {"returned", "rejected", "raised"}
    BY <1>0
  <2> QED BY <1>0, <2>1, <2>2 DEF Goes
<1> QED BY <1>1, <1>2, <1>3, <1>4, <1>5, <1>6, <1>7, <1>8, <1>9 DEF Step

(* What the coordinator and the service around it do, they do to their calls. *)
LEMMA RepairingKeeps ==
  ASSUME AuthInv, NEW c \in Calls, Repairing(c)
  PROVE  AuthInv' /\ UNCHANGED approvals
<1>1. ASSUME \/ \E p \in Plans, a \in Approvals, t \in Tokens : RequestExecution(c, p, a, t)
             \/ \E e \in executions, t \in Tokens : RequestRollback(c, e, t)
      PROVE  AuthInv' /\ UNCHANGED approvals
  <2>1. \/ \E p \in Plans, a \in Approvals, t \in Tokens : BeginExecution(c, p, a, t)
        \/ \E e \in executions, t \in Tokens : BeginRollback(c, e, t)
    BY <1>1 DEF RequestExecution, RequestRollback
  <2>2. /\ Called' /\ JudgedFirst' /\ MadeFirst' /\ AuthorisedExecution'
        /\ UNCHANGED <<approvals, clock>>
    BY <2>1, BeginKeeps
  <2>3. UNCHANGED <<place, request, asked>>
    BY <1>1 DEF RequestExecution, RequestRollback, Reports, reviewCalls
  <2>4. Reviewed'
    BY <2>2, <2>3 DEF AuthInv, Reviewed
  <2> QED BY <2>2, <2>4 DEF AuthInv
<1>2. ASSUME Step(c), UNCHANGED reviewVars
      PROVE  AuthInv' /\ UNCHANGED approvals
  <2>1. /\ Goes(c)
        /\ UNCHANGED <<approvals, arg, now>>
        /\ ending' \in [Calls -> {"returned", "rejected", "raised"}]
    BY <1>2, StepGoes
  <2>2. Called' /\ JudgedFirst' /\ MadeFirst' /\ AuthorisedExecution'
    BY <2>1, CallKeeps
  <2>3. UNCHANGED clock
    BY <1>2 DEF Step, Token, TokenExhausted, LoadPlan, LoadExecution, AcquireLock, LockRefused,
                Check, ExecuteStep, VerifyStep, UndoStep, RecordExecution, RecordFails,
                RecordRollback, RecordRollbackFails, Release, world
  <2>4. Reviewed'
    BY <1>2, <2>1, <2>3 DEF AuthInv, Reviewed, reviewVars, reviewCalls
  <2> QED BY <2>1, <2>2, <2>4 DEF AuthInv
<1>3. ASSUME ReportOutcome(c) \/ ReportFails(c)
      PROVE  AuthInv' /\ UNCHANGED approvals
  <2>1. /\ UNCHANGED <<approvals, clock, pc, arg, now, ending, inEffect>>
        /\ UNCHANGED <<place, request, asked>>
    BY <1>3 DEF ReportOutcome, ReportFails, Reports, vars, records, progress, world,
                reviewVars, reviewCalls
  <2>2. Reviewed' /\ ApprovalStep
    BY <2>1 DEF AuthInv, Reviewed, ApprovalStep
  <2> QED BY <2>1, <2>2, ReviewingKeeps
<1> QED BY <1>1, <1>2, <1>3 DEF Repairing

(* Every step keeps what authority rests on. *)
LEMMA AuthStep ==
  ASSUME AuthInv, [SystemNext]_systemVars
  PROVE  AuthInv' /\ ApprovalStep
<1>1. ASSUME NEW c \in Clients, Reviewing(c) PROVE AuthInv' /\ ApprovalStep
  <2>1. Reviewed' /\ ApprovalStep
    BY <1>1, ReviewingStep DEF AuthInv
  <2>2. UNCHANGED <<pc, arg, now, ending, inEffect>>
    BY <1>1 DEF Reviewing, progress
  <2> QED BY <2>1, <2>2, ReviewingKeeps
<1>2. ASSUME NEW c \in Calls, Repairing(c) PROVE AuthInv' /\ ApprovalStep
  BY <1>2, RepairingKeeps DEF ApprovalStep
<1>3. ASSUME Tick, UNCHANGED <<reviewVars, closed>> PROVE AuthInv' /\ ApprovalStep
  <2>1. UNCHANGED <<approvals, pc, arg, now, ending, inEffect, place, request, asked>>
    BY <1>3 DEF Tick, records, progress, reviewVars, reviewCalls
  <2>2. clock' \in Nat
    BY <1>3 DEF Tick, AuthInv, Reviewed
  <2>3. Reviewed' /\ ApprovalStep
    BY <2>1, <2>2 DEF AuthInv, Reviewed, ApprovalStep
  <2> QED BY <2>1, <2>3, ReviewingKeeps
<1>4. ASSUME Restart PROVE AuthInv' /\ ApprovalStep
  <2>1. UNCHANGED <<approvals, arg, now, ending, inEffect, clock, request, asked>>
    BY <1>4 DEF Restart, Crash, records, progress
  <2>2. Reviewed' /\ ApprovalStep
    BY <1>4, <2>1 DEF Restart, AuthInv, Reviewed, ApprovalStep
  <2>3. pc' = [c \in Calls |-> IF pc[c] \in Resting THEN pc[c] ELSE "lost"]
    BY <1>4 DEF Restart, Crash
  <2>4. \A c \in Calls : Authorised(c) <=> Authorised(c)'
    BY <2>1 DEF Authorised, PlanOf
  <2>5. Called' /\ MadeFirst'
    BY <2>1, <2>3 DEF AuthInv, Called, MadeFirst, Calls
  <2>6. JudgedFirst'
    BY <2>3, <2>4 DEF AuthInv, JudgedFirst, Resting
  <2>7. AuthorisedExecution'
    BY <2>1, <2>4 DEF AuthInv, MadeFirst, AuthorisedExecution, Calls
  <2> QED BY <2>2, <2>5, <2>6, <2>7 DEF AuthInv
<1>5. ASSUME UNCHANGED systemVars PROVE AuthInv' /\ ApprovalStep
  <2>1. /\ UNCHANGED <<approvals, clock, pc, arg, now, ending, inEffect>>
        /\ UNCHANGED <<place, request, asked>>
    BY <1>5 DEF systemVars, vars, records, progress, world, reviewVars, reviewCalls
  <2>2. Reviewed' /\ ApprovalStep
    BY <2>1 DEF AuthInv, Reviewed, ApprovalStep
  <2> QED BY <2>1, <2>2, ReviewingKeeps
<1> QED BY <1>1, <1>2, <1>3, <1>4, <1>5 DEF SystemNext

(* Whatever is done to a target is done under an approval that was granted for
   this plan and had not run out when the execution was asked for
   (coordinator.py 443-469), however reviews, executions, rollbacks and restarts
   overlap. *)
THEOREM ExecutionsAreAuthorised == SystemSpec => []AuthorisedExecution
<1>1. AuthInv /\ [SystemNext]_systemVars => AuthInv'
  BY AuthStep
<1>2. AuthInv => AuthorisedExecution
  BY DEF AuthInv
<1> QED BY InitAuth, <1>1, <1>2, PTL DEF SystemSpec

-----------------------------------------------------------------------------

(* What a step does to the approvals is a step of the ledger. *)
LEMMA LedgerStep ==
  ASSUME Reviewed, Reviewed', ApprovalStep
  PROVE  [Ledger!Next]_(Ledger!vars)
<1> USE DEF Review!Subject, Review!Decision
<1>1. CASE UNCHANGED approvals
  BY <1>1 DEF Ledger!vars
<1>2. ASSUME NEW a \in Approvals, Decides(a) PROVE Ledger!Next
  <2>1. PICK r \in ApprovalRecord : ~r.revoked /\ approvals' = [approvals EXCEPT ![a] = r]
    BY <1>2 DEF Decides
  <2>2. r # NoRecord /\ r.plan \in Plans /\ r.state \in {"granted", "rejected"}
    BY NoRecordAssumption DEF ApprovalRecord
  <2>3. Ledger!Decide(a, r.plan, r.state)
    BY <1>2, <2>1, <2>2 DEF Ledger!Decide, Decides, Reviewed
  <2> QED BY <2>2, <2>3 DEF Ledger!Next
<1>3. ASSUME NEW a \in Approvals, Revokes(a) PROVE [Ledger!Next]_(Ledger!vars)
  <2> DEFINE r == [approvals[a] EXCEPT !.revoked = TRUE]
  <2>1. /\ r \in ApprovalRecord /\ r.revoked
        /\ r.plan = approvals[a].plan
    BY <1>3 DEF Revokes, ApprovalRecord
  <2>2. approvals' = [approvals EXCEPT ![a] = r] /\ approvals[a] # NoRecord /\ r # NoRecord
        /\ approvals[a].state = "granted"
    BY <1>3, <2>1, NoRecordAssumption DEF Revokes
  <2> HIDE DEF r
  <2>3. UNCHANGED Review!Subject
    BY <2>1, <2>2 DEF Reviewed
  <2>4. CASE approvals[a].revoked
    <3>1. UNCHANGED Review!Decision
      BY <2>1, <2>2, <2>4 DEF Reviewed
    <3> QED BY <2>3, <3>1 DEF Ledger!vars
  <2>5. CASE ~approvals[a].revoked
    <3>1. Ledger!Revoke(a)
      BY <2>1, <2>2, <2>3, <2>5 DEF Ledger!Revoke, Reviewed
    <3> QED BY <3>1 DEF Ledger!Next
  <2> QED BY <2>4, <2>5
<1> QED BY <1>1, <1>2, <1>3 DEF ApprovalStep

(* An approval identifier stands for one decision for ever: no retry and no
   opposite decision replaces it, and revoked authority stays revoked
   (domain/remediation_approval.py 53-61). *)
THEOREM DecisionsArePermanent == SystemSpec => ImplementsApprovalLedger
<1>1. SystemInit => Ledger!Init
  BY DEF SystemInit, Review!ReviewInit, Ledger!Init, Review!Subject, Review!Decision
<1>2. AuthInv /\ [SystemNext]_systemVars => AuthInv' /\ [Ledger!Next]_(Ledger!vars)
  BY AuthStep, LedgerStep DEF AuthInv
<1> QED BY InitAuth, <1>1, <1>2, PTL DEF SystemSpec, ImplementsApprovalLedger, Ledger!Spec

-----------------------------------------------------------------------------

(* The audit log is the end of all that was ever appended, and every snooze whose
   record is still in it stands there at its place. *)
Numbered ==
  /\ \E S : audits \in Seq(S)
  /\ appended \in Nat /\ Len(audits) <= appended
  /\ Len(audits) < appended => Len(audits) = MaxAudits

Forgotten == appended - Len(audits)

SnoozeRecord(s) == [event |-> "proposal_snoozed", token |-> s.token]

Noted ==
  /\ snoozings \in Seq([token : Tokens, plan : Plans, at : Nat])
  /\ \A i \in 1 .. Len(snoozings) :
       /\ snoozings[i].at < appended
       /\ Forgotten <= snoozings[i].at =>
            audits[snoozings[i].at + 1 - Forgotten] = SnoozeRecord(snoozings[i])

SnoozeInv == Numbered /\ Noted /\ SnoozedOnce

(* A longer log keeps its end. *)
LEMMA LatestIsTheEnd ==
  ASSUME NEW S, NEW s \in Seq(S)
  PROVE  /\ Review!Latest(s) \in Seq(S)
         /\ Len(Review!Latest(s)) = IF Len(s) <= MaxAudits THEN Len(s) ELSE MaxAudits
         /\ \A k \in 1 .. Len(Review!Latest(s)) :
              Review!Latest(s)[k] = s[k + Len(s) - Len(Review!Latest(s))]
<1>1. CASE Len(s) <= MaxAudits
  BY <1>1 DEF Review!Latest
<1>2. CASE ~(Len(s) <= MaxAudits)
  <2>1. Review!Latest(s) = SubSeq(s, Len(s) - MaxAudits + 1, Len(s))
    BY <1>2 DEF Review!Latest
  <2>2. Len(s) \in Nat /\ MaxAudits \in Nat
    BY ReviewAssumption
  <2>3. Len(s) - MaxAudits + 1 \in 1 .. Len(s) + 1 /\ Len(s) \in 0 .. Len(s)
    BY <1>2, <2>2, ReviewAssumption
  <2>4. /\ SubSeq(s, Len(s) - MaxAudits + 1, Len(s)) \in Seq(S)
        /\ Len(SubSeq(s, Len(s) - MaxAudits + 1, Len(s))) = MaxAudits
        /\ \A k \in 1 .. MaxAudits :
             SubSeq(s, Len(s) - MaxAudits + 1, Len(s))[k] = s[Len(s) - MaxAudits + 1 + k - 1]
    BY <1>2, <2>2, <2>3, SubSeqProperties
  <2> QED BY <1>2, <2>1, <2>2, <2>4
<1> QED BY <1>1, <1>2

(* Appending moves every record of the log by as much as is forgotten. *)
LEMMA AppendMoves ==
  ASSUME Numbered, NEW T, NEW new \in Seq(T), Review!Appends(new)
  PROVE  /\ Numbered'
         /\ appended' = appended + Len(new) /\ Len(new) \in Nat
         /\ Forgotten \in Nat /\ Forgotten' \in Nat /\ Forgotten <= Forgotten'
         /\ \A k \in Forgotten' .. appended' - 1 :
              audits'[k + 1 - Forgotten'] = IF k < appended THEN audits[k + 1 - Forgotten]
                                                            ELSE new[k + 1 - appended]
<1>1. PICK S : audits \in Seq(S)
  BY DEF Numbered
<1> DEFINE U == S \union T
           all == audits \o new
<1>2. audits \in Seq(U) /\ new \in Seq(U)
  BY <1>1, SeqMonotonic
<1> HIDE DEF U
<1>3. /\ all \in Seq(U) /\ Len(all) = Len(audits) + Len(new)
      /\ \A k \in 1 .. Len(all) : all[k] = IF k <= Len(audits) THEN audits[k]
                                                              ELSE new[k - Len(audits)]
  BY <1>2, ConcatProperties
<1>4. audits' = Review!Latest(all) /\ appended' = appended + Len(new)
  BY DEF Review!Appends
<1> HIDE DEF all
<1>5. /\ audits' \in Seq(U)
      /\ Len(audits') = IF Len(all) <= MaxAudits THEN Len(all) ELSE MaxAudits
      /\ \A k \in 1 .. Len(audits') : audits'[k] = all[k + Len(all) - Len(audits')]
  BY <1>3, <1>4, LatestIsTheEnd
<1>6. Len(audits) \in Nat /\ Len(new) \in Nat /\ Len(audits') \in Nat /\ MaxAudits \in Nat
  BY <1>2, <1>5, ReviewAssumption, LenProperties
<1>7. Numbered'
  BY <1>3, <1>4, <1>5, <1>6 DEF Numbered
<1>8. /\ Forgotten \in Nat /\ Forgotten' \in Nat
      /\ Forgotten' = Forgotten + Len(all) - Len(audits')
      /\ Len(audits') <= Len(all)
  BY <1>3, <1>4, <1>5, <1>6 DEF Numbered, Forgotten
<1>9. ASSUME NEW k \in Forgotten' .. appended' - 1
      PROVE  audits'[k + 1 - Forgotten'] = IF k < appended THEN audits[k + 1 - Forgotten]
                                                           ELSE new[k + 1 - appended]
  <2>1. k \in Nat /\ appended \in Nat
    BY <1>4, <1>6, <1>8 DEF Numbered
  <2> DEFINE j == k + 1 - Forgotten'
             i == k + 1 - Forgotten
  <2>2. j \in 1 .. Len(audits')
    BY <1>4, <1>6, <1>8, <2>1 DEF Forgotten
  <2>3. j + Len(all) - Len(audits') = i /\ i \in 1 .. Len(all)
    BY <1>3, <1>6, <1>8, <2>1, <2>2
  <2>4. audits'[j] = all[i]
    BY <1>5, <2>2, <2>3
  <2>5. all[i] = IF i <= Len(audits) THEN audits[i] ELSE new[i - Len(audits)]
    BY <1>3, <2>3
  <2>6. (k < appended <=> i <= Len(audits)) /\ i - Len(audits) = k + 1 - appended
    BY <1>6, <2>1 DEF Forgotten
  <2> QED BY <2>4, <2>5, <2>6
<1>10. Len(all) \in Nat
  BY <1>3, <1>6
<1>11. Forgotten <= Forgotten'
  BY <1>6, <1>8, <1>10
<1> QED BY <1>4, <1>6, <1>7, <1>8, <1>9, <1>11

(* Where the log remembers a snooze, and when it was. *)
LEMMA SnoozeStands ==
  ASSUME Noted, NEW i \in 1 .. Len(snoozings)
  PROVE  /\ snoozings[i].at \in Nat /\ snoozings[i].at < appended
         /\ Forgotten <= snoozings[i].at =>
              audits[snoozings[i].at + 1 - Forgotten] = SnoozeRecord(snoozings[i])
<1>1. snoozings[i] \in [token : Tokens, plan : Plans, at : Nat]
  BY ElementOfSeq DEF Noted
<1>2. snoozings[i].at \in Nat
  BY <1>1
<1> QED BY <1>2 DEF Noted

(* What is appended by another operation leaves the snoozes at their places. *)
LEMMA AppendKeeps ==
  ASSUME SnoozeInv, NEW T, NEW new \in Seq(T), Review!Appends(new), UNCHANGED snoozings
  PROVE  SnoozeInv'
<1>1. /\ Numbered' /\ Forgotten \in Nat /\ Forgotten' \in Nat /\ Forgotten <= Forgotten'
      /\ appended' = appended + Len(new) /\ Len(new) \in Nat
      /\ \A k \in Forgotten' .. appended' - 1 :
           audits'[k + 1 - Forgotten'] = IF k < appended THEN audits[k + 1 - Forgotten]
                                                         ELSE new[k + 1 - appended]
  BY AppendMoves DEF SnoozeInv
<1>2. ASSUME NEW i \in 1 .. Len(snoozings)
      PROVE  /\ snoozings[i].at < appended'
             /\ Forgotten' <= snoozings[i].at =>
                  audits'[snoozings[i].at + 1 - Forgotten'] = SnoozeRecord(snoozings[i])
  <2>1. /\ snoozings[i].at \in Nat /\ snoozings[i].at < appended /\ appended \in Nat
        /\ Forgotten <= snoozings[i].at =>
             audits[snoozings[i].at + 1 - Forgotten] = SnoozeRecord(snoozings[i])
    BY SnoozeStands DEF SnoozeInv, Numbered
  <2>2. snoozings[i].at < appended'
    BY <1>1, <2>1
  <2>3. ASSUME Forgotten' <= snoozings[i].at
        PROVE  audits'[snoozings[i].at + 1 - Forgotten'] = SnoozeRecord(snoozings[i])
    <3>1. snoozings[i].at \in Forgotten' .. appended' - 1
      BY <1>1, <2>1, <2>2, <2>3
    <3>2. Forgotten <= snoozings[i].at
      BY <1>1, <2>1, <2>3
    <3> QED BY <1>1, <2>1, <3>1, <3>2
  <2> QED BY <2>2, <2>3
<1>3. Noted'
  BY <1>2 DEF SnoozeInv, Noted, SnoozeRecord
<1>4. SnoozedOnce'
  BY DEF SnoozeInv, SnoozedOnce, Review!SnoozedOnce
<1> QED BY <1>1, <1>3, <1>4 DEF SnoozeInv

(* A snooze that is carried out found no record of its token in the log, so an
   earlier one with that token is forgotten. *)
LEMMA SnoozeKeeps ==
  ASSUME SnoozeInv, NEW s \in [token : Tokens, plan : Plans, at : {appended}],
         ~Review!Known(SnoozeRecord(s)), Review!Appends(<<SnoozeRecord(s)>>),
         snoozings' = Append(snoozings, s)
  PROVE  SnoozeInv'
<1> DEFINE new == <<SnoozeRecord(s)>>
<1>0. new \in Seq({SnoozeRecord(s)}) /\ Len(new) = 1 /\ new[1] = SnoozeRecord(s)
  OBVIOUS
<1>1. /\ Numbered' /\ Forgotten \in Nat /\ Forgotten' \in Nat /\ Forgotten <= Forgotten'
      /\ appended' = appended + 1
      /\ \A k \in Forgotten' .. appended' - 1 :
           audits'[k + 1 - Forgotten'] = IF k < appended THEN audits[k + 1 - Forgotten]
                                                         ELSE new[k + 1 - appended]
  BY <1>0, AppendMoves DEF SnoozeInv
<1>2. /\ appended \in Nat /\ s.at = appended /\ Len(audits) \in Nat
      /\ \A i \in 1 .. Len(snoozings) :
           /\ snoozings[i].at \in Nat /\ snoozings[i].at < appended
           /\ Forgotten <= snoozings[i].at =>
                audits[snoozings[i].at + 1 - Forgotten] = SnoozeRecord(snoozings[i])
  <2>1. appended \in Nat /\ s.at = appended /\ Len(audits) \in Nat
    BY DEF SnoozeInv, Numbered
  <2> QED BY <2>1, SnoozeStands DEF SnoozeInv
<1>3. /\ snoozings' \in Seq([token : Tokens, plan : Plans, at : Nat])
      /\ Len(snoozings') = Len(snoozings) + 1 /\ Len(snoozings) \in Nat
      /\ \A i \in 1 .. Len(snoozings) : snoozings'[i] = snoozings[i]
      /\ snoozings'[Len(snoozings) + 1] = s
  BY <1>2 DEF SnoozeInv, Noted
<1>4. ASSUME NEW i \in 1 .. Len(snoozings')
      PROVE  /\ snoozings'[i].at < appended'
             /\ Forgotten' <= snoozings'[i].at =>
                  audits'[snoozings'[i].at + 1 - Forgotten'] = SnoozeRecord(snoozings'[i])
  <2>1. CASE i <= Len(snoozings)
    <3>1. i \in 1 .. Len(snoozings) /\ snoozings'[i] = snoozings[i]
      BY <1>3, <2>1
    <3>2. /\ snoozings[i].at \in Nat /\ snoozings[i].at < appended
          /\ Forgotten <= snoozings[i].at =>
               audits[snoozings[i].at + 1 - Forgotten] = SnoozeRecord(snoozings[i])
      BY <1>2, <3>1
    <3>3. ASSUME Forgotten' <= snoozings[i].at
          PROVE  audits'[snoozings[i].at + 1 - Forgotten'] = SnoozeRecord(snoozings[i])
      <4>1. snoozings[i].at \in Forgotten' .. appended' - 1
        BY <1>1, <1>2, <3>2, <3>3
      <4>2. Forgotten <= snoozings[i].at
        BY <1>1, <3>2, <3>3
      <4> QED BY <1>1, <3>2, <4>1, <4>2
    <3> QED BY <1>1, <1>2, <3>1, <3>2, <3>3
  <2>2. CASE i = Len(snoozings) + 1
    BY <1>0, <1>1, <1>2, <1>3, <2>2
  <2> QED BY <1>3, <2>1, <2>2
<1>5. ASSUME NEW i \in 1 .. Len(snoozings), snoozings[i].token = s.token
      PROVE  appended - snoozings[i].at > MaxAudits
  <2>1. ~(Forgotten <= snoozings[i].at)
    <3> SUFFICES ASSUME Forgotten <= snoozings[i].at PROVE FALSE
      OBVIOUS
    <3> DEFINE k == snoozings[i].at + 1 - Forgotten
    <3>1. k \in 1 .. Len(audits)
      BY <1>1, <1>2 DEF Forgotten
    <3>2. audits[k] = SnoozeRecord(s)
      BY <1>2, <1>5 DEF SnoozeRecord
    <3> QED BY <3>1, <3>2 DEF Review!Known, Review!Holds
  <2> QED BY <1>1, <1>2, <2>1, ReviewAssumption DEF SnoozeInv, Numbered, Forgotten
<1>6. SnoozedOnce'
  <2> SUFFICES ASSUME NEW i \in 1 .. Len(snoozings'), NEW j \in 1 .. Len(snoozings'), i < j,
                      snoozings'[i].token = snoozings'[j].token
               PROVE  snoozings'[j].at - snoozings'[i].at > MaxAudits
    BY DEF SnoozedOnce, Review!SnoozedOnce
  <2>1. i \in 1 .. Len(snoozings) /\ snoozings'[i] = snoozings[i]
    BY <1>3
  <2>2. CASE j = Len(snoozings) + 1
    BY <1>2, <1>3, <1>5, <2>1, <2>2
  <2>3. CASE j <= Len(snoozings)
    BY <1>3, <2>1, <2>3 DEF SnoozeInv, SnoozedOnce, Review!SnoozedOnce
  <2> QED BY <1>3, <2>2, <2>3
<1>7. Noted'
  BY <1>3, <1>4 DEF Noted, SnoozeRecord
<1> QED BY <1>1, <1>6, <1>7 DEF SnoozeInv

(* The records of what expires are finitely many, and listed as a sequence. *)
LEMMA ExpiriesAreFew ==
  ASSUME NEW due \in SUBSET Plans, NEW f, NEW R \in SUBSET {f[p] : p \in due},
         NEW new \in Review!SetToSeqs(R)
  PROVE  new \in Seq(R)
<1> DEFINE All == {f[p] : p \in due}
           g == [p \in due |-> f[p]]
<1>1. IsFiniteSet(due)
  BY ReviewAssumption, FS_Subset
<1>2. g \in Surjection(due, All)
  BY DEF Surjection
<1>3. IsFiniteSet(All)
  BY <1>1, <1>2, FS_Surjection DEF ExistsSurjection
<1> HIDE DEF All
<1>4. IsFiniteSet(R)
  BY <1>3, FS_Subset DEF All
<1>5. Cardinality(R) \in Nat
  BY <1>4, FS_CardinalityType
<1>6. Review!Cardinality(R) = Cardinality(R)
  BY DEF Review!Cardinality, Cardinality
<1>7. new \in [1 .. Cardinality(R) -> R]
  BY <1>6 DEF Review!SetToSeqs
<1> QED BY <1>5, <1>7

(* A log nobody appends to. *)
LEMMA NothingAppended ==
  ASSUME SnoozeInv, UNCHANGED <<audits, appended, snoozings>>
  PROVE  SnoozeInv'
BY DEF SnoozeInv, Numbered, Noted, Forgotten, SnoozeRecord, SnoozedOnce, Review!SnoozedOnce

(* What is missing is one record at most. *)
LEMMA MissingIsShort ==
  ASSUME NEW log, NEW audit, NEW S, audit \in S
  PROVE  Review!Missing(log, audit) \in Seq(S)
<1>1. <<>> \in Seq(S) /\ <<audit>> \in Seq(S)
  OBVIOUS
<1> QED BY <1>1 DEF Review!Missing

(* One record is appended, or none when it is already there. *)
LEMMA AuditKeeps ==
  ASSUME SnoozeInv, NEW audit, Review!AppendsAudit(audit), UNCHANGED snoozings
  PROVE  SnoozeInv'
<1>1. Review!Missing(audits, audit) \in Seq({audit})
  BY MissingIsShort
<1> QED BY <1>1, AppendKeeps DEF Review!AppendsAudit

(* A snooze is carried out, or it turns out to be a retry. *)
LEMMA CommitSnoozeKeeps ==
  ASSUME SnoozeInv, Reviewed, NEW c \in Clients, Review!CommitSnooze(c)
  PROVE  SnoozeInv'
<1> DEFINE audit == Review!AuditOf(c, "proposal_snoozed")
           s == [token |-> request[c].token, plan |-> request[c].plan, at |-> appended]
<1>1. CASE Review!Duplicate(audit)
  BY <1>1, NothingAppended DEF Review!CommitSnooze, Review!document, Review!history
<1>2. CASE ~Review!Duplicate(audit)
  <2>1. Review!AppendsAudit(audit) /\ snoozings' = Append(snoozings, s)
    BY <1>2 DEF Review!CommitSnooze, Review!PlanOf
  <2>2. s \in [token : Tokens, plan : Plans, at : {appended}]
    BY DEF Reviewed, Review!Request
  <2>3. audit = SnoozeRecord(s)
    BY DEF Review!AuditOf, SnoozeRecord
  <2>4. ~Review!Known(SnoozeRecord(s)) /\ Review!Appends(<<SnoozeRecord(s)>>)
    BY <1>2, <2>1, <2>3 DEF Review!Duplicate, Review!AppendsAudit, Review!Missing, Review!Known
  <2> HIDE DEF s
  <2> QED BY <2>1, <2>2, <2>4, SnoozeKeeps
<1> QED BY <1>1, <1>2

(* A commit appends to the log what it did. *)
LEMMA CommitsAreLogged ==
  ASSUME SnoozeInv, Reviewed, NEW c \in Clients, Review!Step(c)
  PROVE  SnoozeInv'
<1>1. CASE \/ Review!LoadCreate(c) \/ Review!LoadApprove(c) \/ Review!LoadReject(c)
           \/ Review!LoadRevoke(c) \/ Review!LoadSnooze(c) \/ Review!LoadResume(c)
           \/ Review!LoadList(c) \/ Review!CommitFails(c)
  BY <1>1, NothingAppended
  DEF Review!LoadCreate, Review!LoadApprove, Review!LoadReject, Review!LoadRevoke,
      Review!LoadSnooze, Review!LoadResume, Review!LoadList, Review!CommitFails, Review!Judge,
      Review!document, Review!history
<1>2. CASE Review!CommitCreate(c)
  <2>1. UNCHANGED snoozings
    BY <1>2 DEF Review!CommitCreate
  <2>2. CASE Review!AppendsAudit(Review!AuditOf(c, "plan_created"))
    BY <2>1, <2>2, AuditKeeps
  <2>3. ASSUME NEW first, NEW event,
               first = Review!Missing(audits, Review!AuditOf(c, event)),
               Review!Appends(first \o Review!Missing(Review!Latest(audits \o first),
                                                      Review!AuditOf(c, "plan_created")))
        PROVE  SnoozeInv'
    <3> DEFINE x == Review!AuditOf(c, event)
               y == Review!AuditOf(c, "plan_created")
               second == Review!Missing(Review!Latest(audits \o first), y)
    <3>1. first \in Seq({x, y}) /\ second \in Seq({x, y})
      BY <2>3, MissingIsShort
    <3>2. first \o second \in Seq({x, y})
      BY <3>1
    <3> QED BY <2>1, <2>3, <3>2, AppendKeeps
  <2> QED BY <1>2, <2>2, <2>3 DEF Review!CommitCreate
<1>3. CASE Review!CommitApprove(c) \/ Review!CommitReject(c) \/ Review!CommitRevoke(c)
  <2>1. UNCHANGED snoozings /\ \E audit : Review!AppendsAudit(audit)
    BY <1>3 DEF Review!CommitApprove, Review!CommitReject, Review!CommitRevoke
  <2> QED BY <2>1, AuditKeeps
<1>4. CASE Review!CommitSnooze(c)
  BY <1>4, CommitSnoozeKeeps
<1>5. CASE Review!CommitResume(c)
  <2>1. CASE UNCHANGED <<audits, appended, snoozings>>
    BY <2>1, NothingAppended
  <2>2. CASE UNCHANGED snoozings /\ \E audit : Review!AppendsAudit(audit)
    BY <2>2, AuditKeeps
  <2> QED BY <1>5, <2>1, <2>2 DEF Review!CommitResume, Review!document, Review!history
<1>6. CASE Review!CommitList(c)
  <2> DEFINE due == {p \in Plans : Review!Due(p, asked[c])}
             f == [p \in Plans |-> [event |-> "proposal_snooze_expired", plan |-> p,
                                    until |-> snoozeUntil[p]]]
  <2>1. UNCHANGED snoozings
    BY <1>6 DEF Review!CommitList
  <2>2. PICK new \in Review!SetToSeqs({r \in {f[p] : p \in due} : ~Review!Known(r)}) :
          Review!Appends(new)
    BY <1>6 DEF Review!CommitList
  <2>. due \in SUBSET Plans
    OBVIOUS
  <2> HIDE DEF due, f
  <2>3. new \in Seq({r \in {f[p] : p \in due} : ~Review!Known(r)})
    BY ExpiriesAreFew
  <2> QED BY <2>1, <2>2, <2>3, AppendKeeps
<1> QED BY <1>1, <1>2, <1>3, <1>4, <1>5, <1>6 DEF Review!Step

(* At first nothing is snoozed or forgotten. *)
LEMMA InitSnooze == SystemInit => SnoozeInv
<1> SUFFICES ASSUME SystemInit PROVE SnoozeInv
  OBVIOUS
<1>1. /\ appended = Len(audits) /\ snoozings = <<>>
      /\ \/ audits = <<>>
         \/ \E t : audits = <<[event |-> "plan_created", token |-> t]>>
  BY DEF SystemInit, Review!ReviewInit
<1>2. Numbered
  <2>1. CASE audits = <<>>
    <3>1. audits \in Seq({})
      BY <2>1
    <3> QED BY <1>1, <2>1, <3>1 DEF Numbered
  <2>2. ASSUME NEW x, audits = <<x>> PROVE Numbered
    <3>1. audits \in Seq({x}) /\ Len(audits) = 1
      BY <2>2
    <3> QED BY <1>1, <3>1 DEF Numbered
  <2> QED BY <1>1, <2>1, <2>2
<1>3. Noted /\ SnoozedOnce
  BY <1>1 DEF Noted, SnoozedOnce, Review!SnoozedOnce
<1> QED BY <1>2, <1>3 DEF SnoozeInv

(* Every step of reviews, executions, rollbacks and restarts keeps the log. *)
LEMMA SnoozeStep ==
  ASSUME SnoozeInv, Reviewed, [SystemNext]_systemVars
  PROVE  SnoozeInv'
<1>1. ASSUME NEW c \in Clients, Reviewing(c) PROVE SnoozeInv'
  <2>1. CASE Review!Arrival(c)
    BY <2>1, NothingAppended
    DEF Review!Arrival, Review!Ask, Review!AskToRevoke, Review!AskToSnooze, Review!AskToList,
        Review!Arrive, Review!document, Review!history
  <2> QED BY <1>1, <2>1, CommitsAreLogged DEF Reviewing
<1>2. ASSUME NEW c \in Calls, Repairing(c) PROVE SnoozeInv'
  <2>1. CASE UNCHANGED reviewVars
    BY <2>1, NothingAppended DEF reviewVars, reviewDocument, reviewHistory
  <2>2. ASSUME NEW event, Reports(c, event) PROVE SnoozeInv'
    BY <2>2, AuditKeeps DEF Reports
  <2> QED BY <1>2, <2>1, <2>2
          DEF Repairing, RequestExecution, RequestRollback, ReportOutcome, ReportFails
<1>3. CASE \/ Tick /\ UNCHANGED <<reviewVars, closed>>
           \/ Restart
           \/ UNCHANGED systemVars
  BY <1>3, NothingAppended
  DEF Restart, systemVars, reviewVars, reviewDocument, reviewHistory
<1> QED BY <1>1, <1>2, <1>3 DEF SystemNext

(* A snooze request that is retried, also while the first is still being carried
   out, does not snooze its plan again, unless MaxAudits other records, of reviews
   or of executions, have been appended since (service.py 266-278, 1044). *)
THEOREM SnoozesAreOnce == SystemSpec => []SnoozedOnce
<1>1. AuthInv /\ SnoozeInv /\ [SystemNext]_systemVars => AuthInv' /\ SnoozeInv'
  BY AuthStep, SnoozeStep DEF AuthInv
<1>2. SnoozeInv => SnoozedOnce
  BY DEF SnoozeInv
<1> QED BY InitAuth, InitSnooze, <1>1, <1>2, PTL DEF SystemSpec

=============================================================================
