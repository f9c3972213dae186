----------------------------- MODULE RuntimeProofs ----------------------------
(***************************************************************************)
(* The parts of the runtime whose promises hold for any number of callers: *)
(* the commit loop, for any writers, attempts and crashes; the scan        *)
(* coordinator, for any callers, failures and raising hooks; and the       *)
(* connector queue, for any calls, events and publishers.                  *)
(***************************************************************************)
EXTENDS RepositoryCommit, ScanCoordinator, ConnectorManager, FiniteSetTheorems, TLAPS

-----------------------------------------------------------------------------
(* The commit loop is an atomic update.  The inductive invariant says that a
   save is always based on the document on disk, because only the holder of the
   commit lock changes it, and that a loaded document is never newer than the
   stored one. *)

(* A call that still runs has an attempt left. *)
AttemptsLeft == \A w \in Writers : pc[w] \notin Ended => attempt[w] < MaxAttempts

(* A loaded document is no newer than the stored one, and a call that has
   met k conflicts has loaded at least the k-th generation. *)
LoadedIsOlder ==
  \A w \in Writers :
    /\ attempt[w] <= disk.generation
    /\ pc[w] \in {"commit", "check", "save"} =>
         /\ attempt[w] <= loaded[w].generation
         /\ loaded[w].generation <= disk.generation

(* Two documents of the same generation are the same document. *)
GenerationIdentifies ==
  \A w \in Writers :
    pc[w] \in {"commit", "check", "save"} =>
      (loaded[w].generation = disk.generation => loaded[w] = disk)

Typed == TypeOK /\ AttemptsLeft

IInv ==
  /\ Typed
  /\ disk.generation = Len(disk.history)
  /\ LoadedIsOlder
  /\ GenerationIdentifies
  /\ SaveIsCurrent

-----------------------------------------------------------------------------

(* A step keeps the types: the attempts never pass their bound. *)
LEMMA TypingStep == ASSUME Typed, [Next]_vars PROVE Typed'
<1> USE DEF Typed, TypeOK, AttemptsLeft, Places, Ended, Document
<1>1. ASSUME NEW w \in Writers, Load(w) PROVE Typed'
  BY <1>1 DEF Load
<1>2. ASSUME NEW w \in Writers, EnterCommit(w) PROVE Typed'
  BY <1>2 DEF EnterCommit, CommitLockFree
<1>3. ASSUME NEW w \in Writers, CheckPasses(w) PROVE Typed'
  BY <1>3 DEF CheckPasses, SameGeneration
<1>4. ASSUME NEW w \in Writers, CheckConflicts(w) PROVE Typed'
  <2>1. attempt[w] < MaxAttempts
    BY <1>4 DEF CheckConflicts, NoAttemptLeft, LeaveCommit, SameGeneration
  <2>2. attempt[w] + 1 \in 0 .. MaxAttempts
    BY <2>1, AttemptsAssumption
  <2>3. attempt' \in [Writers -> 0 .. MaxAttempts]
    BY <1>4, <2>2 DEF CheckConflicts, NoAttemptLeft, LeaveCommit, SameGeneration
  <2>4. ASSUME NEW v \in Writers, pc'[v] \notin Ended
        PROVE attempt'[v] < MaxAttempts
    <3>1. CASE v = w
      BY <1>4, <2>1, <2>4, <3>1, AttemptsAssumption
      DEF CheckConflicts, NoAttemptLeft, LeaveCommit, SameGeneration
    <3>2. CASE v # w
      BY <1>4, <2>4, <3>2 DEF CheckConflicts, NoAttemptLeft, LeaveCommit, SameGeneration
    <3> QED BY <3>1, <3>2
  <2> QED BY <1>4, <2>3, <2>4 DEF CheckConflicts, NoAttemptLeft, LeaveCommit, SameGeneration
<1>5. ASSUME NEW w \in Writers, Save(w) PROVE Typed'
  <2>1. disk' \in Document
    BY <1>5 DEF Save, LeaveCommit, NextDocument
  <2>2. AttemptsLeft'
    BY <1>5 DEF Save, LeaveCommit, NextDocument
  <2> QED BY <1>5, <2>1, <2>2 DEF Save, LeaveCommit, NextDocument
<1>6. ASSUME NEW w \in Writers, SaveRaises(w) PROVE Typed'
  BY <1>6 DEF SaveRaises, LeaveCommit
<1>7. CASE Crash
  BY <1>7 DEF Crash
<1>8. CASE UNCHANGED vars
  BY <1>8 DEF vars
<1> QED BY <1>1, <1>2, <1>3, <1>4, <1>5, <1>6, <1>7, <1>8 DEF Next, Step

(* The invariant holds at first. *)
LEMMA InitIInv == Init => IInv
BY AttemptsAssumption, NoWriterAssumption
   DEF Init, IInv, Typed, TypeOK, AttemptsLeft, EmptyDocument, Document, Places,
       Ended, LoadedIsOlder, GenerationIdentifies, SaveIsCurrent

(* Every step keeps the loaded documents, the commit lock and the stored
   document in agreement. *)
LEMMA NextIInv == ASSUME IInv, [Next]_vars PROVE IInv'
<1>1. Typed'
  BY TypingStep DEF IInv
<1> USE <1>1 DEF IInv, Typed, TypeOK, LoadedIsOlder, GenerationIdentifies,
                 SaveIsCurrent, Document
<1>2. ASSUME NEW w \in Writers, Load(w) PROVE IInv'
  BY <1>2 DEF Load, AttemptsLeft, Ended
<1>3. ASSUME NEW w \in Writers, EnterCommit(w) PROVE IInv'
  BY <1>3, NoWriterAssumption DEF EnterCommit, CommitLockFree
<1>4. ASSUME NEW w \in Writers, CheckPasses(w) PROVE IInv'
  BY <1>4 DEF CheckPasses, SameGeneration
<1>5. ASSUME NEW w \in Writers, CheckConflicts(w) PROVE IInv'
  BY <1>5, SMTT(30) DEF CheckConflicts, NoAttemptLeft, LeaveCommit, SameGeneration
<1>6. ASSUME NEW w \in Writers, Save(w) PROVE IInv'
  <2>1. loaded[w] = disk /\ commitLock = w
    BY <1>6 DEF Save, LeaveCommit, NextDocument
  <2>2. /\ disk' = [generation |-> disk.generation + 1,
                    history |-> Append(disk.history, w)]
        /\ disk'.generation = disk.generation + 1
        /\ disk'.history = Append(disk.history, w)
    BY <1>6, <2>1 DEF Save, LeaveCommit, NextDocument
  <2>3. \A v \in Writers : pc'[v] \in {"commit", "check", "save"} =>
          pc[v] \in {"commit", "check", "save"} /\ v # w /\ pc[v] = pc'[v]
    BY <1>6 DEF Save, LeaveCommit, NextDocument
  <2>4. disk'.generation = Len(disk'.history)
    BY <2>2
  <2>5. LoadedIsOlder' /\ GenerationIdentifies'
    BY <1>6, <2>2, <2>3 DEF Save, LeaveCommit, NextDocument
  <2>6. SaveIsCurrent'
    BY <1>6, <2>1, <2>3, NoWriterAssumption DEF Save, LeaveCommit, NextDocument
  <2> QED BY <2>4, <2>5, <2>6
<1>7. ASSUME NEW w \in Writers, SaveRaises(w) PROVE IInv'
  BY <1>7 DEF SaveRaises, LeaveCommit
<1>8. CASE Crash
  BY <1>8 DEF Crash, Ended
<1>9. CASE UNCHANGED vars
  BY <1>9 DEF vars
<1> QED BY <1>2, <1>3, <1>4, <1>5, <1>6, <1>7, <1>8, <1>9 DEF Next, Step

(* The invariant holds in every behaviour. *)
LEMMA Inductive == Spec => []IInv
BY InitIInv, NextIInv, PTL DEF Spec

(* Every variable of the commit loop keeps its type. *)
THEOREM TypeCorrect == Spec => []TypeOK
BY Inductive, PTL DEF IInv, Typed

(* The save of async_commit never overwrites a commit its caller did not
   load. *)
THEOREM SavesAreCurrent == Spec => []SaveIsCurrent
BY Inductive, PTL DEF IInv

(* A conflict is always another call's commit. *)
THEOREM ConflictsCountCommits == Spec => []ConflictsAreCommits
<1>1. IInv => ConflictsAreCommits
  BY DEF IInv, LoadedIsOlder, ConflictsAreCommits
<1> QED BY <1>1, Inductive, PTL

-----------------------------------------------------------------------------

(* The first state is one of the atomic update. *)
LEMMA InitAtomic == Init => Atomic!Init
BY DEF Init, EmptyDocument, Outcome, Atomic!Init

(* A save is the abstract update; giving up, raising and crashing are
   refusals; every other step is invisible. *)
LEMMA StepAtomic == ASSUME IInv, [Next]_vars PROVE [Atomic!Next]_Atomic!vars
<1> USE DEF Atomic!vars, Outcome
<1>1. ASSUME NEW w \in Writers, Load(w) PROVE UNCHANGED Atomic!vars
  BY <1>1 DEF Load, IInv, Typed, TypeOK
<1>2. ASSUME NEW w \in Writers, EnterCommit(w) PROVE UNCHANGED Atomic!vars
  BY <1>2 DEF EnterCommit, CommitLockFree, IInv, Typed, TypeOK
<1>3. ASSUME NEW w \in Writers, CheckPasses(w) PROVE UNCHANGED Atomic!vars
  BY <1>3 DEF CheckPasses, SameGeneration, IInv, Typed, TypeOK
<1>4. ASSUME NEW w \in Writers, CheckConflicts(w)
      PROVE Atomic!Refuse(w) \/ UNCHANGED Atomic!vars
  BY <1>4
  DEF CheckConflicts, NoAttemptLeft, LeaveCommit, SameGeneration, IInv, Typed, TypeOK,
      Atomic!Refuse
<1>5. ASSUME NEW w \in Writers, Save(w) PROVE Atomic!Apply(w)
  <2>1. loaded[w] = disk
    BY <1>5 DEF Save, LeaveCommit, NextDocument, IInv, SaveIsCurrent
  <2> QED BY <1>5, <2>1 DEF Save, LeaveCommit, NextDocument, IInv, Typed, TypeOK, Atomic!Apply
<1>6. ASSUME NEW w \in Writers, SaveRaises(w) PROVE Atomic!Refuse(w)
  BY <1>6 DEF SaveRaises, LeaveCommit, IInv, Typed, TypeOK, Atomic!Refuse
<1>7. ASSUME Crash PROVE \E ws \in SUBSET Writers : Atomic!RefuseAll(ws)
  <2>1. PICK ws \in SUBSET Writers : ws = {w \in Writers : pc[w] \notin Ended}
    OBVIOUS
  <2>2. Atomic!RefuseAll(ws)
    BY <1>7, <2>1
       DEF Crash, IInv, Typed, TypeOK, Ended, Places, Atomic!RefuseAll
  <2> QED BY <2>2
<1>8. CASE UNCHANGED vars
  BY <1>8 DEF vars
<1> HIDE DEF Atomic!vars, Outcome
<1> QED BY <1>1, <1>2, <1>3, <1>4, <1>5, <1>6, <1>7, <1>8
        DEF Next, Step, Atomic!Next

(* The commit loop implements the atomic update: whatever the number of
   concurrent writers, no committed update is lost or applied twice. *)
THEOREM CommitIsAtomic == Spec => ImplementsAtomicUpdate
BY InitAtomic, StepAtomic, Inductive, PTL
   DEF Spec, ImplementsAtomicUpdate, Atomic!Spec

-----------------------------------------------------------------------------
(* The scan coordinator: fresh answers and a quiet shutdown. *)

(* The callers of a scan that has captured were there before it captured: who
   comes later is merged into the request behind it. *)
AskedBefore == runner \in {"commit", "sync"} => active \intersect unseen = {}

FreshInv == AnswerIsFresh /\ AskedBefore

(* The invariant holds at first. *)
LEMMA InitFresh == ScanInit => FreshInv
BY DEF ScanInit, FreshInv, AnswerIsFresh, AskedBefore

(* Every step keeps answers fresh: only Sync answers. *)
LEMMA FreshStep == ASSUME FreshInv, [ScanNext]_scanVars PROVE FreshInv'
<1> USE DEF FreshInv, AnswerIsFresh, AskedBefore, history, mishaps
<1>1. ASSUME NEW r \in Requesters, Request(r) PROVE FreshInv'
  BY <1>1 DEF Request, Join
<1>2. CASE TickEnds \/ \E r \in Callers : AskAgain(r)
  BY <1>2 DEF TickEnds, AskAgain
<1>3. CASE LoadState \/ Capture \/ Commit
  BY <1>3 DEF LoadState, Capture, Commit
<1>4. CASE Sync
  BY <1>4 DEF Sync, Settle, Handover
<1>5. CASE Fail
  BY <1>5 DEF Fail, Settle, Handover, Die
<1>6. CASE Queue
  BY <1>6 DEF Queue, Die
<1>7. CASE Shutdown
  BY <1>7 DEF Shutdown, StopTimers, CancelBegins, RunnerCancelled, CancelEnds, CancelWaiters
<1>8. CASE UNCHANGED scanVars
  BY <1>8 DEF scanVars
<1> QED BY <1>1, <1>2, <1>3, <1>4, <1>5, <1>6, <1>7, <1>8 DEF ScanNext, Run

(* Nobody is answered by a scan that had captured before the request
   (async_request_scan). *)
THEOREM AnswersAreFresh == ScanSpec => []AnswerIsFresh
<1>1. FreshInv /\ [ScanNext]_scanVars => FreshInv'
  BY FreshStep
<1>2. FreshInv => AnswerIsFresh
  BY DEF FreshInv
<1> QED BY InitFresh, <1>1, <1>2, PTL DEF ScanSpec

-----------------------------------------------------------------------------

(* A scan without a runner serves nobody. *)
ServedByRunner == runner = "none" => active = {}

(* Who waits is known to the coordinator, as long as no hook has raised. *)
WaitersAreKnown ==
  \A r \in Requesters : Waiting(r) => r \in active \union pending \/ raises > 0

(* What the shutdown has stopped, phase by phase. *)
StoppedSoFar ==
  /\ phase # "up" => closed /\ request[Timer] # "armed" /\ request[Initial] # "armed"
  /\ phase = "cancelling" => active = {} /\ pending = {}
  /\ phase = "down" =>
       /\ active \union pending \subseteq Callers
       /\ raises = 0 => ~Waiting(Timer) /\ ~Waiting(Initial)

ScanTyped ==
  /\ request = [r \in Requesters |-> request[r]]
  /\ active \subseteq Requesters /\ pending \subseteq Requesters
  /\ raises \in Nat

QuietInv == ScanTyped /\ ServedByRunner /\ WaitersAreKnown /\ StoppedSoFar

(* The invariant holds at first. *)
LEMMA InitQuiet == ScanInit => QuietInv
<1> SUFFICES ASSUME ScanInit PROVE QuietInv
  OBVIOUS
<1>1. \A r \in Requesters : request[r] \in {"armed", "idle"}
  BY DEF ScanInit
<1>2. ScanTyped
  BY DEF ScanInit, ScanTyped
<1>3. ServedByRunner /\ WaitersAreKnown /\ StoppedSoFar
  BY <1>1 DEF ScanInit, ServedByRunner, WaitersAreKnown, StoppedSoFar, Waiting
<1> QED BY <1>2, <1>3 DEF QuietInv

(* Every step keeps the shutdown's progress. *)
LEMMA QuietStep == ASSUME QuietInv, [ScanNext]_scanVars PROVE QuietInv'
<1>0. Timer \in Requesters /\ Initial \in Requesters /\ Callers \subseteq Requesters
  BY DEF Requesters
<1> USE <1>0 DEF QuietInv, ScanTyped, ServedByRunner, WaitersAreKnown, StoppedSoFar, Waiting,
        history, mishaps
<1>1. ASSUME NEW r \in Requesters, Request(r) PROVE QuietInv'
  <2>1. r \in Callers \/ phase = "up"
    BY <1>1 DEF Request, Requesters
  <2>2. \A s \in Requesters : s # r => request'[s] = request[s]
    BY <1>1 DEF Request
  <2>3. request'[r] # "armed" /\ (Waiting(r)' => r \in active' \union pending')
    BY <1>1 DEF Request, Join
  <2>4. active \union pending \subseteq active' \union pending' /\ raises' >= raises
        /\ active' \union pending' \subseteq active \union pending \union {r}
    BY <1>1 DEF Request, Join, Raise
  <2>5. ScanTyped'
    BY <1>1, <2>4 DEF Request, Raise
  <2>6. ServedByRunner'
    BY <1>1 DEF Request, Join
  <2>7. WaitersAreKnown'
    BY <2>2, <2>3, <2>4, <2>5
  <2>8. StoppedSoFar'
    <3>1. phase' = phase /\ closed' = closed
      BY <1>1 DEF Request
    <3>2. phase # "up" => closed /\ request'[Timer] # "armed" /\ request'[Initial] # "armed"
      BY <2>2, <2>3
    <3>3. CASE phase = "cancelling"
      BY <1>1, <3>1, <3>2, <3>3 DEF Request
    <3>4. CASE phase = "down"
      <4>1. active' \union pending' \subseteq Callers
        BY <2>1, <2>4, <3>4
      <4>2. r \notin {Timer, Initial}
        BY <1>1, <3>4 DEF Request
      <4>3. raises' = 0 => request'[Timer] # "waiting" /\ request'[Initial] # "waiting"
        BY <2>2, <2>4, <2>5, <3>4, <4>2
      <4> QED BY <3>1, <3>2, <3>4, <4>1, <4>3
    <3> QED BY <3>1, <3>2, <3>3, <3>4
  <2> QED BY <2>5, <2>6, <2>7, <2>8
<1>2. CASE TickEnds
  BY <1>2 DEF TickEnds, Rearm
<1>3. ASSUME NEW r \in Callers, AskAgain(r) PROVE QuietInv'
  BY <1>3 DEF AskAgain
<1>4. CASE LoadState
  BY <1>4 DEF LoadState, Raise
<1>5. CASE Capture \/ Commit
  BY <1>5 DEF Capture, Commit
<1>6. CASE Sync
  BY <1>6 DEF Sync, Settle, Handover, Raise
<1>7. CASE Fail
  BY <1>7 DEF Fail, Settle, Handover, Die, Raise
<1>8. CASE Queue
  BY <1>8 DEF Queue, Die, Raise
<1>9. CASE StopTimers
  BY <1>9 DEF StopTimers
<1>10. CASE CancelBegins
  BY <1>10 DEF CancelBegins, CancelWaiters
<1>11. CASE RunnerCancelled
  BY <1>11 DEF RunnerCancelled
<1>12. CASE CancelEnds
  BY <1>12 DEF CancelEnds, CancelWaiters
<1>13. CASE UNCHANGED scanVars
  BY <1>13 DEF scanVars
<1> QED
  BY <1>1, <1>2, <1>3, <1>4, <1>5, <1>6, <1>7, <1>8, <1>9, <1>10, <1>11, <1>12, <1>13
     DEF ScanNext, Run, Shutdown

(* After the shutdown no timer is armed or waits, and a scan runs only for a
   caller that came later (async_shutdown, async_stop, async_cancel). *)
THEOREM ShutdownsAreQuiet == ScanSpec => []ShutdownIsQuiet
<1>1. QuietInv /\ [ScanNext]_scanVars => QuietInv'
  BY QuietStep
<1>2. QuietInv => ShutdownIsQuiet
  BY DEF QuietInv, ServedByRunner, StoppedSoFar, ShutdownIsQuiet, Waiting
<1> QED BY InitQuiet, <1>1, <1>2, PTL DEF ScanSpec

-----------------------------------------------------------------------------
(* The connector queue.  While the manager is open the account of an event rests
   on three things that change together: whether its task is there, whether its
   key is, and how many outcomes it has.  That a delivery ends at most once needs
   the line: no delivery stands in it twice, and each that does has its task. *)

Tallies == [Deliveries \X Outcomes -> Nat]

Outboxes == [tasks : SUBSET Deliveries, keys : SUBSET Deliveries, results : Tallies]

LineTyped == line \in Seq(Ops)

StandsOnce ==
  \A i, j \in DOMAIN line : line[i] \in Deliveries /\ line[i] = line[j] => i = j

LineHasTasks ==
  \A i \in DOMAIN line : line[i] \in Deliveries => line[i] \in outbox.tasks

(* How often a delivery has ended, by what was told and what an outbox holds. *)
Endings(d, box) ==
  told[<<d, "delivered">>] + box.results[<<d, "delivered">>]
    + (told[<<d, "failed">>] + box.results[<<d, "failed">>])

Accounted(d, box) ==
  /\ d \in box.tasks => d \in box.keys /\ Endings(d, box) = 0
  /\ d \in box.keys \ box.tasks => Endings(d, box) = 1
  /\ d \notin box.keys => Endings(d, box) = 0

HasFailed(d, box) == told[<<d, "failed">>] + box.results[<<d, "failed">>] > 0

HadNoRoom(d, box) == told[<<d, "queue_full">>] + box.results[<<d, "queue_full">>] > 0

NoticeOf(d) == <<d[1], "notice">>

Announced(d, box) ==
  d[2] = "event" /\ HasFailed(d, box) =>
    NoticeOf(d) \in box.keys \/ HadNoRoom(NoticeOf(d), box)

Settled(box) == \A d \in Deliveries : Accounted(d, box) /\ Announced(d, box)

QueueInv ==
  /\ LineTyped /\ StandsOnce
  /\ outbox \in Outboxes /\ told \in Tallies
  /\ ~refusing => closing = {} /\ LineHasTasks /\ Settled(outbox)

(* A singleton meets a set in one element or none. *)
LEMMA OneOrNone ==
  ASSUME NEW S, NEW x
  PROVE Cardinality(S \intersect {x}) = IF x \in S THEN 1 ELSE 0
<1>1. CASE x \in S
  <2>1. S \intersect {x} = {x}
    BY <1>1
  <2> QED BY <2>1, <1>1, FS_Singleton
<1>2. CASE x \notin S
  <2>1. S \intersect {x} = {}
    BY <1>2
  <2> QED BY <2>1, <1>2, FS_EmptySet
<1> QED BY <1>1, <1>2

(* What the inductive invariant says of an open manager is what it promises. *)
LEMMA QueueInvPromises == QueueInv => OutcomesAreOnce
<1> SUFFICES ASSUME QueueInv, ~refusing, NEW d \in Deliveries
    PROVE  /\ Tally(d, "delivered") + Tally(d, "failed")
                + Cardinality(outbox.tasks \intersect {d})
              = Cardinality(outbox.keys \intersect {d})
           /\ d[2] = "event" /\ Tally(d, "failed") > 0
                => \/ <<d[1], "notice">> \in outbox.keys
                   \/ Tally(<<d[1], "notice">>, "queue_full") > 0
  BY DEF OutcomesAreOnce
<1>1. Accounted(d, outbox) /\ Announced(d, outbox)
  BY DEF QueueInv, Settled
<1>2. Endings(d, outbox) = Tally(d, "delivered") + Tally(d, "failed")
  BY DEF Endings, Tally
<1>3. Endings(d, outbox) \in Nat
  BY DEF Endings, QueueInv, Outboxes, Tallies, Outcomes
<1>4. Endings(d, outbox) + (IF d \in outbox.tasks THEN 1 ELSE 0)
        = IF d \in outbox.keys THEN 1 ELSE 0
  BY <1>1, <1>3 DEF Accounted
<1>5. /\ Cardinality(outbox.tasks \intersect {d}) = IF d \in outbox.tasks THEN 1 ELSE 0
      /\ Cardinality(outbox.keys \intersect {d}) = IF d \in outbox.keys THEN 1 ELSE 0
  BY OneOrNone
<1> QED BY <1>1, <1>2, <1>4, <1>5 DEF Announced, HasFailed, HadNoRoom, NoticeOf, Tally

-----------------------------------------------------------------------------
(* Lemmas on the line *)

(* An operation is a call or a delivery, never both. *)
LEMMA CallsAreNoDeliveries == ASSUME NEW c \in Calls PROVE <<c, "call">> \in Ops \ Deliveries
  BY DEF Ops, Deliveries

(* Who enters stands last, and the others where they stood (Enter). *)
LEMMA Entering ==
  ASSUME LineTyped, NEW op \in Ops, line' = Append(line, op)
  PROVE  /\ LineTyped' /\ DOMAIN line' = DOMAIN line \union {Len(line) + 1}
         /\ Len(line) + 1 \notin DOMAIN line
         /\ line'[Len(line) + 1] = op
         /\ \A i \in DOMAIN line : line'[i] = line[i]
  BY DEF LineTyped

(* What stands in the second part of a concatenation. *)
LEMMA SecondPart ==
  ASSUME NEW S, NEW s \in Seq(S), NEW t \in Seq(S), NEW i \in Len(s) + 1 .. Len(s) + Len(t)
  PROVE (s \o t)[i] = t[i - Len(s)]
  OBVIOUS

(* Who leaves is one of the line, and the others close up (Leave). *)
LEMMA Leaving ==
  ASSUME LineTyped, NEW op, Leave(op)
  PROVE  /\ LineTyped'
         /\ \E at \in DOMAIN line :
              /\ line[at] = op
              /\ Len(line') = Len(line) - 1
              /\ \A i \in DOMAIN line' :
                   line'[i] = IF i < at THEN line[i] ELSE line[i + 1]
<1>1. PICK at \in DOMAIN line : line[at] = op /\ line' = RemoveAt(line, at)
  BY DEF Leave
<1>2. at \in 1 .. Len(line) /\ Len(line) \in Nat
  BY <1>1 DEF LineTyped
<1> DEFINE before == SubSeq(line, 1, at - 1)
           after == SubSeq(line, at + 1, Len(line))
<1>3. /\ before \in Seq(Ops) /\ Len(before) = at - 1
      /\ \A i \in 1 .. at - 1 : before[i] = line[i]
  BY <1>2 DEF LineTyped
<1>4. /\ after \in Seq(Ops) /\ Len(after) = Len(line) - at
      /\ \A i \in 1 .. Len(line) - at : after[i] = line[at + i]
  BY <1>2 DEF LineTyped
<1>5. line' = before \o after
  BY <1>1 DEF RemoveAt
<1> HIDE DEF before, after
<1>6. LineTyped' /\ Len(line') = Len(line) - 1
  BY <1>2, <1>3, <1>4, <1>5 DEF LineTyped
<1>7. ASSUME NEW i \in DOMAIN line'
      PROVE line'[i] = IF i < at THEN line[i] ELSE line[i + 1]
  <2>1. i \in 1 .. Len(line) - 1
    BY <1>6 DEF LineTyped
  <2>2. CASE i < at
    <3>1. i \in 1 .. at - 1
      BY <2>1, <2>2, <1>2
    <3>2. line'[i] = before[i]
      BY <3>1, <1>3, <1>4, <1>5
    <3> QED BY <3>1, <3>2, <1>3, <2>2
  <2>3. CASE ~(i < at)
    <3>1. i - (at - 1) \in 1 .. Len(line) - at /\ at + (i - (at - 1)) = i + 1
      BY <2>1, <2>3, <1>2
    <3>2. i \in Len(before) + 1 .. Len(before) + Len(after)
      <4>1. Len(before) = at - 1 /\ Len(after) = Len(line) - at
        BY <1>3, <1>4
      <4>2. i \in (at - 1) + 1 .. (at - 1) + (Len(line) - at)
        BY <2>1, <2>3, <1>2
      <4> QED BY <4>1, <4>2
    <3>3. line'[i] = after[i - (at - 1)]
      <4>1. (before \o after)[i] = after[i - Len(before)]
        BY <3>2, <1>3, <1>4, SecondPart
      <4>2. Len(before) = at - 1
        BY <1>3
      <4> QED BY <4>1, <4>2, <1>5
    <3>4. after[i - (at - 1)] = line[at + (i - (at - 1))]
      BY <3>1, <1>4
    <3> QED BY <3>1, <3>3, <3>4, <2>3
  <2> QED BY <2>2, <2>3
<1> QED BY <1>1, <1>6, <1>7

(* Nobody stands twice after a step that lets one operation in or out, and a
   delivery that left is gone (Enter, Leave). *)
LEMMA EnteringOnce ==
  ASSUME LineTyped, StandsOnce, NEW op \in Ops, line' = Append(line, op),
         op \in Deliveries => ~Contains(line, op)
  PROVE  LineTyped' /\ StandsOnce'
         /\ \A i \in DOMAIN line' : line'[i] = op \/ \E j \in DOMAIN line : line'[i] = line[j]
<1>1. /\ LineTyped' /\ DOMAIN line' = DOMAIN line \union {Len(line) + 1}
      /\ line'[Len(line) + 1] = op /\ \A i \in DOMAIN line : line'[i] = line[i]
  BY Entering
<1>2. op \in Deliveries => \A i \in DOMAIN line : line[i] # op
  BY DEF Contains, LineTyped
<1> QED BY <1>1, <1>2 DEF StandsOnce

LEMMA LeavingOnce ==
  ASSUME LineTyped, StandsOnce, NEW op, Leave(op)
  PROVE  /\ LineTyped' /\ StandsOnce'
         /\ \E j \in DOMAIN line : line[j] = op
         /\ \A i \in DOMAIN line' :
              /\ \E j \in DOMAIN line : line'[i] = line[j]
              /\ op \in Deliveries => line'[i] # op
<1>1. LineTyped'
  BY Leaving
<1>2. PICK at \in DOMAIN line :
         /\ line[at] = op /\ Len(line') = Len(line) - 1
         /\ \A i \in DOMAIN line' : line'[i] = IF i < at THEN line[i] ELSE line[i + 1]
  BY Leaving
<1> DEFINE from(i) == IF i < at THEN i ELSE i + 1
<1>3. ASSUME NEW i \in DOMAIN line'
      PROVE from(i) \in DOMAIN line /\ from(i) # at /\ line'[i] = line[from(i)]
  BY <1>1, <1>2 DEF LineTyped
<1>4. ASSUME NEW i \in DOMAIN line', NEW j \in DOMAIN line', from(i) = from(j)
      PROVE i = j
  BY <1>1, <1>2, <1>4 DEF LineTyped
<1> HIDE DEF from
<1>5. StandsOnce'
  BY <1>3, <1>4 DEF StandsOnce
<1> QED BY <1>1, <1>2, <1>3, <1>5 DEF StandsOnce

-----------------------------------------------------------------------------
(* Lemmas on the outbox *)

(* A result noted counts once more, and nothing else changes (Noted). *)
LEMMA NotedCounts ==
  ASSUME NEW box \in Outboxes, NEW d \in Deliveries, NEW outcome \in Outcomes
  PROVE  /\ Noted(box, d, outcome) \in Outboxes
         /\ Noted(box, d, outcome).tasks = box.tasks
         /\ Noted(box, d, outcome).keys = box.keys
         /\ \A o \in Deliveries \X Outcomes :
              Noted(box, d, outcome).results[o] =
                IF o = <<d, outcome>> THEN box.results[o] + 1 ELSE box.results[o]
<1> DEFINE o == <<d, outcome>>
<1>1. o \in Deliveries \X Outcomes
  OBVIOUS
<1> DEFINE results == [box.results EXCEPT ![o] = @ + 1]
<1>2. box.results \in Tallies
  BY DEF Outboxes
<1>3. results \in Tallies /\ \A x \in Deliveries \X Outcomes :
        results[x] = IF x = o THEN box.results[x] + 1 ELSE box.results[x]
  BY <1>1, <1>2 DEF Tallies
<1>4. Noted(box, d, outcome) = [box EXCEPT !.results = results]
  BY DEF Noted
<1> HIDE DEF results
<1>5. Noted(box, d, outcome) \in Outboxes
  BY <1>3, <1>4 DEF Outboxes
<1>6. /\ Noted(box, d, outcome).tasks = box.tasks
      /\ Noted(box, d, outcome).keys = box.keys
      /\ Noted(box, d, outcome).results = results
  BY <1>4 DEF Outboxes
<1> QED BY <1>3, <1>5, <1>6

(* Scheduling takes on some deliveries with new keys, and turns the others with
   new keys away (Scheduled). *)
LEMMA SchedulingTakes ==
  ASSUME NEW box \in Outboxes, NEW batch \in Seq(Deliveries)
  PROVE  LET after == Scheduled(box, batch)
             taken == Taken(box, batch)
         IN  /\ after \in Outboxes
             /\ taken \subseteq Deliveries /\ taken \intersect box.keys = {}
             /\ after.tasks = box.tasks \union taken
             /\ after.keys = box.keys \union taken
             /\ \A d \in Deliveries :
                  /\ after.results[<<d, "delivered">>] = box.results[<<d, "delivered">>]
                  /\ after.results[<<d, "failed">>] = box.results[<<d, "failed">>]
                  /\ after.results[<<d, "queue_full">>] >= box.results[<<d, "queue_full">>]
                  /\ d \in Turned(box, batch) =>
                       after.results[<<d, "queue_full">>] > box.results[<<d, "queue_full">>]
<1> DEFINE taken == Taken(box, batch)
           turned == {<<d, "queue_full">> : d \in Turned(box, batch)}
           results == [o \in DOMAIN box.results |->
                         IF o \in turned THEN box.results[o] + 1 ELSE box.results[o]]
<1>1. \A i \in DOMAIN batch : batch[i] \in Deliveries
  OBVIOUS
<1>2. Fresh(box, batch) \subseteq DOMAIN batch
      /\ \A i \in Fresh(box, batch) : batch[i] \notin box.keys
  BY DEF Fresh
<1>3. taken \subseteq Deliveries /\ taken \intersect box.keys = {}
  BY <1>1, <1>2 DEF Taken
<1>4. DOMAIN box.results = Deliveries \X Outcomes /\ results \in Tallies
  BY DEF Outboxes, Tallies
<1>5. Scheduled(box, batch) =
        [box EXCEPT !.tasks = @ \union taken, !.keys = @ \union taken, !.results = results]
  BY DEF Scheduled
<1> HIDE DEF taken, results
<1>6. Scheduled(box, batch) \in Outboxes
  BY <1>3, <1>4, <1>5 DEF Outboxes
<1>7. ASSUME NEW d \in Deliveries
      PROVE  /\ results[<<d, "delivered">>] = box.results[<<d, "delivered">>]
             /\ results[<<d, "failed">>] = box.results[<<d, "failed">>]
             /\ results[<<d, "queue_full">>] >= box.results[<<d, "queue_full">>]
             /\ d \in Turned(box, batch) =>
                  results[<<d, "queue_full">>] > box.results[<<d, "queue_full">>]
  <2>1. /\ <<d, "delivered">> \in DOMAIN box.results
        /\ <<d, "failed">> \in DOMAIN box.results
        /\ <<d, "queue_full">> \in DOMAIN box.results
    BY <1>4 DEF Outcomes
  <2>2. box.results[<<d, "queue_full">>] \in Nat
    BY <2>1, <1>4 DEF Outboxes, Tallies
  <2>3. <<d, "delivered">> \notin turned /\ <<d, "failed">> \notin turned
    OBVIOUS
  <2>4. d \in Turned(box, batch) => <<d, "queue_full">> \in turned
    OBVIOUS
  <2> HIDE DEF turned
  <2> QED BY <2>1, <2>2, <2>3, <2>4 DEF results
<1> QED BY <1>3, <1>5, <1>6, <1>7 DEF taken

(* The notice of a delivery is a batch of deliveries. *)
LEMMA NoticesAreDeliveries ==
  ASSUME NEW d \in Deliveries
  PROVE  Notice(d) \in Seq(Deliveries) /\ NoticeOf(d) \in Deliveries
<1>1. NoticeOf(d) \in Deliveries
  BY DEF NoticeOf, Deliveries
<1>2. CASE d[2] = "event"
  BY <1>1, <1>2 DEF Notice, NoticeOf
<1>3. CASE d[2] # "event"
  BY <1>1, <1>3 DEF Notice
<1> QED BY <1>2, <1>3

(* The notice of an event has a key, or is taken on, or is turned away
   (_record_event_failure). *)
LEMMA NoticeTakenOrTurned ==
  ASSUME NEW box \in Outboxes, ~refusing, NEW d \in Deliveries, d[2] = "event"
  PROVE  NoticeOf(d) \in box.keys \union Taken(box, Notice(d)) \union Turned(box, Notice(d))
<1>1. Notice(d) = <<NoticeOf(d)>>
  BY DEF Notice, NoticeOf
<1>2. 1 \in DOMAIN Notice(d) /\ Notice(d)[1] = NoticeOf(d)
  BY <1>1
<1> HIDE DEF Notice, NoticeOf
<1> SUFFICES ASSUME NoticeOf(d) \notin box.keys
             PROVE NoticeOf(d) \in Taken(box, Notice(d)) \union Turned(box, Notice(d))
  OBVIOUS
<1>3. 1 \in Fresh(box, Notice(d))
  BY <1>2 DEF Fresh
<1> QED BY <1>2, <1>3 DEF Turned

(* The accounts hold on when some deliveries are taken on and others end, once,
   and who failed is announced. *)
LEMMA SettledOn ==
  ASSUME told \in Tallies, NEW box \in Outboxes, NEW after \in Outboxes, Settled(box),
         NEW taken \in SUBSET Deliveries, taken \intersect box.keys = {},
         NEW ended \in SUBSET box.tasks,
         after.tasks = (box.tasks \union taken) \ ended,
         after.keys = box.keys \union taken,
         \A d \in Deliveries :
           /\ Endings(d, after) = IF d \in ended THEN Endings(d, box) + 1 ELSE Endings(d, box)
           /\ HadNoRoom(d, box) => HadNoRoom(d, after)
           /\ d[2] = "event" /\ HasFailed(d, after) =>
                \/ HasFailed(d, box)
                \/ NoticeOf(d) \in after.keys \/ HadNoRoom(NoticeOf(d), after)
  PROVE  Settled(after)
<1> SUFFICES ASSUME NEW d \in Deliveries PROVE Accounted(d, after) /\ Announced(d, after)
  BY DEF Settled
<1>1. Accounted(d, box) /\ Announced(d, box)
  BY DEF Settled
<1>2. Accounted(d, after)
  BY <1>1 DEF Accounted
<1>3. NoticeOf(d) \in Deliveries
  BY NoticesAreDeliveries
<1>4. Announced(d, after)
  BY <1>1, <1>3 DEF Announced
<1> QED BY <1>2, <1>4

(* The counts of an outbox and of what was told are numbers. *)
LEMMA CountsAreNumbers ==
  ASSUME NEW tally \in Tallies, NEW d \in Deliveries
  PROVE  /\ tally[<<d, "delivered">>] \in Nat /\ tally[<<d, "failed">>] \in Nat
         /\ tally[<<d, "queue_full">>] \in Nat
  BY DEF Tallies, Outcomes

(* Publishing keeps the accounts (schedule_event). *)
LEMMA SchedulingSettles ==
  ASSUME told \in Tallies, NEW box \in Outboxes, Settled(box), NEW batch \in Seq(Deliveries)
  PROVE  Scheduled(box, batch) \in Outboxes /\ Settled(Scheduled(box, batch))
<1> DEFINE after == Scheduled(box, batch)
           taken == Taken(box, batch)
<1>1. /\ after \in Outboxes
      /\ taken \subseteq Deliveries /\ taken \intersect box.keys = {}
      /\ after.tasks = box.tasks \union taken /\ after.keys = box.keys \union taken
      /\ \A d \in Deliveries :
           /\ after.results[<<d, "delivered">>] = box.results[<<d, "delivered">>]
           /\ after.results[<<d, "failed">>] = box.results[<<d, "failed">>]
           /\ after.results[<<d, "queue_full">>] >= box.results[<<d, "queue_full">>]
  BY SchedulingTakes
<1> HIDE DEF after, taken
<1>2. box.results \in Tallies /\ after.results \in Tallies
  BY <1>1 DEF Outboxes
<1>3. ASSUME NEW d \in Deliveries
      PROVE  /\ Endings(d, after) = Endings(d, box)
             /\ HadNoRoom(d, box) => HadNoRoom(d, after)
             /\ HasFailed(d, after) => HasFailed(d, box)
  <2>1. /\ told[<<d, "queue_full">>] \in Nat
        /\ box.results[<<d, "queue_full">>] \in Nat /\ after.results[<<d, "queue_full">>] \in Nat
    BY <1>2, CountsAreNumbers
  <2>2. /\ after.results[<<d, "delivered">>] = box.results[<<d, "delivered">>]
        /\ after.results[<<d, "failed">>] = box.results[<<d, "failed">>]
        /\ after.results[<<d, "queue_full">>] >= box.results[<<d, "queue_full">>]
    BY <1>1
  <2>3. HadNoRoom(d, box) => HadNoRoom(d, after)
    BY <2>1, <2>2 DEF HadNoRoom
  <2>4. Endings(d, after) = Endings(d, box)
    BY <2>2 DEF Endings
  <2>5. HasFailed(d, after) => HasFailed(d, box)
    BY <2>2 DEF HasFailed
  <2> QED BY <2>3, <2>4, <2>5
<1>4. Settled(after)
  <2>1. after.tasks = (box.tasks \union taken) \ {}
    BY <1>1
  <2>2. \A d \in Deliveries :
          Endings(d, after) = IF d \in {} THEN Endings(d, box) + 1 ELSE Endings(d, box)
    BY <1>3
  <2> QED BY <1>1, <1>3, <2>1, <2>2, SettledOn
<1> QED BY <1>1, <1>4 DEF after

(* A delivery that succeeds ends once (_async_deliver_event). *)
LEMMA DeliveredSettles ==
  ASSUME told \in Tallies, outbox \in Outboxes, Settled(outbox), NEW d \in outbox.tasks
  PROVE  Delivered(d) \in Outboxes /\ Settled(Delivered(d))
<1> DEFINE noted == Noted(outbox, d, "delivered")
           after == Delivered(d)
<1>1. d \in Deliveries /\ "delivered" \in Outcomes
  BY DEF Outboxes, Outcomes
<1>2. /\ noted \in Outboxes /\ noted.tasks = outbox.tasks /\ noted.keys = outbox.keys
      /\ \A o \in Deliveries \X Outcomes :
           noted.results[o] =
             IF o = <<d, "delivered">> THEN outbox.results[o] + 1 ELSE outbox.results[o]
  BY <1>1, NotedCounts
<1>3. after = [noted EXCEPT !.tasks = @ \ {d}]
  BY DEF Delivered
<1> HIDE DEF noted, after
<1>4. /\ after \in Outboxes /\ after.tasks = outbox.tasks \ {d}
      /\ after.keys = outbox.keys /\ after.results = noted.results
  BY <1>2, <1>3 DEF Outboxes
<1>5. outbox.results \in Tallies
  BY DEF Outboxes
<1>6. ASSUME NEW e \in Deliveries
      PROVE  /\ Endings(e, after) =
                  IF e \in {d} THEN Endings(e, outbox) + 1 ELSE Endings(e, outbox)
             /\ HadNoRoom(e, outbox) => HadNoRoom(e, after)
             /\ HasFailed(e, after) => HasFailed(e, outbox)
  <2>1. \A o \in Outcomes : <<e, o>> \in Deliveries \X Outcomes
    OBVIOUS
  <2>2. /\ after.results[<<e, "failed">>] = outbox.results[<<e, "failed">>]
        /\ after.results[<<e, "queue_full">>] = outbox.results[<<e, "queue_full">>]
        /\ after.results[<<e, "delivered">>] =
             IF e = d THEN outbox.results[<<e, "delivered">>] + 1
             ELSE outbox.results[<<e, "delivered">>]
    BY <1>2, <1>4, <2>1 DEF Outcomes
  <2>3. /\ told[<<e, "delivered">>] \in Nat /\ told[<<e, "failed">>] \in Nat
        /\ outbox.results[<<e, "delivered">>] \in Nat /\ outbox.results[<<e, "failed">>] \in Nat
    BY <1>5, CountsAreNumbers
  <2>4. Endings(e, after) = IF e = d THEN Endings(e, outbox) + 1 ELSE Endings(e, outbox)
    BY <2>2, <2>3 DEF Endings
  <2> QED BY <2>2, <2>4 DEF HadNoRoom, HasFailed
<1>7. Settled(after)
  <2>1. /\ after.tasks = (outbox.tasks \union {}) \ {d}
        /\ after.keys = outbox.keys \union {}
    BY <1>4
  <2>2. {d} \in SUBSET outbox.tasks /\ {} \in SUBSET Deliveries /\ {} \intersect outbox.keys = {}
    OBVIOUS
  <2> QED BY <1>4, <1>6, <2>1, <2>2, SettledOn
<1> QED BY <1>4, <1>7 DEF after

(* A delivery that fails ends once, and an event's notice is taken on or turned
   away with it (_record_event_failure). *)
LEMMA UndeliveredSettles ==
  ASSUME told \in Tallies, outbox \in Outboxes, Settled(outbox), ~refusing,
         NEW d \in outbox.tasks
  PROVE  /\ Undelivered(d) \in Outboxes /\ Settled(Undelivered(d))
         /\ outbox.tasks \ {d} \subseteq Undelivered(d).tasks
<1> DEFINE noted == Noted(outbox, d, "failed")
           batch == Notice(d)
           sent == Scheduled(noted, batch)
           taken == Taken(noted, batch)
           turned == Turned(noted, batch)
           after == Undelivered(d)
<1>1. d \in Deliveries /\ "failed" \in Outcomes
  BY DEF Outboxes, Outcomes
<1>2. /\ noted \in Outboxes /\ noted.tasks = outbox.tasks /\ noted.keys = outbox.keys
      /\ \A o \in Deliveries \X Outcomes :
           noted.results[o] =
             IF o = <<d, "failed">> THEN outbox.results[o] + 1 ELSE outbox.results[o]
  BY <1>1, NotedCounts
<1>3. batch \in Seq(Deliveries)
  BY <1>1, NoticesAreDeliveries
<1>4. d[2] = "event" => NoticeOf(d) \in noted.keys \union taken \union turned
  BY <1>1, <1>2, NoticeTakenOrTurned
<1>5. after = [sent EXCEPT !.tasks = @ \ {d}]
  BY DEF Undelivered
<1> HIDE DEF noted, batch
<1>6. /\ sent \in Outboxes
      /\ taken \subseteq Deliveries /\ taken \intersect noted.keys = {}
      /\ sent.tasks = noted.tasks \union taken /\ sent.keys = noted.keys \union taken
      /\ \A e \in Deliveries :
           /\ sent.results[<<e, "delivered">>] = noted.results[<<e, "delivered">>]
           /\ sent.results[<<e, "failed">>] = noted.results[<<e, "failed">>]
           /\ sent.results[<<e, "queue_full">>] >= noted.results[<<e, "queue_full">>]
           /\ e \in turned =>
                sent.results[<<e, "queue_full">>] > noted.results[<<e, "queue_full">>]
  BY <1>2, <1>3, SchedulingTakes
<1> HIDE DEF sent, taken, turned, after
<1>7. /\ after \in Outboxes /\ after.tasks = (outbox.tasks \union taken) \ {d}
      /\ after.keys = outbox.keys \union taken /\ after.results = sent.results
  BY <1>2, <1>5, <1>6 DEF Outboxes
<1>8. outbox.results \in Tallies /\ after.results \in Tallies
  BY <1>7 DEF Outboxes
<1>9. ASSUME NEW e \in Deliveries
      PROVE  /\ Endings(e, after) =
                  IF e \in {d} THEN Endings(e, outbox) + 1 ELSE Endings(e, outbox)
             /\ HadNoRoom(e, outbox) => HadNoRoom(e, after)
             /\ HasFailed(e, after) => HasFailed(e, outbox) \/ e = d
             /\ e \in turned => HadNoRoom(e, after)
  <2>1. \A o \in Outcomes : <<e, o>> \in Deliveries \X Outcomes
    OBVIOUS
  <2>2. /\ noted.results[<<e, "delivered">>] = outbox.results[<<e, "delivered">>]
        /\ noted.results[<<e, "queue_full">>] = outbox.results[<<e, "queue_full">>]
        /\ noted.results[<<e, "failed">>] =
             IF e = d THEN outbox.results[<<e, "failed">>] + 1
             ELSE outbox.results[<<e, "failed">>]
    BY <1>2, <2>1 DEF Outcomes
  <2>3. /\ after.results[<<e, "delivered">>] = outbox.results[<<e, "delivered">>]
        /\ after.results[<<e, "queue_full">>] >= outbox.results[<<e, "queue_full">>]
        /\ after.results[<<e, "failed">>] =
             IF e = d THEN outbox.results[<<e, "failed">>] + 1
             ELSE outbox.results[<<e, "failed">>]
        /\ e \in turned =>
             after.results[<<e, "queue_full">>] > outbox.results[<<e, "queue_full">>]
    BY <1>6, <1>7, <2>2
  <2>4. /\ told[<<e, "delivered">>] \in Nat /\ told[<<e, "failed">>] \in Nat
        /\ told[<<e, "queue_full">>] \in Nat
        /\ outbox.results[<<e, "delivered">>] \in Nat /\ outbox.results[<<e, "failed">>] \in Nat
        /\ outbox.results[<<e, "queue_full">>] \in Nat
        /\ after.results[<<e, "queue_full">>] \in Nat
    BY <1>8, CountsAreNumbers
  <2>5. Endings(e, after) = IF e = d THEN Endings(e, outbox) + 1 ELSE Endings(e, outbox)
    BY <2>3, <2>4 DEF Endings
  <2>6. HadNoRoom(e, outbox) => HadNoRoom(e, after)
    BY <2>3, <2>4 DEF HadNoRoom
  <2>7. e \in turned => HadNoRoom(e, after)
    BY <2>3, <2>4 DEF HadNoRoom
  <2>8. HasFailed(e, after) => HasFailed(e, outbox) \/ e = d
    BY <2>3 DEF HasFailed
  <2> QED BY <2>5, <2>6, <2>7, <2>8
<1>10. Settled(after)
  <2>1. {d} \in SUBSET outbox.tasks /\ taken \in SUBSET Deliveries
        /\ taken \intersect outbox.keys = {}
    BY <1>2, <1>6
  <2>2. ASSUME NEW e \in Deliveries, e[2] = "event", HasFailed(e, after)
        PROVE  \/ HasFailed(e, outbox)
               \/ NoticeOf(e) \in after.keys \/ HadNoRoom(NoticeOf(e), after)
    <3>1. CASE e = d
      <4>1. NoticeOf(d) \in outbox.keys \union taken \union turned
        BY <1>2, <1>4, <2>2, <3>1
      <4>2. NoticeOf(d) \in Deliveries
        BY <1>1, NoticesAreDeliveries
      <4> QED BY <3>1, <4>1, <4>2, <1>7, <1>9
    <3>2. CASE e # d
      BY <2>2, <3>2, <1>9
    <3> QED BY <3>1, <3>2
  <2> QED BY <1>7, <1>9, <2>1, <2>2, SettledOn
<1>11. outbox.tasks \ {d} \subseteq after.tasks
  BY <1>7
<1> QED BY <1>7, <1>10, <1>11 DEF after

(* Ending a delivery leaves an outbox, whether or not the manager is open. *)
LEMMA EndingsAreOutboxes ==
  ASSUME outbox \in Outboxes, NEW d \in Deliveries
  PROVE  Delivered(d) \in Outboxes /\ Undelivered(d) \in Outboxes
<1> DEFINE noted == Noted(outbox, d, "delivered")
           missed == Noted(outbox, d, "failed")
           sent == Scheduled(missed, Notice(d))
<1>1. noted \in Outboxes /\ missed \in Outboxes
  BY NotedCounts DEF Outcomes
<1>2. sent \in Outboxes
  BY <1>1, NoticesAreDeliveries, SchedulingTakes
<1>3. Delivered(d) = [noted EXCEPT !.tasks = @ \ {d}]
  BY DEF Delivered
<1>4. Undelivered(d) = [sent EXCEPT !.tasks = @ \ {d}]
  BY DEF Undelivered
<1> HIDE DEF noted, missed, sent
<1> QED BY <1>1, <1>2, <1>3, <1>4 DEF Outboxes

-----------------------------------------------------------------------------
(* The invariant *)

(* Nothing is queued at first. *)
LEMMA InitQueue == ConnectionsInit => QueueInv
<1> SUFFICES ASSUME ConnectionsInit PROVE QueueInv
  OBVIOUS
<1>1. line = <<>> /\ closing = {} /\ told = NoResults
      /\ outbox = [tasks |-> {}, keys |-> {}, results |-> NoResults]
  BY DEF ConnectionsInit
<1>2. NoResults \in Tallies
  BY DEF NoResults, Tallies
<1>3. LineTyped /\ StandsOnce /\ LineHasTasks
  BY <1>1 DEF LineTyped, StandsOnce, LineHasTasks
<1>4. outbox \in Outboxes /\ told \in Tallies
  BY <1>1, <1>2 DEF Outboxes
<1>5. ASSUME NEW d \in Deliveries PROVE Accounted(d, outbox) /\ Announced(d, outbox)
  <2>1. \A o \in Outcomes : NoResults[<<d, o>>] = 0
    BY DEF NoResults
  <2>2. Endings(d, outbox) = 0 /\ ~HasFailed(d, outbox)
    BY <1>1, <2>1 DEF Endings, HasFailed, Outcomes
  <2> QED BY <1>1, <2>2 DEF Accounted, Announced
<1> QED BY <1>1, <1>3, <1>4, <1>5 DEF QueueInv, Settled

(* An outbox that is settled stays so until it changes. *)
LEMMA SettledLater ==
  ASSUME NEW box, Settled(box), told' = told, outbox' = box
  PROVE  Settled(outbox)'
  BY DEF Settled, Accounted, Announced, Endings, HasFailed, HadNoRoom, NoticeOf

(* Who has entered with its task, if it is a delivery, breaks nothing. *)
LEMMA EnterKeeps ==
  ASSUME QueueInv, NEW op \in Ops, Enter(op),
         op \in Deliveries => ~Contains(line, op) /\ op \in outbox.tasks,
         UNCHANGED <<refusing, closing, outbox, told>>
  PROVE  QueueInv'
<1>1. line' = Append(line, op)
  BY DEF Enter
<1>2. LineTyped' /\ StandsOnce'
      /\ \A i \in DOMAIN line' : line'[i] = op \/ \E j \in DOMAIN line : line'[i] = line[j]
  BY <1>1, EnteringOnce DEF QueueInv
<1>3. outbox \in Outboxes /\ told \in Tallies
  BY DEF QueueInv
<1>4. ASSUME ~refusing PROVE closing = {} /\ LineHasTasks' /\ Settled(outbox)'
  <2>1. closing = {} /\ LineHasTasks /\ Settled(outbox)
    BY <1>4 DEF QueueInv
  <2>2. LineHasTasks'
    BY <1>2, <2>1 DEF LineHasTasks
  <2> QED BY <2>1, <2>2, SettledLater
<1> QED BY <1>2, <1>3, <1>4 DEF QueueInv

(* Who leaves, with the outbox settled without its task, breaks nothing. *)
LEMMA LeaveKeeps ==
  ASSUME QueueInv, NEW op, Leave(op), UNCHANGED <<refusing, closing, told>>,
         outbox' \in Outboxes,
         ~refusing => Settled(outbox'),
         ~refusing => outbox.tasks \ ({op} \intersect Deliveries) \subseteq outbox'.tasks
  PROVE  QueueInv'
<1>1. /\ LineTyped' /\ StandsOnce'
      /\ \A i \in DOMAIN line' :
           /\ \E j \in DOMAIN line : line'[i] = line[j]
           /\ op \in Deliveries => line'[i] # op
  BY LeavingOnce DEF QueueInv
<1>2. ASSUME ~refusing PROVE closing = {} /\ LineHasTasks' /\ Settled(outbox)'
  <2>1. closing = {} /\ LineHasTasks
    BY <1>2 DEF QueueInv
  <2>2. LineHasTasks'
    BY <1>1, <1>2, <2>1 DEF LineHasTasks
  <2>3. Settled(outbox)'
    BY <1>2, SettledLater
  <2> QED BY <2>1, <2>2, <2>3
<1> QED BY <1>1, <1>2 DEF QueueInv

(* An operation that ends keeps the invariant, well (Succeed) or not
   (OperationFails). *)
LEMMA OperationEnds ==
  ASSUME QueueInv, NEW op, Succeed(op) \/ OperationFails(op), UNCHANGED <<refusing, closing, told>>
  PROVE  QueueInv'
<1>1. Leave(op)
  BY DEF Succeed, OperationFails
<1>2. PICK j \in DOMAIN line : line[j] = op
  BY <1>1, LeavingOnce DEF QueueInv
<1>3. ~refusing => Settled(outbox) /\ (op \in Deliveries => op \in outbox.tasks)
  BY <1>2 DEF QueueInv, LineHasTasks
<1>4. outbox \in Outboxes /\ told \in Tallies
  BY DEF QueueInv
<1>5. CASE op \notin Deliveries
  <2>1. outbox' = outbox
    BY <1>5 DEF Succeed, OperationFails
  <2> QED BY <1>1, <1>3, <1>4, <2>1, LeaveKeeps
<1>6. CASE op \in Deliveries /\ outbox' = Delivered(op)
  <2>1. outbox' \in Outboxes
    BY <1>4, <1>6, EndingsAreOutboxes
  <2>2. ~refusing => Settled(outbox')
    BY <1>3, <1>4, <1>6, DeliveredSettles
  <2>3. outbox.tasks \ ({op} \intersect Deliveries) \subseteq outbox'.tasks
    <3>1. outbox'.tasks = outbox.tasks \ {op}
      <4> DEFINE noted == Noted(outbox, op, "delivered")
      <4>1. noted \in Outboxes /\ noted.tasks = outbox.tasks
        BY <1>4, <1>6, NotedCounts DEF Outcomes
      <4>2. outbox' = [noted EXCEPT !.tasks = @ \ {op}]
        BY <1>6 DEF Delivered
      <4> HIDE DEF noted
      <4> QED BY <4>1, <4>2 DEF Outboxes
    <3> QED BY <1>6, <3>1
  <2> QED BY <1>1, <2>1, <2>2, <2>3, LeaveKeeps
<1>7. CASE op \in Deliveries /\ outbox' = Undelivered(op)
  <2>1. outbox' \in Outboxes
    BY <1>4, <1>7, EndingsAreOutboxes
  <2>2. ~refusing => Settled(outbox') /\ outbox.tasks \ {op} \subseteq outbox'.tasks
    BY <1>3, <1>4, <1>7, UndeliveredSettles
  <2> QED BY <1>1, <1>7, <2>1, <2>2, LeaveKeeps
<1> QED BY <1>5, <1>6, <1>7 DEF Succeed, OperationFails

(* A step that leaves the line alone keeps the invariant when it keeps the
   accounts and takes no task away. *)
LEMMA LineStays ==
  ASSUME QueueInv, UNCHANGED <<line, refusing, closing, told>>, outbox' \in Outboxes,
         ~refusing => Settled(outbox') /\ \A d \in Deliveries :
                        d \in outbox.tasks /\ Contains(line, d) => d \in outbox'.tasks
  PROVE  QueueInv'
<1>1. LineTyped' /\ StandsOnce'
  BY DEF QueueInv, LineTyped, StandsOnce
<1>2. ASSUME ~refusing PROVE closing = {} /\ LineHasTasks' /\ Settled(outbox)'
  <2>1. closing = {} /\ LineHasTasks /\ LineTyped
    BY <1>2 DEF QueueInv
  <2>2. LineHasTasks'
    BY <1>2, <2>1 DEF LineHasTasks, LineTyped, Contains
  <2>3. Settled(outbox)'
    BY <1>2, SettledLater
  <2> QED BY <2>1, <2>2, <2>3
<1> QED BY <1>1, <1>2 DEF QueueInv

(* Every step keeps the accounts. *)
LEMMA QueueStep == ASSUME QueueInv, [ConnectionsNext]_connectionVars PROVE QueueInv'
<1>0. /\ outbox \in Outboxes /\ told \in Tallies /\ LineTyped
      /\ ~refusing => closing = {} /\ LineHasTasks /\ Settled(outbox)
  BY DEF QueueInv
<1>1. ASSUME NEW c \in Calls, Begin(c) PROVE QueueInv'
  <2>1. CASE Admitted(c)
    <3>1. Enter(<<c, "call">>) /\ UNCHANGED <<refusing, closing, outbox, told>>
      BY <1>1, <2>1 DEF Begin
    <3>2. <<c, "call">> \in Ops /\ <<c, "call">> \notin Deliveries
      BY CallsAreNoDeliveries
    <3> QED BY <3>1, <3>2, EnterKeeps
  <2>2. CASE ~Admitted(c)
    <3>1. UNCHANGED <<line, refusing, closing, outbox, told>>
      BY <1>1, <2>2 DEF Begin
    <3> QED BY <1>0, <3>1, LineStays
  <2> QED BY <2>1, <2>2
<1>2. ASSUME NEW c \in Calls, CancelCall(c) PROVE QueueInv'
  <2>1. Leave(<<c, "call">>) /\ UNCHANGED <<refusing, closing, outbox, told>>
    BY <1>2 DEF CancelCall
  <2>2. <<c, "call">> \notin Deliveries
    BY CallsAreNoDeliveries
  <2> QED BY <1>0, <2>1, <2>2, LeaveKeeps
<1>3. ASSUME NEW d \in Deliveries, Deliver(d) PROVE QueueInv'
  <2>1. d \in outbox.tasks /\ ~Contains(line, d) /\ UNCHANGED <<refusing, closing, told>>
    BY <1>3 DEF Deliver
  <2>2. CASE inside < QueueLimit
    <3>1. Enter(d) /\ UNCHANGED outbox
      BY <1>3, <2>2 DEF Deliver
    <3>2. d \in Ops
      BY DEF Ops
    <3> QED BY <2>1, <3>1, <3>2, EnterKeeps
  <2>3. CASE ~(inside < QueueLimit)
    <3>1. outbox' = Undelivered(d) /\ UNCHANGED line
      BY <1>3, <2>3 DEF Deliver
    <3>2. outbox' \in Outboxes
      BY <1>0, <3>1, EndingsAreOutboxes
    <3>3. ~refusing => Settled(outbox') /\ outbox.tasks \ {d} \subseteq outbox'.tasks
      BY <1>0, <2>1, <3>1, UndeliveredSettles
    <3> QED BY <2>1, <3>1, <3>2, <3>3, LineStays
  <2> QED BY <2>2, <2>3
<1>4. ASSUME NEW d \in Deliveries, Unwind(d) PROVE QueueInv'
  <2>1. refusing /\ refusing' /\ UNCHANGED <<outbox, told>>
    BY <1>0, <1>4 DEF Unwind
  <2>2. LineTyped' /\ StandsOnce'
    <3>1. CASE Leave(d)
      BY <3>1, LeavingOnce DEF QueueInv
    <3>2. CASE UNCHANGED line
      BY <3>2 DEF QueueInv, LineTyped, StandsOnce
    <3> QED BY <1>4, <3>1, <3>2 DEF Unwind
  <2> QED BY <1>0, <2>1, <2>2 DEF QueueInv
<1>5. ASSUME NEW p \in Publishers, Publish(p) PROVE QueueInv'
  <2> DEFINE batch == [i \in DOMAIN Batch[p] |-> <<Batch[p][i], "event">>]
  <2>1. batch \in Seq(Deliveries)
    <3>1. Batch[p] \in Seq(Events)
      BY BatchAssumption
    <3>2. DOMAIN Batch[p] = 1 .. Len(Batch[p]) /\ Len(Batch[p]) \in Nat
      BY <3>1
    <3>3. \A i \in DOMAIN Batch[p] : <<Batch[p][i], "event">> \in Deliveries
      BY <3>1 DEF Deliveries
    <3> QED BY <3>2, <3>3
  <2>2. outbox' = Scheduled(outbox, batch) /\ UNCHANGED <<line, refusing, closing, told>>
    BY <1>5 DEF Publish
  <2> HIDE DEF batch
  <2>3. outbox' \in Outboxes /\ outbox'.tasks = outbox.tasks \union Taken(outbox, batch)
    BY <1>0, <2>1, <2>2, SchedulingTakes
  <2>4. ~refusing => Settled(outbox')
    BY <1>0, <2>1, <2>2, SchedulingSettles
  <2> QED BY <2>2, <2>3, <2>4, LineStays
<1>6. ASSUME NEW p \in Publishers, Drained(p) PROVE QueueInv'
  <2>1. /\ outbox' = [outbox EXCEPT !.results = NoResults]
        /\ told' = [o \in DOMAIN told |-> told[o] + outbox.results[o]]
        /\ UNCHANGED <<line, refusing, closing>>
    BY <1>6 DEF Drained
  <2>2. NoResults \in Tallies /\ outbox.results \in Tallies
    BY <1>0 DEF NoResults, Tallies, Outboxes
  <2>3. /\ outbox' \in Outboxes /\ outbox'.tasks = outbox.tasks /\ outbox'.keys = outbox.keys
        /\ outbox'.results = NoResults
    BY <1>0, <2>1, <2>2 DEF Outboxes
  <2>4. told' \in Tallies
    BY <1>0, <2>1, <2>2 DEF Tallies
  <2>5. ASSUME NEW d \in Deliveries
        PROVE  /\ Endings(d, outbox)' = Endings(d, outbox)
               /\ HasFailed(d, outbox)' = HasFailed(d, outbox)
               /\ HadNoRoom(d, outbox)' = HadNoRoom(d, outbox)
    <3>1. ASSUME NEW o \in Outcomes
          PROVE told'[<<d, o>>] + outbox'.results[<<d, o>>]
                  = told[<<d, o>>] + outbox.results[<<d, o>>]
      <4>1. <<d, o>> \in DOMAIN told
        BY <1>0 DEF Tallies
      <4>2. told'[<<d, o>>] = told[<<d, o>>] + outbox.results[<<d, o>>]
        BY <2>1, <4>1
      <4>3. outbox'.results[<<d, o>>] = 0 /\ told'[<<d, o>>] \in Nat
        BY <2>3, <2>4 DEF NoResults, Tallies
      <4> QED BY <4>2, <4>3
    <3> QED BY <3>1 DEF Endings, HasFailed, HadNoRoom, Outcomes
  <2>6. ASSUME ~refusing PROVE Settled(outbox)'
    <3>1. ASSUME NEW d \in Deliveries PROVE Accounted(d, outbox)' /\ Announced(d, outbox)'
      <4>1. Accounted(d, outbox) /\ Announced(d, outbox)
        BY <1>0, <2>6 DEF Settled
      <4>2. NoticeOf(d) \in Deliveries
        BY NoticesAreDeliveries
      <4>3. Accounted(d, outbox)'
        BY <2>3, <2>5, <4>1 DEF Accounted
      <4>4. Announced(d, outbox)'
        BY <2>3, <2>5, <4>1, <4>2 DEF Announced, NoticeOf
      <4> QED BY <4>3, <4>4
    <3> QED BY <3>1 DEF Settled
  <2>7. LineTyped' /\ StandsOnce' /\ (LineHasTasks => LineHasTasks')
    BY <2>1, <2>3 DEF QueueInv, LineTyped, StandsOnce, LineHasTasks
  <2> QED BY <1>0, <2>1, <2>3, <2>4, <2>6, <2>7 DEF QueueInv
<1>7. CASE SendRequest
  <2>1. UNCHANGED <<refusing, closing, told>>
    BY <1>7 DEF SendRequest
  <2>2. CASE OperationFails(Head(line))
    BY <2>1, <2>2, OperationEnds
  <2>3. CASE UNCHANGED <<line, outbox>>
    BY <1>0, <2>1, <2>3, LineStays
  <2> QED BY <1>7, <2>2, <2>3 DEF SendRequest
<1>8. CASE Answer
  <2>1. UNCHANGED <<refusing, closing, told>>
    BY <1>8 DEF Answer
  <2>2. CASE Succeed(Head(line)) \/ OperationFails(Head(line))
    BY <2>1, <2>2, OperationEnds
  <2>3. CASE UNCHANGED <<line, outbox>>
    BY <1>0, <2>1, <2>3, LineStays
  <2> QED BY <1>8, <2>2, <2>3 DEF Answer
<1>9. CASE Close
  <2>1. refusing' /\ outbox' \in Outboxes
    BY <1>0, <1>9 DEF Close, Outboxes
  <2> QED BY <1>9, <2>1 DEF Close, QueueInv, LineTyped, StandsOnce
<1>10. CASE Shut
  <2>1. NoResults \in Tallies
    BY DEF NoResults, Tallies
  <2>2. refusing' /\ outbox' \in Outboxes
    BY <1>0, <1>10, <2>1 DEF Shut, Outboxes
  <2> QED BY <1>10, <2>2 DEF Shut, QueueInv, LineTyped, StandsOnce
<1>11. CASE UNCHANGED connectionVars
  BY <1>0, <1>11, LineStays DEF connectionVars
<1> QED
  BY <1>1, <1>2, <1>3, <1>4, <1>5, <1>6, <1>7, <1>8, <1>9, <1>10, <1>11 DEF ConnectionsNext

(* While the manager is open no event is lost or ends twice, and one that failed
   is announced, for any number of calls, events and publishers and a queue of
   any length (_schedule_event, _async_deliver_event, async_drain_events). *)
THEOREM EventsEndOnce == ConnectionsSpec => []OutcomesAreOnce
<1>1. QueueInv /\ [ConnectionsNext]_connectionVars => QueueInv'
  BY QueueStep
<1> QED BY InitQueue, <1>1, QueueInvPromises, PTL DEF ConnectionsSpec

=============================================================================
