--------------------------- MODULE ConnectorManager ---------------------------
(***************************************************************************)
(* connectors/manager.py with health.py and the adapters it owns: one      *)
(* operation at a time behind a short queue, the outbound n8n events that  *)
(* are scheduled without waiting and drained for their audit, and the      *)
(* shutdown that cancels them.                                             *)
(*                                                                         *)
(* `line` is the semaphore with its waiters: the head is the operation     *)
(* that runs.  A delivery is an event or the notice that it failed.        *)
(***************************************************************************)
EXTENDS ProviderReply, SequencesExt

CONSTANTS
  Calls,              \* operations asked for by commands and analyses
  Kind,               \* what each call does: ai_task, explain, investigate, mcp,
                      \* hkg or test
  Events,             \* idempotency keys of outbound events
  Publishers,         \* application steps that publish events
  Batch,              \* the events each publisher schedules
  Silent,             \* publishers that do not drain: async_scan_started
  QueueLimit,         \* MAX_CONNECTOR_QUEUE
  Retries,            \* N8nConfig.retry_count
  KeysKept,           \* how many _event_keys there is room for, and how many
  OutcomesKept        \* _event_results: bounds on what is published

(* The keys of a batch begin with its event types, which differ. *)
ASSUME BatchAssumption ==
  \A p \in Publishers :
    /\ Batch[p] \in Seq(Events)
    /\ \A i, j \in DOMAIN Batch[p] : Batch[p][i] = Batch[p][j] => i = j

Connectors == {"ollama", "n8n", "mcp", "hkg"}
Deliveries == Events \X {"event", "notice"}
Ops == (Calls \X {"call"}) \union Deliveries

VARIABLES
  refusing, closing,  \* _closed; the cancelled deliveries not yet unwound
  shut,               \* async_close has returned
  line,               \* who holds the semaphore and who waits for it
  requests,           \* requests the running operation has sent
  inside,             \* _pending
  call,               \* where each call is
  outbox,             \* _event_tasks, _event_keys and _event_results
  unhealthy,          \* consecutive failures of each connector, up to three
  publisher,          \* where each publisher is
  told                \* outcomes handed to the audit

connectionVars ==
  <<refusing, closing, shut, line, requests, inside, call, outbox, unhealthy, publisher, told>>

Outcomes == {"delivered", "failed", "queue_full"}
NoResults == [o \in Deliveries \X Outcomes |-> 0]

ConnectorOf(op) ==
  IF op \in Deliveries THEN "n8n"
  ELSE CASE Kind[op[1]] \in {"ai_task", "explain", "investigate"} -> "ollama"
         [] Kind[op[1]] = "mcp" -> "mcp"
         [] Kind[op[1]] = "hkg" -> "hkg"
         [] OTHER -> "n8n"

(* An AI Task run keeps out of the health cache. *)
Rated(op) == op \in Deliveries \/ Kind[op[1]] # "ai_task"

Executes(op) == op \notin Deliveries /\ Kind[op[1]] \in {"ai_task", "explain"}

Attempts(op) ==
  IF op \in Deliveries THEN 1 + Retries
  ELSE IF Executes(op) THEN 1 + ParseRetries ELSE 1

(* What an answer amounts to: the model's, through Home Assistant or asked
   directly, or that of a plain request. *)
TaskStages == {Stage(r, FALSE) : r \in Replies}
ExplainStages == {Stage(r, TRUE) : r \in Replies}
PlainStages == {"accepted", "call_provider"}

StagesOf(op) ==
  IF ~Executes(op) THEN PlainStages
  ELSE IF Kind[op[1]] = "explain" THEN ExplainStages ELSE TaskStages

AskedAgain(op, stage) ==
  IF op \in Deliveries THEN stage # "accepted"
  ELSE Executes(op) /\ stage \in RecoverableStages

ConnectionsTypeOK ==
  /\ refusing \in BOOLEAN /\ shut \in BOOLEAN
  /\ closing \in SUBSET Deliveries
  /\ line \in Seq(Ops)
  /\ requests \in 0 .. 4
  /\ inside \in 0 .. QueueLimit
  /\ call \in [Calls -> {"idle", "in", "done", "failed", "refused", "cancelled"}]
  /\ outbox.tasks \in SUBSET Deliveries
  /\ outbox.keys \in SUBSET Deliveries
  /\ outbox.results \in [Deliveries \X Outcomes -> Nat]
  /\ unhealthy \in [Connectors -> 0 .. 3]
  /\ publisher \in [Publishers -> {"idle", "draining", "done"}]
  /\ told \in [Deliveries \X Outcomes -> Nat]

ConnectionsInit ==
  /\ refusing = FALSE /\ closing = {} /\ shut = FALSE
  /\ line = <<>> /\ requests = 0 /\ inside = 0
  /\ call = [c \in Calls |-> "idle"]
  /\ outbox = [tasks |-> {}, keys |-> {}, results |-> NoResults]
  /\ unhealthy = [k \in Connectors |-> 0]
  /\ publisher = [p \in Publishers |-> "idle"]
  /\ told = NoResults

-----------------------------------------------------------------------------
(* The outbox and the health cache                                           *)

Noted(box, d, outcome) == [box EXCEPT !.results[<<d, outcome>>] = @ + 1]

(* schedule_event for a batch in turn, without an await: a key that was scheduled
   is skipped, and never are there more tasks than the queue holds. *)
Fresh(box, batch) == IF refusing THEN {} ELSE {i \in DOMAIN batch : batch[i] \notin box.keys}

Taken(box, batch) ==
  {batch[i] : i \in {j \in Fresh(box, batch) :
     Cardinality(box.tasks) + Cardinality({k \in Fresh(box, batch) : k < j}) < QueueLimit}}

Turned(box, batch) == {batch[i] : i \in Fresh(box, batch)} \ Taken(box, batch)

Scheduled(box, batch) ==
  LET taken == Taken(box, batch)
      turned == {<<d, "queue_full">> : d \in Turned(box, batch)}
  IN  [box EXCEPT !.tasks = @ \union taken,
                  !.keys = @ \union taken,
                  !.results = [o \in DOMAIN @ |-> IF o \in turned THEN @[o] + 1 ELSE @[o]]]

(* HealthCache.failure: the third in a row is an error, and no count goes on. *)
Failed(k, times) == [unhealthy EXCEPT ![k] = IF @ + times > 3 THEN 3 ELSE @ + times]

(* A delivery's outcome; a failed event is followed by its notice, scheduled
   while its own task still counts. *)
Notice(d) == IF d[2] = "event" THEN <<<<d[1], "notice">>>> ELSE <<>>

Delivered(d) == [Noted(outbox, d, "delivered") EXCEPT !.tasks = @ \ {d}]

Undelivered_Silent(d) == [Noted(outbox, d, "failed") EXCEPT !.tasks = @ \ {d}]

Undelivered(d) ==
  [Scheduled(Noted(outbox, d, "failed"), Notice(d)) EXCEPT !.tasks = @ \ {d}]

NoticesTurned(d) == Cardinality(Turned(outbox, Notice(d)))

-----------------------------------------------------------------------------
(* Operations                                                                *)

Enter(op) ==
  /\ line' = Append(line, op)
  /\ inside' = inside + 1

(* The finally clause, whatever ended the operation. *)
Leave(op) ==
  /\ \E i \in DOMAIN line : line[i] = op /\ line' = RemoveAt(line, i)
  /\ requests' = IF op = Head(line) THEN 0 ELSE requests
  /\ inside' = inside - 1

(* async_test, async_analyze, async_investigate, async_mcp_evidence,
   async_hkg_relationships, up to the semaphore.  Only an AI Task run does not
   look whether the manager is closed. *)
Admitted(c) == (refusing => Kind[c] = "ai_task") /\ inside < QueueLimit

Begin(c) ==
  /\ call[c] = "idle"
  /\ IF Admitted(c)
     THEN Enter(<<c, "call">>) /\ call' = [call EXCEPT ![c] = "in"]
     ELSE call' = [call EXCEPT ![c] = "refused"] /\ UNCHANGED <<line, inside>>
  /\ UNCHANGED <<refusing, closing, shut, requests, outbox, unhealthy,
                 publisher, told>>

(* The caller's own task is cancelled, waiting or running. *)
CancelCall(c) ==
  /\ call[c] = "in"
  /\ Leave(<<c, "call">>)
  /\ call' = [call EXCEPT ![c] = "cancelled"]
  /\ UNCHANGED <<refusing, closing, shut, outbox, unhealthy, publisher, told>>

(* A delivery task starts: _async_deliver_event up to the semaphore. *)
Deliver(d) ==
  /\ d \in outbox.tasks /\ ~Contains(line, d)
  /\ IF inside < QueueLimit
     THEN Enter(d) /\ UNCHANGED <<outbox, unhealthy>>
     ELSE /\ outbox' = Undelivered(d)
          /\ unhealthy' = Failed("n8n", NoticesTurned(d))
          /\ UNCHANGED <<line, inside>>
  /\ UNCHANGED <<refusing, closing, shut, requests, call, publisher, told>>

(* What the end of an operation leaves, in the manager and with its owner. *)
Succeed(op) ==
  /\ Leave(op)
  /\ unhealthy' = IF Rated(op) THEN [unhealthy EXCEPT ![ConnectorOf(op)] = 0] ELSE unhealthy
  /\ IF op \in Deliveries
     THEN outbox' = Delivered(op) /\ UNCHANGED call
     ELSE call' = [call EXCEPT ![op[1]] = "done"] /\ UNCHANGED outbox

OperationFails(op) ==
  /\ Leave(op)
  /\ IF op \in Deliveries
     THEN /\ outbox' = Undelivered(op)
          /\ unhealthy' = Failed("n8n", 1 + NoticesTurned(op))
          /\ UNCHANGED call
     ELSE /\ call' = [call EXCEPT ![op[1]] = "failed"]
          /\ unhealthy' = IF Rated(op) THEN Failed(ConnectorOf(op), 1) ELSE unhealthy
          /\ UNCHANGED outbox

(* The operation has the semaphore; the closed LLM adapter refuses to go on,
   the others send their request. *)
SendRequest ==
  /\ line # <<>> /\ requests = 0 /\ Head(line) \notin closing
  /\ LET op == Head(line)
     IN  IF shut /\ op \notin Deliveries /\ Kind[op[1]] = "explain"
         THEN OperationFails(op)
         ELSE requests' = 1 /\ UNCHANGED <<line, inside, unhealthy, call, outbox>>
  /\ UNCHANGED <<refusing, closing, shut, publisher, told>>

Answer ==
  /\ line # <<>> /\ requests > 0 /\ Head(line) \notin closing
  /\ LET op == Head(line)
     IN  \E stage \in StagesOf(op) :
           IF stage = "accepted" THEN Succeed(op)
           ELSE IF AskedAgain(op, stage) /\ requests < Attempts(op)
           THEN /\ requests' = requests + 1
                /\ UNCHANGED <<line, inside, unhealthy, call, outbox>>
           ELSE OperationFails(op)
  /\ UNCHANGED <<refusing, closing, shut, publisher, told>>

-----------------------------------------------------------------------------
(* Events                                                                    *)

(* The bound on what is published: every key, and every outcome that is not yet
   told, has its place in the two deques.  A delivery has an outcome and perhaps
   a notice with its own. *)
OutcomesWaiting == SumFunction(outbox.results)

RoomFor(batch) ==
  /\ 2 * (Cardinality(outbox.keys) + Len(batch)) <= KeysKept
  /\ OutcomesWaiting + 2 * (Cardinality(outbox.tasks) + Len(batch)) <= OutcomesKept

(* _publish_transition, async_scan_started, async_scan_failed: the whole batch,
   then wait for the deliveries. *)
Publish(p) ==
  /\ publisher[p] = "idle" /\ RoomFor(Batch[p])
  /\ LET batch == [i \in DOMAIN Batch[p] |-> <<Batch[p][i], "event">>]
     IN  /\ outbox' = Scheduled(outbox, batch)
         /\ unhealthy' = Failed("n8n", Cardinality(Turned(outbox, batch)))
  /\ publisher' = [publisher EXCEPT ![p] = IF p \in Silent THEN "done" ELSE "draining"]
  /\ UNCHANGED <<refusing, closing, shut, line, requests, inside, call, told>>

(* async_drain_events returns every outcome there is, whoever published it. *)
Drained(p) ==
  /\ publisher[p] = "draining"
  /\ outbox.tasks = {}
  /\ publisher' = [publisher EXCEPT ![p] = "done"]
  /\ told' = [o \in DOMAIN told |-> told[o] + outbox.results[o]]
  /\ outbox' = [outbox EXCEPT !.results = NoResults]
  /\ UNCHANGED <<refusing, closing, shut, line, requests, inside, call, unhealthy>>

-----------------------------------------------------------------------------
(* async_close                                                               *)

Close ==
  /\ ~refusing
  /\ refusing' = TRUE
  /\ closing' = outbox.tasks
  /\ outbox' = [outbox EXCEPT !.tasks = {}]
  /\ UNCHANGED <<shut, line, requests, inside, call, unhealthy, publisher, told>>

Unwind_Swallowed(d) ==
  /\ d \in closing /\ ~Contains(line, d)
  /\ closing' = closing \ {d}
  /\ UNCHANGED <<refusing, shut, line, requests, inside, call, outbox, unhealthy, publisher, told>>

Unwind(d) ==
  /\ d \in closing
  /\ IF Contains(line, d) THEN Leave(d) ELSE UNCHANGED <<line, requests, inside>>
  /\ closing' = closing \ {d}
  /\ UNCHANGED <<refusing, shut, call, outbox, unhealthy, publisher, told>>

Shut ==
  /\ refusing /\ ~shut /\ closing = {}
  /\ shut' = TRUE
  /\ outbox' = [outbox EXCEPT !.keys = {}, !.results = NoResults]
  /\ UNCHANGED <<refusing, closing, line, requests, inside, call, unhealthy,
                 publisher, told>>

-----------------------------------------------------------------------------
ConnectionsNext ==
  \/ \E c \in Calls : Begin(c) \/ CancelCall(c)
  \/ \E d \in Deliveries : Deliver(d) \/ Unwind(d)
  \/ \E p \in Publishers : Publish(p) \/ Drained(p)
  \/ SendRequest \/ Answer \/ Close \/ Shut

ConnectionsSpec == ConnectionsInit /\ [][ConnectionsNext]_connectionVars

(* The event loop runs every task that can go on, and every request has a
   timeout; nothing is published, asked or closed of itself. *)
ConnectionsFairness ==
  /\ \A d \in Deliveries : WF_connectionVars(Deliver(d)) /\ WF_connectionVars(Unwind(d))
  /\ \A p \in Publishers : WF_connectionVars(Drained(p))
  /\ WF_connectionVars(SendRequest) /\ WF_connectionVars(Answer) /\ WF_connectionVars(Shut)

ConnectionsFairSpec == ConnectionsSpec /\ ConnectionsFairness

-----------------------------------------------------------------------------
Tally(d, outcome) == told[<<d, outcome>>] + outbox.results[<<d, outcome>>]

(* While the manager is open every event it took on is still being delivered or
   has exactly one outcome, told or waiting to be told; and an event that failed
   is announced: its notice was taken on, or refused for want of room and that
   recorded. *)
OutcomesAreOnce ==
  ~refusing =>
    \A d \in Deliveries :
      /\ Tally(d, "delivered") + Tally(d, "failed")
           + Cardinality(outbox.tasks \intersect {d})
         = Cardinality(outbox.keys \intersect {d})
      /\ d[2] = "event" /\ Tally(d, "failed") > 0
           => \/ <<d[1], "notice">> \in outbox.keys
              \/ Tally(<<d[1], "notice">>, "queue_full") > 0

(* Every operation that was let in ends, every drain returns although failures
   schedule more deliveries, and every shutdown finishes. *)
EverythingReturns ==
  /\ \A c \in Calls : call[c] = "in" ~> call[c] # "in"
  /\ \A p \in Publishers \ Silent : publisher[p] = "draining" ~> publisher[p] = "done"
  /\ refusing ~> shut

=============================================================================
