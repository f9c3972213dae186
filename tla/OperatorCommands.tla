--------------------------- MODULE OperatorCommands ---------------------------
(***************************************************************************)
(* The commands of application/operations_service.py as the panel          *)
(* (presentation/api.py) and n8n (presentation/n8n_http.py) send them:     *)
(* previewed, confirmed, sent again when no answer came, each a load, its  *)
(* checks and a commit, among scans, analyses and commits of other         *)
(* services.                                                               *)
(*                                                                         *)
(* A commit and the projection of what it stored are one stretch; commits  *)
(* of the remediation services (Unprojected) are not projected, so that the    *)
(* generation shown is behind until the next one that is.  Audit records   *)
(* and texts are left out; the id of a rule is the command that made it.   *)
(***************************************************************************)
EXTENDS FindingExplorer

CONSTANTS
  Commands,       \* what operators and n8n ask for
  Request,        \* the content of each command
  Mixes,          \* the sets of commands to look at together
  TokenLimit,     \* how many tokens the document remembers, 128
  SeenLimit,      \* how many tokens the n8n connector remembers, 128
  MaxSends,       \* bound on how often one command is sent
  MaxScans, MaxForeign

Kinds == {"review", "suppress", "create", "update", "delete", "group", "incident", "clear",
          "advice"}

(* n8n_http.py dispatches no command of an operator but these two. *)
ASSUME RequestsAssumption ==
  \A c \in Commands :
    /\ Request[c].kind \in Kinds
    /\ Request[c].inbound \in BOOLEAN
    /\ Request[c].inbound => Request[c].kind \in {"review", "suppress"}

VARIABLES
  doc,            \* the stored document
  shown,          \* generation of the projection
  active,         \* the commands of this behaviour
  phase, preview, \* where each command is, and what its sender saw
  loaded,           \* generation it loaded
  sends,
  seen,           \* tokens the n8n connector remembers
  expired,        \* rules whose expiration passed
  scans, foreign, \* how many there were
  applied         \* history: how often each command took effect

commandVars ==
  <<doc, shown, active, phase, preview, loaded, sends, seen, expired, scans, foreign, applied>>

Inbound(c) == Request[c].inbound

(* Commands that n8n sends carry no preview: the endpoint makes it. *)
Nothing == [generation |-> 0, revision |-> 0, findings |-> {}]

CommandsInit ==
  /\ doc = [generation |-> 0, revision |-> 0,
            findings |-> [f \in Findings |-> [open |-> TRUE, review |-> "new", revision |-> 1]],
            suppression |-> {}, grouping |-> <<>>, tokens |-> <<>>, incident |-> 1,
            advice |-> NoAdvice]
  /\ shown = 0
  /\ active \in Mixes
  /\ phase = [c \in Commands |-> "idle"]
  /\ preview = [c \in Commands |-> Nothing]
  /\ loaded = [c \in Commands |-> 0]
  /\ sends = [c \in Commands |-> 0]
  /\ seen = <<>>
  /\ expired = {}
  /\ scans = 0 /\ foreign = 0
  /\ applied = [c \in Commands |-> 0]

-----------------------------------------------------------------------------
(* What the explorer shows                                                   *)

ActionsOf(d) == Actions(d.suppression, d.grouping, expired)

RulesOf(d, id) == {r \in d.suppression : r.id = id}
RuleOf(d, id) == CHOOSE r \in d.suppression : r.id = id

(* preview_group: open members, and those a review may still be given to. *)
Eligible(d, group, kind) ==
  {<<f, d.findings[f].revision>> :
     f \in {g \in Members(group, d.grouping, DefaultSettings) :
              /\ d.findings[g].open
              /\ kind = "review" => d.findings[g].review = "new"}}

(* preview_suppression counts every match, resolved or not. *)
Matched(d, matcher) ==
  {<<f, 0>> : f \in {g \in Findings : Matches(matcher, g, PrimaryKey(g, d.grouping, DefaultSettings))}}

(* What the sender of a command sees before confirming it. *)
Seen(c) ==
  LET r == Request[c]
  IN [generation |-> shown,
      revision |->
        CASE r.kind \in {"update", "delete"} -> RuleOf(doc, r.rule).revision
          [] r.kind = "incident" -> doc.incident
          [] r.kind = "clear" -> doc.revision
          [] OTHER -> 0,
      findings |->
        CASE r.kind \in {"review", "suppress"} -> Eligible(doc, r.group, r.kind)
          [] r.kind = "create" -> Matched(doc, r.matcher)
          [] OTHER -> {}]

Previewable(c) ==
  LET r == Request[c]
  IN CASE r.kind \in {"update", "delete"} -> RulesOf(doc, r.rule) # {}
       [] r.kind \in {"review", "suppress"} -> r.group \in Displayed(doc.grouping, DefaultSettings)
       [] r.kind = "advice" -> doc.advice # NoAdvice
       [] OTHER -> TRUE

-----------------------------------------------------------------------------
(* Checks of a command on what it loaded                                     *)

Tokened(c) == Request[c].kind \notin {"group", "advice"}

Replayed(c) == Tokened(c) /\ Contains(doc.tokens, c)

Current_AnyGeneration(c) ==
  /\ preview[c].findings # {}
  /\ \A p \in preview[c].findings :
       doc.findings[p[1]].open /\ doc.findings[p[1]].revision = p[2]

(* _validate_preview *)
Current(c) ==
  /\ preview[c].generation = doc.generation
  /\ preview[c].findings # {}
  /\ \A p \in preview[c].findings :
       doc.findings[p[1]].open /\ doc.findings[p[1]].revision = p[2]

(* A rule is matched again on what is shown now. *)
Rematched(c) ==
  /\ preview[c].generation = shown
  /\ preview[c].findings = Matched(doc, Request[c].matcher)

Unchanged(c) ==
  /\ RulesOf(doc, Request[c].rule) # {}
  /\ RuleOf(doc, Request[c].rule).revision = preview[c].revision

StillValid(c) ==
  LET r == Request[c]
  IN CASE r.kind \in {"review", "suppress"} ->
            /\ Current(c)
            /\ r.kind = "review" =>
                 \A p \in preview[c].findings : doc.findings[p[1]].review = "new"
       [] r.kind = "create" -> Rematched(c)
       [] r.kind \in {"update", "delete"} -> Unchanged(c)
       [] r.kind = "incident" -> doc.incident = preview[c].revision
       [] r.kind = "clear" -> doc.revision = preview[c].revision
       [] OTHER -> TRUE

-----------------------------------------------------------------------------
(* What a command makes of the document                                      *)

ReviewGroup(c) ==
  [doc EXCEPT !.findings =
     [f \in Findings |->
        IF \E p \in preview[c].findings : p[1] = f THEN [@[f] EXCEPT !.review = Request[c].to]
        ELSE @[f]]]

NewRule(c, matcher, action) ==
  [id |-> c, matcher |-> matcher, action |-> action, enabled |-> TRUE, revision |-> 1]

SuppressGroup(c) ==
  [doc EXCEPT !.suppression =
     @ \union {NewRule(c, {<<"group_id", Request[c].group>>}, "hide")}]

CreateSuppressionRule(c) ==
  [doc EXCEPT !.suppression = @ \union {NewRule(c, Request[c].matcher, Request[c].action)}]

Replaced(rule) ==
  [doc EXCEPT !.suppression = {r \in @ : r.id # rule.id} \union {rule}]

UpdateSuppressionRule_SameRevision(c) ==
  Replaced([RuleOf(doc, Request[c].rule) EXCEPT !.action = Request[c].action])

UpdateSuppressionRule(c) ==
  Replaced([RuleOf(doc, Request[c].rule) EXCEPT
              !.action = Request[c].action, !.revision = @ + 1])

DeleteSuppressionRule(c) ==
  [doc EXCEPT !.suppression = {r \in @ : r.id # Request[c].rule}]

(* The id of a grouping rule is made of its content: the same one twice. *)
CreateGroupingRule(c) ==
  [doc EXCEPT !.grouping =
     Append(@, [id |-> Request[c].matcher, matcher |-> Request[c].matcher, enabled |-> TRUE])]

SetIncidentLifecycle(c) == [doc EXCEPT !.incident = @ + 1]

(* A review of advice is not told apart, nor are cleared audit records. *)
Applied(c) ==
  CASE Request[c].kind = "review" -> ReviewGroup(c)
    [] Request[c].kind = "suppress" -> SuppressGroup(c)
    [] Request[c].kind = "create" -> CreateSuppressionRule(c)
    [] Request[c].kind = "update" -> UpdateSuppressionRule(c)
    [] Request[c].kind = "delete" -> DeleteSuppressionRule(c)
    [] Request[c].kind = "group" -> CreateGroupingRule(c)
    [] Request[c].kind = "incident" -> SetIncidentLifecycle(c)
    [] OTHER -> doc

Remembered(tokens, c, limit) ==
  LET all == Append(tokens, c)
  IN IF Len(all) > limit THEN Tail(all) ELSE all

(* _commit: the policies decide about the findings, advice that does not fit
   any more is stale; then the projection follows. *)
Settle(d) ==
  LET actions == ActionsOf(d)
      findings == PolicyReviewed(d.findings, actions)
  IN [d EXCEPT !.findings = findings, !.generation = @ + 1, !.revision = @ + 1,
               !.advice = Aged(@, findings, actions, d.grouping)]

Store(d) ==
  /\ doc' = Settle(d)
  /\ shown' = doc'.generation

-----------------------------------------------------------------------------
(* One command                                                               *)

Go(c, to) == phase' = [phase EXCEPT ![c] = to]

(* ws_group_preview, ws_suppression_preview, or a list that was read. *)
Preview(c) ==
  /\ c \in active /\ phase[c] = "idle" /\ ~Inbound(c)
  /\ Previewable(c)
  /\ preview' = [preview EXCEPT ![c] = Seen(c)]
  /\ Go(c, "previewed")
  /\ UNCHANGED <<doc, shown, active, loaded, sends, seen, expired, scans, foreign, applied>>

(* The operator confirms, or the sender tries again with the token and the
   preview of the first time. *)
Send(c) ==
  /\ phase[c] \in {"previewed", "answered", "failed"} /\ ~Inbound(c)
  /\ sends[c] < MaxSends
  /\ sends' = [sends EXCEPT ![c] = @ + 1]
  /\ Go(c, "sent")
  /\ UNCHANGED <<doc, shown, active, preview, loaded, seen, expired, scans, foreign, applied>>

(* The envelope names the generation its sender knows: that of its first try, or
   a newer one, assuming that nobody renews it for a command so old that the
   document forgot its token.  The token is reserved and the preview made before
   anything is loaded. *)
Receive(c) ==
  /\ c \in active /\ Inbound(c)
  /\ phase[c] \in {"idle", "answered", "failed"}
  /\ sends[c] < MaxSends
  /\ sends' = [sends EXCEPT ![c] = @ + 1]
  /\ \E expected \in {shown, preview[c].generation} :
       /\ expected = shown => applied[c] = 0 \/ Contains(doc.tokens, c)
       /\ IF ~Contains(seen, c) /\ expected = shown
          THEN /\ seen' = Remembered(seen, c, SeenLimit)
               /\ IF Previewable(c)
                  THEN preview' = [preview EXCEPT ![c] = Seen(c)] /\ Go(c, "sent")
                  ELSE Go(c, "reporting") /\ UNCHANGED preview
          ELSE Go(c, "reporting") /\ UNCHANGED <<seen, preview>>
  /\ UNCHANGED <<doc, shown, active, loaded, expired, scans, foreign, applied>>

(* Only n8n's commands are reported on after they ended. *)
Refuse(c) == Go(c, IF Inbound(c) THEN "reporting" ELSE "failed")
Answer(c) == Go(c, IF Inbound(c) THEN "reporting" ELSE "answered")

Load(c) ==
  /\ phase[c] = "sent"
  /\ IF Replayed(c) THEN Answer(c) /\ UNCHANGED loaded
     ELSE IF StillValid(c) THEN Go(c, "committing") /\ loaded' = [loaded EXCEPT ![c] = doc.generation]
     ELSE Refuse(c) /\ UNCHANGED loaded
  /\ UNCHANGED <<doc, shown, active, preview, sends, seen, expired, scans, foreign, applied>>

Commit(c) ==
  /\ phase[c] = "committing"
  /\ IF loaded[c] = doc.generation
     THEN /\ Store([Applied(c) EXCEPT !.tokens = IF Tokened(c) THEN Remembered(@, c, TokenLimit)
                                                  ELSE @])
          /\ applied' = [applied EXCEPT ![c] = @ + 1]
          /\ Answer(c)
     ELSE Refuse(c) /\ UNCHANGED <<doc, shown, applied>>
  /\ UNCHANGED <<active, preview, loaded, sends, seen, expired, scans, foreign>>

(* async_record_audit: a commit of its own.  A command that took effect is
   answered as failed when its record conflicts, and never applied again. *)
Report(c) ==
  /\ phase[c] = "reporting"
  /\ loaded' = [loaded EXCEPT ![c] = doc.generation]
  /\ Go(c, "recording")
  /\ UNCHANGED <<doc, shown, active, preview, sends, seen, expired, scans, foreign, applied>>

Record(c) ==
  /\ phase[c] = "recording"
  /\ IF loaded[c] = doc.generation
     THEN Store(doc) /\ Go(c, IF applied[c] > 0 THEN "answered" ELSE "failed")
     ELSE Go(c, "failed") /\ UNCHANGED <<doc, shown>>
  /\ UNCHANGED <<active, preview, loaded, sends, seen, expired, scans, foreign, applied>>

-----------------------------------------------------------------------------
(* The others                                                                *)

(* A scan commits: a finding's content changes, or it is gone or back. *)
Scan ==
  /\ scans < MaxScans
  /\ scans' = scans + 1
  /\ \E f \in Findings :
       \/ Store([doc EXCEPT !.findings[f] =
                    [open |-> TRUE, review |-> "new", revision |-> @.revision + 1]])
       \/ doc.findings[f].open /\ Store([doc EXCEPT !.findings[f].open = FALSE])
  /\ UNCHANGED <<active, phase, preview, loaded, sends, seen, expired, foreign, applied>>

(* An analysis commits advice for a group that is shown. *)
Advise ==
  /\ scans < MaxScans
  /\ scans' = scans + 1
  /\ \E key \in Plannable(doc.findings, doc.advice, doc.grouping, DefaultSettings) :
       Store([doc EXCEPT !.advice =
                Advised(key, doc.findings, ActionsOf(doc), doc.grouping, DefaultSettings)])
  /\ UNCHANGED <<active, phase, preview, loaded, sends, seen, expired, foreign, applied>>

Unprojected ==
  /\ foreign < MaxForeign
  /\ foreign' = foreign + 1
  /\ doc' = [doc EXCEPT !.generation = @ + 1]
  /\ UNCHANGED <<shown, active, phase, preview, loaded, sends, seen, expired, scans, applied>>

(* The connector is built anew with the entry. *)
Forget ==
  /\ seen # <<>>
  /\ seen' = <<>>
  /\ UNCHANGED <<doc, shown, active, phase, preview, loaded, sends, expired, scans, foreign, applied>>

Expire ==
  /\ \E r \in doc.suppression : r.id \notin expired /\ expired' = expired \union {r.id}
  /\ UNCHANGED <<doc, shown, active, phase, preview, loaded, sends, seen, scans, foreign, applied>>

CommandsNext ==
  \/ \E c \in Commands :
       Preview(c) \/ Send(c) \/ Receive(c) \/ Load(c) \/ Commit(c) \/ Report(c) \/ Record(c)
  \/ Scan \/ Advise \/ Unprojected \/ Forget \/ Expire

CommandsSpec == CommandsInit /\ [][CommandsNext]_commandVars

-----------------------------------------------------------------------------
(* However often a command is sent, and although tokens are forgotten, it takes
   effect at most once; an operator who is told that it succeeded is told the
   truth. *)
AppliedOnce ==
  \A c \in Commands :
    Tokened(c) => applied[c] <= 1 /\ (phase[c] = "answered" => applied[c] = 1)

(* A command on a group takes effect only while the group still has the members
   that were confirmed, each with the content that was seen. *)
ConfirmedOnly ==
  [][\A c \in Commands :
       applied'[c] > applied[c] /\ Request[c].kind \in {"review", "suppress"}
         => preview[c].findings = Eligible(doc, Request[c].group, Request[c].kind)]_commandVars

(* Advice that is not marked stale was made for the group as it is: its members,
   what is suppressed, and the content of each, as of the last commit. *)
AdviceStands ==
  [][doc'.advice # NoAdvice /\ ~doc'.advice.stale /\ doc' # doc
       => Fits(doc'.advice, doc'.findings, Actions(doc'.suppression, doc'.grouping, expired),
               doc'.grouping, DefaultSettings) \/ shown' # doc'.generation]_commandVars

=============================================================================
