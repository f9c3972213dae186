----------------------------- MODULE AnalyzerRules -----------------------------
(***************************************************************************)
(* What the eight analyzers of a scan say of one capture: the subjects     *)
(* each of them examined, set aside or could not judge, and the findings   *)
(* it emits (analysis/analyzers, domain/duplicate_classifier.py).          *)
(*                                                                         *)
(* A capture tells for every entity its row in the registry and its state, *)
(* and for the configuration which unique ids it defines, which entity ids *)
(* it mentions and which it calls.  The configuration is one file.  What a *)
(* name tells (its base without a number, a marker, a version, a keyword)  *)
(* is a constant.                                                          *)
(***************************************************************************)
EXTENDS Integers, FiniteSets, Sequences

CONSTANTS
  Entities,
  Base,           \* entities that end in _2, _3, ... |-> the id before the number
  Automations,    \* automation.* entities
  Defined,        \* entities of the kinds a configuration file defines
  Ignored,        \* entities the policy for unavailable entities leaves out
  Marked,         \* entities whose unique id says "fix", "test", "old", ...
  Protected,      \* entities whose name or class is about safety
  Newer,          \* <<b, e>>: the unique id of e is a later version of that of b
  Twin,           \* entities |-> same object id in another domain
  Created,        \* entities |-> creation time, 0 when the registry has none
  Homes, NoHome,  \* what backs an entity: device, config entry or area
  Absent

Signals == {"ok", "unknown", "recent", "down", "ghost"}

(* EntityRecord.  "recent" and "down" are unavailable within and beyond the
   grace period, "ghost" is a row without a live state or with a restored one. *)
Row ==
  [listed : BOOLEAN, disabled : BOOLEAN, signal : Signals,
   home : Homes \union {NoHome}, removed : BOOLEAN]

Present(c) == {e \in Entities : c.rows[e] # Absent}
Disabled(c, e) == c.rows[e].listed /\ c.rows[e].disabled
Unavailable(c, e) == c.rows[e].signal \in {"recent", "down", "ghost"}
Available(c, e) == c.rows[e].signal = "ok"

(* source_definition_missing *)
Definition(c, e) ==
  IF ~c.source \/ e \notin Defined \/ ~c.rows[e].listed THEN "unread"
  ELSE IF e \in c.defines THEN "present" ELSE "missing"

(* EntityReferenceIndex: a failed source hides its references. *)
Referenced(c, e) == e \in c.refs /\ c.index \in {"partial", "complete"}

Unreferenced_AnyScan(c, e) == c.index # "none" /\ ~Referenced(c, e)

Unreferenced(c, e) == c.index = "complete" /\ ~Referenced(c, e)

Gate(gate, e) == IF e \in Protected THEN "protected" ELSE gate

-----------------------------------------------------------------------------
(* A finding is known by its analyzer, its subject and its condition; "cause"
   keeps apart what one analyzer emits twice under one id. *)

Finding(of, subject, condition, cause, kind, gate, safe) ==
  [id |-> <<of, subject, condition>>, cause |-> cause, kind |-> kind, gate |-> gate,
   safe |-> safe]

Outcome(covered, excluded, uncovered, indeterminate, findings) ==
  [covered |-> covered, excluded |-> excluded, uncovered |-> uncovered,
   indeterminate |-> indeterminate, findings |-> findings]

Nothing == Outcome({}, {}, {}, {}, {})

Subject(f) == f.id[2]

(* AnalyzerOutcome: the scopes are disjoint and cover every finding; the
   supervisor wants the ids of the findings distinct. *)
Refused(o) ==
  \/ \E pair \in {<<o.covered, o.excluded>>, <<o.covered, o.uncovered>>,
                  <<o.covered, o.indeterminate>>, <<o.excluded, o.uncovered>>,
                  <<o.excluded, o.indeterminate>>, <<o.uncovered, o.indeterminate>>} :
       pair[1] \intersect pair[2] # {}
  \/ \E f \in o.findings : Subject(f) \notin o.covered
  \/ \E f, g \in o.findings : f # g /\ f.id = g.id

-----------------------------------------------------------------------------
(* One entity at a time                                                      *)

UnavailableFinding(e) ==
  Finding("unavailable", e, "past_grace", 0, "monitor", "review", FALSE)

UnavailableEntity(c) ==
  LET excluded == {e \in Present(c) : e \in Ignored \/ Disabled(c, e)}
      uncovered == {e \in Present(c) \ excluded : ~c.rows[e].listed}
      judged == Present(c) \ (excluded \union uncovered)
      indeterminate == {e \in judged : c.rows[e].signal \in {"unknown", "ghost", "recent"}}
  IN Outcome(judged \ indeterminate, excluded, uncovered, indeterminate,
       {UnavailableFinding(e) : e \in {e \in judged : c.rows[e].signal = "down"}})

OrphanedFinding(c, e) ==
  Finding("orphaned", e, "definition_missing", 0,
          IF Unreferenced(c, e) THEN "delete" ELSE "disable", "review", Unreferenced(c, e))

OrphanedDefinition(c) ==
  LET excluded == {e \in Present(c) : e \notin Defined \/ Disabled(c, e)}
      uncovered == {e \in Present(c) \ excluded : Definition(c, e) = "unread"}
      covered == Present(c) \ (excluded \union uncovered)
  IN Outcome(covered, excluded, uncovered, {},
       {OrphanedFinding(c, e) : e \in {e \in covered : Definition(c, e) = "missing"}})

(* A definition that is there outweighs that nothing seems to back the row. *)
Backed(c, e) == c.rows[e].home # NoHome \/ Definition(c, e) = "present"

RemovedFinding(c, e) ==
  Finding("removed", e, IF Referenced(c, e) THEN "referenced" ELSE "orphan", 0,
          IF Unreferenced(c, e) THEN "delete" ELSE "investigate",
          Gate(IF Unreferenced(c, e) THEN "remove"
               ELSE IF Referenced(c, e) THEN "bug" ELSE "blocked", e),
          Unreferenced(c, e))

RemovedIntegration_AnyTopology(c) ==
  LET excluded == {e \in Present(c) : Backed(c, e)}
      uncovered == {e \in Present(c) \ excluded : ~c.rows[e].listed}
      covered == Present(c) \ (excluded \union uncovered)
  IN Outcome(covered, excluded, uncovered, {},
       {RemovedFinding(c, e) : e \in {e \in covered : c.rows[e].removed}})

RemovedIntegration(c) ==
  LET excluded == {e \in Present(c) : Backed(c, e)}
      uncovered == {e \in Present(c) \ excluded : ~c.rows[e].listed}
      covered == Present(c) \ (excluded \union uncovered)
  IN IF ~c.topology
     THEN Outcome({}, {}, Present(c), {}, {})
     ELSE Outcome(covered, excluded, uncovered, {},
            {RemovedFinding(c, e) : e \in {e \in covered : c.rows[e].removed}})

-----------------------------------------------------------------------------
(* The entities of one name                                                  *)

(* group_suffix_siblings: numbered entities of one base, with the base itself *)
Members(c, key, among) ==
  {e \in Present(c) \intersect among : e = key \/ (e \in DOMAIN Base /\ Base[e] = key)}

GroupKeys(c, among) ==
  {Base[e] : e \in {e \in DOMAIN Base : Cardinality(Members(c, Base[e], among)) >= 2}}

Alive(c, e) ==
  /\ ~Disabled(c, e)
  /\ Available(c, e)

Dead(c, e) ==
  /\ Disabled(c, e)
  /\ ~Available(c, e) \/ Definition(c, e) = "missing"
  /\ ~Referenced(c, e)

Dangling(c, e) ==
  /\ ~Alive(c, e)
  /\ Referenced(c, e)
  /\ Disabled(c, e) \/ ~Available(c, e)

(* classify_duplicate_group *)
Classification(c, group) ==
  LET alive == {e \in group : Alive(c, e)}
      dead == {e \in group : Dead(c, e)}
      homes == {c.rows[e].home : e \in alive} \ {NoHome}
      oldest == CHOOSE e \in group : \A d \in group : Created[e] <= Created[d]
      newest == CHOOSE e \in group : \A d \in group : Created[e] >= Created[d]
  IN IF Cardinality(alive) = 1 /\ dead = group \ alive THEN "leftover"
     ELSE IF Cardinality(alive) >= 2 /\ Cardinality(homes) > 1 THEN "distinct"
     ELSE IF (\A e \in group : Created[e] # 0) /\ oldest # newest /\ {oldest, newest} \subseteq alive
     THEN "active_old_id"
     ELSE IF alive # {} /\ \E e \in group : Dangling(c, e) THEN "broken_reference"
     ELSE "ambiguous"

(* _RECOMMENDATION_KIND *)
DuplicateAdvice(class) ==
  CASE class \in {"leftover", "active_old_id"} -> "investigate"
    [] class = "broken_reference" -> "repair"
    [] class = "ambiguous" -> "review"

DuplicateFinding(k, class) ==
  Finding("duplicate", k, "group", 0, DuplicateAdvice(class), "review", FALSE)

DuplicateMigration(c) ==
  LET keys == GroupKeys(c, Entities)
      class(k) == Classification(c, Members(c, k, Entities))
      indeterminate == {e \in c.skipped \ keys : e \in DOMAIN Base /\ Base[e] \in keys}
  IN Outcome(keys, {}, {}, indeterminate,
       {DuplicateFinding(k, class(k)) : k \in {k \in keys : class(k) # "distinct"}})

(* detect_self_reference_regression: the file defines the later version only,
   and still mentions the entity of the earlier one. *)
Regressed(c, key, e) ==
  /\ <<key, e>> \in Newer
  /\ c.rows[key].listed /\ c.rows[e].listed
  /\ e \in c.defines /\ key \notin c.defines
  /\ key \in c.mentions

SelfReferenceFinding(key, e) ==
  Finding("self_reference", key, "regression", e, "repair", Gate("bug", key), FALSE)

SelfReference(c) ==
  LET keys == GroupKeys(c, Entities)
      covered == keys \intersect Present(c)
  IN IF ~c.source
     THEN Outcome({}, {}, keys, {}, {})
     ELSE Outcome(covered, {}, keys \ covered, {},
            {SelfReferenceFinding(p[1], p[2]) :
               p \in {p \in covered \X Present(c) :
                        p[1] # p[2] /\ p[2] \in Members(c, p[1], Entities)
                        /\ Regressed(c, p[1], p[2])}})

(* _has_zero_source_definition *)
ZeroSource(c, e) ==
  \/ Definition(c, e) = "missing"
  \/ Definition(c, e) = "unread" /\ c.source /\ c.rows[e].listed /\ e \notin c.defines

ForkFinding(e) == Finding("fork", e, "fork", 0, "disable", Gate("fix_source", e), FALSE)

ForkFindings(c, examined) ==
  {ForkFinding(e) :
     e \in {e \in examined : ZeroSource(c, e) /\ ~Referenced(c, e) /\ c.rows[e].listed
                             /\ e \in Marked}}

AbandonedFork_OwnOnly(c) ==
  LET keys == GroupKeys(c, Entities)
      examined == UNION {Members(c, k, Entities) \ {k} : k \in keys}
      findings == ForkFindings(c, examined)
  IN Outcome({Subject(f) : f \in findings} \union keys, {}, {}, {}, findings)

AbandonedFork(c) ==
  LET keys == GroupKeys(c, Entities)
      examined == UNION {Members(c, k, Entities) \ {k} : k \in keys}
  IN Outcome(examined \union keys, {}, {}, {}, ForkFindings(c, examined))

ResidueFinding(c, key, e) ==
  Finding("residue", e, "residue", key,
          IF Unreferenced(c, e) THEN "delete" ELSE "evidence",
          IF Unreferenced(c, e) THEN Gate("remove", e) ELSE "blocked", Unreferenced(c, e))

AutomationResidue(c) ==
  LET keys == GroupKeys(c, Automations)
      live(k) == {e \in Members(c, k, Automations) :
                    Definition(c, e) = "present" /\ ~Unavailable(c, e)}
      judged == {k \in keys : live(k) # {}}
      told == {e \in UNION {Members(c, k, Automations) : k \in judged} :
                 Definition(c, e) # "unread"}
  IN Outcome(judged \union told, {}, keys \ judged, {},
       {ResidueFinding(c, p[1], p[2]) :
          p \in {p \in judged \X told : p[2] \in Members(c, p[1], Automations)
                                        /\ Definition(c, p[2]) = "missing"}})

-----------------------------------------------------------------------------
(* The calls of automations and scripts                                      *)

(* _is_orphaned, _find_replacement *)
LostTarget(c, e) ==
  \/ c.rows[e] = Absent
  \/ Unavailable(c, e) \/ Disabled(c, e)
  \/ c.rows[e].home = NoHome /\ c.topology /\ c.rows[e].removed

Replacement(c, e) ==
  /\ e \in DOMAIN Twin
  /\ c.rows[Twin[e]] # Absent
  /\ Alive(c, Twin[e])

(* Every call of one service on one target in one file has the same id. *)
WrongDomainFinding(e, call) ==
  Finding("wrong_domain", e, "call", call, "repair",
          IF {e, Twin[e]} \intersect Protected # {} THEN "protected" ELSE "bug", FALSE)

WrongDomain(c) ==
  LET wrong == {i \in DOMAIN c.calls : LostTarget(c, c.calls[i]) /\ Replacement(c, c.calls[i])}
  IN IF ~c.source
     THEN Nothing
     ELSE Outcome({"file"} \union {c.calls[i] : i \in wrong}, {}, {}, {},
            {WrongDomainFinding(c.calls[i], i) : i \in wrong})

-----------------------------------------------------------------------------
(* The supervisors: a capture that changed under way, is stale or lacks the
   registry is not analysed. *)
Outcomes(c) ==
  IF ~c.usable THEN {<<"none", Nothing>>}
  ELSE {<<"unavailable", UnavailableEntity(c)>>, <<"orphaned", OrphanedDefinition(c)>>,
        <<"duplicate", DuplicateMigration(c)>>, <<"self_reference", SelfReference(c)>>,
        <<"removed", RemovedIntegration(c)>>, <<"wrong_domain", WrongDomain(c)>>,
        <<"residue", AutomationResidue(c)>>, <<"fork", AbandonedFork(c)>>}

=============================================================================
