---------------------------- MODULE FindingExplorer ----------------------------
(***************************************************************************)
(* domain/intelligence.py: how findings are grouped, which suppression     *)
(* rule decides about one, what the explorer shows, and when advice does   *)
(* not fit its group any more.                                             *)
(*                                                                         *)
(* A group is known by the key its members share: a dimension and a value, *)
(* or a grouping rule.  The title, the facets and the counts that the      *)
(* panel shows are left out.                                               *)
(***************************************************************************)
EXTENDS Integers, SequencesExt

CONSTANTS
  Findings,
  Facts,          \* of each finding, per dimension: the values it has
  Confidence      \* of each finding, in hundredths

DefaultDimensions == <<"config_entry_id", "device_id", "integration_domain">>
ProviderDimensions == {"integration_domain", "config_entry_id", "source_provider"}

(* Grouping settings of ExplorerIndex.  The commands and the policies use the
   defaults whatever the settings are. *)
DefaultSettings ==
  [collapse |-> TRUE, mobile |-> TRUE, dimensions |-> <<>>, minimum |-> 1, threshold |-> 0]

NoGroup == <<>>

-----------------------------------------------------------------------------
(* Matchers and groups                                                       *)

(* matcher_matches: every condition of a matcher. *)
Matches(matcher, f, group) ==
  \A condition \in matcher :
    IF condition[1] = "group_id" THEN condition[2] = group
    ELSE condition[2] \in ToSet(Facts[f][condition[1]])

Mobile(f) == "mobile_app" \in ToSet(Facts[f]["integration_domain"])

(* The first of the dimensions in which a finding has a value. *)
KeyAlong(f, dimensions) ==
  LET valued == SelectSeq(dimensions, LAMBDA d : Facts[f][d] # <<>>)
  IN IF valued = <<>> THEN NoGroup ELSE <<Head(valued), Head(Facts[f][Head(valued)])>>

PrimaryKey(f, rules, settings) ==
  LET ruled == SelectSeq(rules, LAMBDA r : r.enabled /\ Matches(r.matcher, f, NoGroup))
      chosen == SelectSeq(settings.dimensions,
                  LAMBDA d : ~(Mobile(f) /\ ~settings.mobile /\ d \in ProviderDimensions))
      along == KeyAlong(f, chosen \o DefaultDimensions)
  IN IF ~settings.collapse THEN <<"finding", f>>
     ELSE IF ruled # <<>> THEN <<"rule", Head(ruled).id>>
     ELSE IF along # NoGroup THEN along
     ELSE <<"domain", Head(Facts[f]["entity_domain"])>>

(* build_groups *)
Members(key, rules, settings) == {f \in Findings : PrimaryKey(f, rules, settings) = key}

GroupKeys(rules, settings) == {PrimaryKey(f, rules, settings) : f \in Findings}

(* A small group, or one with a member of little confidence, is not shown. *)
Displayed(rules, settings) ==
  {key \in GroupKeys(rules, settings) :
     /\ Cardinality(Members(key, rules, settings)) >= settings.minimum
     /\ \A f \in Members(key, rules, settings) : Confidence[f] >= settings.threshold}

-----------------------------------------------------------------------------
(* Suppression                                                               *)

Precedence == <<"hide", "snooze", "acknowledge", "lower">>

Strongest(actions) ==
  LET present == SelectSeq(Precedence, LAMBDA a : a \in actions)
  IN IF present = <<>> THEN "visible" ELSE Head(present)

(* The action of the active rules for a finding; SuppressionRule.active_at. *)
Decisive(f, suppression, grouping, expired) ==
  LET group == PrimaryKey(f, grouping, DefaultSettings)
  IN Strongest({r.action : r \in {s \in suppression :
                                    s.enabled /\ s.id \notin expired /\ Matches(s.matcher, f, group)}})

Actions(suppression, grouping, expired) ==
  [f \in Findings |-> Decisive(f, suppression, grouping, expired)]

Common(key, actions, grouping, settings) ==
  LET values == {actions[f] : f \in Members(key, grouping, settings)}
  IN IF Cardinality(values) = 1 THEN CHOOSE v \in values : TRUE ELSE "mixed"

(* apply_suppression_reviews: only acknowledging changes a finding; snoozing
   policies are part of FindingLedger. *)
PolicyReviewed(findings, actions) ==
  [f \in Findings |->
     IF findings[f].open /\ actions[f] = "acknowledge" /\ findings[f].review = "new"
     THEN [findings[f] EXCEPT !.review = "acknowledged"]
     ELSE findings[f]]

-----------------------------------------------------------------------------
(* Advice                                                                    *)

NoAdvice == [group |-> NoGroup]

(* plan_ai_advisory_groups: groups of open findings that current advice does
   not cover. *)
Plannable(findings, advice, rules, settings) ==
  {key \in Displayed(rules, settings) :
     /\ \E f \in Members(key, rules, settings) : findings[f].open
     /\ advice = NoAdvice \/ advice.stale \/ advice.group # key}

(* GroupSourceBinding and the revisions of the findings it was made for. *)
Advised(key, findings, actions, rules, settings) ==
  [group |-> key,
   members |-> Members(key, rules, settings),
   suppression |-> Common(key, actions, rules, settings),
   revisions |-> [f \in Members(key, rules, settings) |-> findings[f].revision],
   stale |-> FALSE]

Fits(advice, findings, actions, rules, settings) ==
  /\ advice.group \in Displayed(rules, settings)
  /\ advice.members = Members(advice.group, rules, settings)
  /\ advice.suppression = Common(advice.group, actions, rules, settings)
  /\ \A f \in DOMAIN advice.revisions : advice.revisions[f] = findings[f].revision

Aged_OnlyRevisions(advice, findings, actions, rules) ==
  IF advice = NoAdvice THEN advice
  ELSE [advice EXCEPT !.stale =
          @ \/ \E f \in DOMAIN advice.revisions : advice.revisions[f] # findings[f].revision]

(* mark_recommendations_stale *)
Aged(advice, findings, actions, rules) ==
  IF advice = NoAdvice THEN advice
  ELSE [advice EXCEPT !.stale = @ \/ ~Fits(advice, findings, actions, rules, DefaultSettings)]

=============================================================================
