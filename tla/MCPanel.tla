-------------------------------- MODULE MCPanel --------------------------------
(* What the panel asks for, in two parts that share no state, each explored on its
   own: a behaviour is one of the part it starts with.
   - commands: two entries and three findings; f1 and f2 belong to the first entry,
     f2 and f3 to one area.  Each mix has a command that undoes or overtakes another.
   - settings: two panel connections and the options flow; forms that approve hosts,
     hand over a credential and take it back, and change plain settings, one of them
     back to what it was. *)
EXTENDS ConfigurationSave, OperatorCommands

CONSTANTS c1, c2, t1, t2, lan, lan2, cloud, secret,
          f1, f2, f3, review, hide, make, edit, drop, area, inbound, decide, clear, judge

-----------------------------------------------------------------------------
(* Settings                                                                  *)

TwoClients == {c1, c2}
TwoTokens == {t1, t2}
ThreeHosts == {lan, lan2, cloud}
KindOfHost == [h \in ThreeHosts |-> IF h = cloud THEN "remote" ELSE "private"]

SavedForms ==
  {<<"general", [value |-> 1]>>,
   <<"general", [value |-> 0]>>,
   <<"mcp", [enabled |-> TRUE, host |-> lan, approve |-> TRUE]>>,
   <<"mcp", [enabled |-> TRUE, host |-> lan2]>>}

Hand == [action |-> "replace", confirm |-> FALSE, secret |-> secret]
Take == [action |-> "remove", confirm |-> TRUE, secret |-> NoSecret]

OptionsForms ==
  {<<"ai_control", [mode |-> "ai_control", medium |-> TRUE]>>,
   <<"n8n", [enabled |-> TRUE, host |-> cloud, approveRemote |-> TRUE,
             credential |-> [out |-> Hand]]>>,
   <<"n8n", [host |-> lan, credential |-> [out |-> Take]]>>}

-----------------------------------------------------------------------------
(* Commands                                                                  *)

ThreeFindings == {f1, f2, f3}

FactsOf(config, areas) ==
  [d \in {"config_entry_id", "device_id", "integration_domain", "area_id", "entity_domain"} |->
     CASE d = "config_entry_id" -> config
       [] d = "area_id" -> areas
       [] d = "entity_domain" -> <<"sensor">>
       [] OTHER -> <<>>]

FactsOfFinding ==
  [f \in ThreeFindings |->
     IF f = f1 THEN FactsOf(<<"x">>, <<>>)
     ELSE IF f = f2 THEN FactsOf(<<"x">>, <<"hall">>) ELSE FactsOf(<<>>, <<"hall">>)]

FullConfidence == [f \in ThreeFindings |-> 100]

TenCommands == {review, hide, make, edit, drop, area, inbound, decide, clear, judge}

First == <<"config_entry_id", "x">>
Hall == {<<"area_id", "hall">>}

RequestOf ==
  [c \in TenCommands |->
     CASE c = review ->
            [kind |-> "review", group |-> First, to |-> "acknowledged", inbound |-> FALSE]
       [] c = hide -> [kind |-> "suppress", group |-> First, inbound |-> FALSE]
       [] c = make ->
            [kind |-> "create", matcher |-> Hall, action |-> "acknowledge", inbound |-> FALSE]
       [] c = edit -> [kind |-> "update", rule |-> make, action |-> "hide", inbound |-> FALSE]
       [] c = drop -> [kind |-> "delete", rule |-> hide, inbound |-> FALSE]
       [] c = area -> [kind |-> "group", matcher |-> Hall, inbound |-> FALSE]
       [] c = inbound -> [kind |-> "suppress", group |-> First, inbound |-> TRUE]
       [] c = decide -> [kind |-> "incident", inbound |-> FALSE]
       [] c = clear -> [kind |-> "clear", inbound |-> FALSE]
       [] OTHER -> [kind |-> "advice", inbound |-> FALSE]]

SixMixes ==
  {{review, area}, {hide, make}, {hide, drop}, {make, edit, decide}, {inbound, review},
   {judge, clear}}

-----------------------------------------------------------------------------
VARIABLE part

panelVars == <<vars, part, commandVars>>

PanelInit ==
  /\ Init
  /\ CommandsInit
  /\ \/ part = "commands"
     \/ part = "settings" /\ active = CHOOSE mix \in Mixes : TRUE

PanelNext ==
  \/ part = "commands" /\ CommandsNext /\ UNCHANGED <<part, vars>>
  \/ part = "settings" /\ Next /\ UNCHANGED <<part, commandVars>>

PanelSpec == PanelInit /\ [][PanelNext]_panelVars

(* Whoever is who among the connections and the tokens makes no difference. *)
Either == Permutations({c1, c2}) \union Permutations({t1, t2})

=============================================================================
