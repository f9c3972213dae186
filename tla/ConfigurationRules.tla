------------------------- MODULE ConfigurationRules -------------------------
(***************************************************************************)
(* How one submitted settings section becomes the next options of the      *)
(* configuration entry (configuration.py).  The options hold a plain       *)
(* section ("general"), the AI control policy and the connectors.  A form  *)
(* is a record of the fields a client submitted; a field it leaves out     *)
(* keeps its stored value.  Labels, ranges, formats and the other plain    *)
(* sections are left out; a secret is a value nobody can read back.        *)
(***************************************************************************)
EXTENDS FiniteSets

CONSTANTS
    Hosts,          \* the addresses a form may name
    HostKind,       \* Hosts -> loopback, private, remote, unsafe or malformed
    NoHost, NoSecret,
    Generated       \* the secret HAMIE makes itself

Connectors == {"ollama", "n8n", "mcp"}
Sections == {"general", "ai_control"} \cup Connectors

(* The two directions of n8n keep their own credential; the other          *)
(* connectors have one.                                                    *)
Directions(c) == IF c = "n8n" THEN {"out", "in"} ELSE {"only"}

(* The stored key that a credential of this type is written to.            *)
Slot(d, type) ==
    CASE d = "only" -> "secret"
      [] d = "out" /\ type = "api_key" -> "api_key"
      [] d = "out" /\ type = "username_and_password" -> "password"
      [] d = "in" /\ type = "bearer_token" -> "bearer_token"
      [] d = "in" /\ type = "shared_secret" -> "shared_secret"
      [] OTHER -> "none"

Slots(d) ==
    CASE d = "only" -> {"secret"}
      [] d = "out" -> {"api_key", "password"}
      [] d = "in" -> {"bearer_token", "shared_secret"}

(* SECTION_FIELDS: what a section holds before anything is saved.          *)
GeneralDefaults == [value |-> 0]

AiControlDefaults == [mode |-> "review", medium |-> FALSE]

ConnectorDefaults(c) ==
    [enabled |-> FALSE, host |-> NoHost, webhook |-> NoHost,
     allowed |-> {}, approve |-> FALSE, approveRemote |-> FALSE,
     method |-> "direct", named |-> {}, commands |-> FALSE,
     type |-> [d \in Directions(c) |-> IF d = "out" THEN "api_key" ELSE "none"],
     held |-> [d \in Directions(c) |-> [k \in Slots(d) |-> NoSecret]]]

Defaults ==
    [s \in Sections |->
        CASE s = "general" -> GeneralDefaults
          [] s = "ai_control" -> AiControlDefaults
          [] OTHER -> ConnectorDefaults(s)]

(* A submitted field wins over the stored one.  What a form asks of a      *)
(* credential is never stored: left out it is "keep", unconfirmed.         *)
Merged(stored, form) ==
    [k \in DOMAIN stored |-> IF k \in DOMAIN form THEN form[k] ELSE stored[k]]

Keep == [action |-> "keep", confirm |-> FALSE, secret |-> NoSecret]

Asked(form, d) ==
    IF "credential" \in DOMAIN form /\ d \in DOMAIN form.credential
    THEN form.credential[d] ELSE Keep

CredentialAccepted(d, type, a) ==
    \/ a.action = "keep" /\ a.secret = NoSecret
    \/ a.action = "remove" /\ a.confirm
    \/ a.action = "replace" /\ a.secret # NoSecret /\ Slot(d, type) # "none"
    \/ a.action = "regenerate" /\ d = "in" /\ a.confirm
       /\ type = "shared_secret"

(* A replaced credential clears every key of its direction first; a        *)
(* regenerated one only overwrites the shared secret.                      *)
CredentialApplied(d, type, a, held) ==
    CASE a.action = "keep" -> held
      [] a.action = "remove" -> [k \in DOMAIN held |-> NoSecret]
      [] a.action = "replace" ->
            [k \in DOMAIN held |-> IF k = Slot(d, type) THEN a.secret
                                   ELSE NoSecret]
      [] a.action = "regenerate" ->
            [held EXCEPT !["shared_secret"] = Generated]

WithCredentials(c, r, form) ==
    [r EXCEPT !.held = [d \in Directions(c) |->
        CredentialApplied(d, r.type[d], Asked(form, d), r.held[d])]]

(* The addresses an enabled connector talks to; a blank webhook is fine.   *)
Endpoints(c, r) ==
    IF c = "ollama" /\ r.method = "ha_ai_task" THEN {}
    ELSE {r.host} \cup ({r.webhook} \ {NoHost})

Approvable(r, h) ==
    /\ h # NoHost
    /\ HostKind[h] \notin {"unsafe", "malformed"}
    /\ \/ h \in r.allowed
       \/ HostKind[h] = "loopback"
       \/ HostKind[h] = "private" /\ r.approve
       \/ HostKind[h] = "remote" /\ r.approveRemote

HoldsCredential(c, r) ==
    \A d \in Directions(c) :
        r.type[d] # "none" /\ c # "ollama" /\ (d = "in" => r.commands) =>
            r.held[d][Slot(d, r.type[d])] # NoSecret

ConnectorAccepted(c, r) ==
    r.enabled =>
        /\ \A h \in Endpoints(c, r) : Approvable(r, h)
        /\ c = "ollama" =>
              (IF r.method = "ha_ai_task" THEN "entity" ELSE "model") \in r.named
        /\ r.commands => r.type["in"] # "none"
        /\ HoldsCredential(c, r)

(* An approval is spent by the save that carries it.                       *)
Spent_Mutation(r) == r
Spent(r) == [r EXCEPT !.approve = FALSE, !.approveRemote = FALSE]

ConnectorStored(c, r) ==
    Spent([r EXCEPT !.allowed = @ \cup (IF r.enabled THEN Endpoints(c, r)
                                        ELSE {})])

(* normalize_section: whether a form is accepted on these options, and the *)
(* options it leads to.                                                    *)
Accepted(section, form, options) ==
    LET r == Merged(options[section], form) IN
    CASE section = "general" -> TRUE
      [] section = "ai_control" -> r.medium => r.mode = "ai_control"
      [] OTHER ->
            /\ \A d \in Directions(section) :
                  CredentialAccepted(d, r.type[d], Asked(form, d))
            /\ ConnectorAccepted(section, WithCredentials(section, r, form))

Candidate(section, form, options) ==
    LET r == Merged(options[section], form) IN
    [options EXCEPT ![section] =
        IF section \in Connectors
        THEN ConnectorStored(section, WithCredentials(section, r, form))
        ELSE r]
=============================================================================
