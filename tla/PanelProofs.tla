----------------------------- MODULE PanelProofs -----------------------------
(***************************************************************************)
(* What the panel asks for, for any clients, hosts, forms, tokens and      *)
(* failures, and any findings, commands, requests and limits.              *)
(*                                                                         *)
(* Settings: no host is let in that nobody approved, and what is stored    *)
(* runs.  An approval must be spent in every copy of the options that may  *)
(* become the stored ones again: those that are stored, and those a save   *)
(* keeps to restore when its reload fails.                                 *)
(*                                                                         *)
(* Commands: each takes effect at most once, on what was confirmed only.   *)
(* The document remembers few tokens, so that they are not what makes it   *)
(* so: taking effect makes the command outdated, whatever its kind, and    *)
(* nothing undoes that but a sender that looks again.                      *)
(***************************************************************************)
EXTENDS ConfigurationSave, OperatorCommands, TLAPS

-----------------------------------------------------------------------------
(* Settings                                                                  *)

Fields == {"enabled", "host", "webhook", "allowed", "approve", "approveRemote"}

(* Options without an unspent approval or a host that nobody approved. *)
Settled(options, approved) ==
    /\ DOMAIN options = Sections
    /\ \A c \in Connectors :
        /\ Fields \subseteq DOMAIN options[c]
        /\ options[c].host \in Hosts \cup {NoHost}
        /\ options[c].webhook \in Hosts \cup {NoHost}
        /\ options[c].approve = FALSE /\ options[c].approveRemote = FALSE
        /\ \A h \in options[c].allowed : HostKind[h] = "loopback" \/ h \in approved[c]

(* What was approved stays so. *)
LEMMA SettledGrows ==
    ASSUME NEW options, NEW approved, NEW more, Settled(options, approved),
           \A c \in Connectors : approved[c] \subseteq more[c]
    PROVE  Settled(options, more)
BY DEF Settled

(* The options before anything is saved. *)
LEMMA DefaultsSettled == ASSUME NEW approved PROVE Settled(Defaults, approved)
<1>1. DOMAIN Defaults = Sections
    BY DEF Defaults, Sections, Connectors
<1>2. \A c \in Connectors : Defaults[c] = ConnectorDefaults(c)
    BY DEF Defaults, Sections, Connectors
<1>3. ASSUME NEW c \in Connectors
      PROVE  /\ Fields \subseteq DOMAIN ConnectorDefaults(c)
             /\ ConnectorDefaults(c).host = NoHost /\ ConnectorDefaults(c).webhook = NoHost
             /\ ConnectorDefaults(c).approve = FALSE
             /\ ConnectorDefaults(c).approveRemote = FALSE
             /\ ConnectorDefaults(c).allowed = {}
    BY DEF ConnectorDefaults, Fields
<1> QED BY <1>1, <1>2, <1>3 DEF Settled

(* A saved form lets in what was allowed before, what it lists, and the hosts it
   names that it approves: an approval it does not carry is none, since the
   stored ones are spent. *)
LEMMA CandidateSettled ==
    ASSUME NEW f \in PanelForms \cup FlowForms,
           Settled(stored, consent), Accepted(f[1], f[2], stored),
           DOMAIN consent = Connectors, Consented(f[1], f[2])
    PROVE  /\ Settled(Candidate(f[1], f[2], stored), consent')
           /\ DOMAIN consent' = Connectors
           /\ \A c \in Connectors : consent[c] \subseteq consent'[c]
<1> DEFINE section == f[1]
           form == f[2]
<1>1. section \in Sections
    BY FormsAssumption
<1>2. /\ DOMAIN consent' = Connectors
      /\ \A c \in Connectors : consent[c] \subseteq consent'[c]
      /\ section \in Connectors => Ticked(section, form) \subseteq consent'[section]
    BY DEF Consented
<1>3. Settled(stored, consent')
    BY <1>2, SettledGrows
<1>4. CASE section \notin Connectors
    BY <1>1, <1>2, <1>3, <1>4 DEF Candidate, Settled, Sections
<1>5. CASE section \in Connectors
    <2> DEFINE old == stored[section]
               r == Merged(old, form)
               w == WithCredentials(section, r, form)
               new == ConnectorStored(section, w)
    <2>1. /\ DOMAIN r = DOMAIN old /\ DOMAIN w = DOMAIN old
          /\ \A k \in Fields : w[k] = IF k \in DOMAIN form THEN form[k] ELSE old[k]
        BY <1>3, <1>5 DEF Merged, WithCredentials, Settled, Fields
    <2>2. /\ Fields \subseteq DOMAIN w
          /\ w.host \in Hosts \cup {NoHost} /\ w.webhook \in Hosts \cup {NoHost}
        BY <1>3, <1>5, <2>1, FormsAssumption DEF Settled, Fields
    <2>3. ConnectorAccepted(section, w)
        BY <1>5 DEF Accepted, Connectors
    <2>4. \A h \in w.allowed : HostKind[h] = "loopback" \/ h \in consent'[section]
        <3>1. CASE "allowed" \in DOMAIN form
            BY <1>2, <1>5, <2>1, <3>1 DEF Ticked, Fields
        <3>2. CASE "allowed" \notin DOMAIN form
            BY <1>3, <1>5, <2>1, <3>2 DEF Settled, Fields
        <3> QED BY <3>1, <3>2
    <2>5. ASSUME w.enabled, NEW h \in Endpoints(section, w)
          PROVE  HostKind[h] = "loopback" \/ h \in consent'[section]
        <3>1. Approvable(w, h) /\ h \in {w.host, w.webhook}
            BY <2>3, <2>5 DEF ConnectorAccepted, Endpoints
        <3>2. h \in Hosts
            BY <2>2, <3>1 DEF Approvable
        <3>3. h \in {form[k] : k \in DOMAIN form \cap {"host", "webhook"}}
                    \cup {old.host, old.webhook}
            BY <2>1, <3>1 DEF Fields
        <3>4. /\ w.approve => "approve" \in DOMAIN form
              /\ w.approveRemote => "approveRemote" \in DOMAIN form
            BY <1>3, <1>5, <2>1 DEF Settled, Fields
        <3>5. CASE h \in w.allowed
            BY <2>4, <3>5
        <3>6. CASE h \notin w.allowed
            <4>1. HostKind[h] = "loopback" \/ h \in Ticked(section, form)
                BY <3>1, <3>2, <3>3, <3>4, <3>6 DEF Approvable, Ticked
            <4> QED BY <1>2, <1>5, <4>1
        <3> QED BY <3>5, <3>6
    <2>6. /\ Fields \subseteq DOMAIN new
          /\ new.host = w.host /\ new.webhook = w.webhook
          /\ new.approve = FALSE /\ new.approveRemote = FALSE
          /\ new.allowed = w.allowed \cup (IF w.enabled THEN Endpoints(section, w) ELSE {})
        BY <2>2 DEF ConnectorStored, Spent, Fields
    <2>7. Candidate(section, form, stored) = [stored EXCEPT ![section] = new]
        BY <1>5 DEF Candidate
    <2>8. \A h \in new.allowed : HostKind[h] = "loopback" \/ h \in consent'[section]
        BY <2>4, <2>5, <2>6
    <2> HIDE DEF new, w, r, old
    <2>9. Settled([stored EXCEPT ![section] = new], consent')
        BY <1>1, <1>3, <1>5, <2>2, <2>6, <2>8 DEF Settled
    <2> QED BY <1>2, <2>7, <2>9
<1> QED BY <1>4, <1>5

-----------------------------------------------------------------------------
(* The stored options are settled, and so are those a save under way keeps. *)
KeptSettled ==
    \A c \in Clients : pc[c] # "idle" => Settled(save[c].previous, consent)

(* A client waits for one reload at a time, and does nothing else meanwhile. *)
Awaited ==
    \A c \in Clients :
        /\ c \in queue \/ loader.who = c => pc[c] = "reloading"
        /\ c \in queue => loader.who # c

Tables ==
    /\ DOMAIN pc = Clients /\ DOMAIN save = Clients
    /\ DOMAIN consent = Connectors
    /\ DOMAIN loader = {"who", "phase", "options"}

ConsentInv == Tables /\ Settled(stored, consent) /\ KeptSettled /\ Awaited

(* The default options let in no host. *)
LEMMA ConsentInit == Init => ConsentInv
<1> SUFFICES ASSUME Init PROVE ConsentInv
    OBVIOUS
<1>1. Tables
    BY DEF Init, Tables, Idle
<1>2. Settled(stored, consent)
    BY DefaultsSettled DEF Init
<1>3. KeptSettled /\ Awaited
    BY NamesAssumption DEF Init, KeptSettled, Awaited, Idle
<1> QED BY <1>1, <1>2, <1>3 DEF ConsentInv

(* What a save needs of a step that changes neither the options nor what was
   approved: its own copy stays, and it starts or ends nothing behind its back. *)
LEMMA StoredStays ==
    ASSUME ConsentInv, UNCHANGED <<stored, consent>>, Tables', Awaited',
           \A c \in Clients : pc'[c] # "idle" => pc[c] # "idle" /\ save'[c] = save[c]
    PROVE  ConsentInv'
<1>1. Settled(stored, consent)'
    BY DEF ConsentInv, Settled
<1>2. KeptSettled'
    BY DEF ConsentInv, KeptSettled, Settled
<1> QED BY <1>1, <1>2 DEF ConsentInv

(* Whoever replaces the options, and in whatever order saves end, no approval is left. *)
LEMMA ConsentStep == ConsentInv /\ [Next]_vars => ConsentInv'
<1> SUFFICES ASSUME ConsentInv, [Next]_vars PROVE ConsentInv'
    OBVIOUS
<1> USE DEF entry, panel
<1>1. CASE UNCHANGED vars
    <2>1. Tables' /\ Awaited'
        BY <1>1 DEF vars, ConsentInv, Tables, Awaited
    <2> QED BY <1>1, <2>1, StoredStays DEF vars
<1>2. ASSUME NEW c \in Clients, Get(c) \/ SaveNothing(c) PROVE ConsentInv'
    <2>1. Tables' /\ Awaited'
        BY <1>2 DEF Get, SaveNothing, ConsentInv, Tables, Awaited
    <2> QED BY <1>2, <2>1, StoredStays DEF Get, SaveNothing
<1>3. ASSUME NEW c \in Clients, Save(c) PROVE ConsentInv'
    <2>1. PICK t \in Tokens, f \in PanelForms :
             /\ MaySave(c, t, f)
             /\ stored' = Candidate(f[1], f[2], stored)
             /\ Consented(f[1], f[2])
             /\ pc' = [pc EXCEPT ![c] = "saving"]
             /\ save' = [save EXCEPT ![c] = [token |-> t, form |-> f, previous |-> stored]]
             /\ UNCHANGED <<queue, loader>>
        BY <1>3 DEF Save, Guarded, Replace
    <2>2. /\ Settled(stored', consent')
          /\ DOMAIN consent' = Connectors
          /\ \A k \in Connectors : consent[k] \subseteq consent'[k]
        BY <2>1, CandidateSettled DEF MaySave, ConsentInv, Tables
    <2>3. Tables'
        BY <2>1, <2>2 DEF ConsentInv, Tables
    <2>4. KeptSettled'
        <3> SUFFICES ASSUME NEW d \in Clients, pc'[d] # "idle"
                     PROVE  Settled(save'[d].previous, consent')
            BY DEF KeptSettled
        <3>1. CASE d = c
            BY <2>1, <2>2, <3>1, SettledGrows DEF ConsentInv, Tables
        <3>2. CASE d # c
            BY <2>1, <2>2, <3>2, SettledGrows DEF ConsentInv, Tables, KeptSettled
        <3> QED BY <3>1, <3>2
    <2>5. Awaited'
        BY <2>1 DEF MaySave, ConsentInv, Tables, Awaited
    <2> QED BY <2>2, <2>3, <2>4, <2>5 DEF ConsentInv
<1>4. CASE FlowSave
    <2>1. PICK f \in FlowForms :
             /\ Accepted(f[1], f[2], stored)
             /\ stored' = Candidate(f[1], f[2], stored)
             /\ Consented(f[1], f[2])
        BY <1>4 DEF FlowSave, Replace
    <2>2. UNCHANGED <<pc, save, queue, loader>>
        BY <1>4 DEF FlowSave
    <2>3. /\ Settled(stored', consent')
          /\ DOMAIN consent' = Connectors
          /\ \A k \in Connectors : consent[k] \subseteq consent'[k]
        BY <2>1, CandidateSettled DEF ConsentInv, Tables
    <2>4. Tables' /\ Awaited'
        BY <2>2, <2>3 DEF ConsentInv, Tables, Awaited
    <2>5. KeptSettled'
        BY <2>2, <2>3, SettledGrows DEF ConsentInv, KeptSettled
    <2> QED BY <2>3, <2>4, <2>5 DEF ConsentInv
<1>5. CASE ListenerSkips \/ ListenerReloads
    <2>1. Tables' /\ Awaited'
        BY <1>5, NamesAssumption
        DEF ListenerSkips, ListenerReloads, ConsentInv, Tables, Awaited
    <2> QED BY <1>5, <2>1, StoredStays DEF ListenerSkips, ListenerReloads
<1>6. ASSUME NEW c \in Clients, GuardPassed(c) PROVE ConsentInv'
    <2>1. Tables' /\ Awaited'
        BY <1>6 DEF GuardPassed, ConsentInv, Tables, Awaited
    <2> QED BY <1>6, <2>1, StoredStays DEF GuardPassed, ConsentInv, Tables
<1>7. ASSUME NEW c \in Clients, GuardTimesOut(c) \/ Finish(c) \/ Restored(c)
      PROVE  ConsentInv'
    <2>1. /\ Done(c) /\ pc[c] # "reloading"
          /\ UNCHANGED <<stored, consent, queue, loader>>
        BY <1>7 DEF GuardTimesOut, Finish, Restored
    <2>2. Tables' /\ Awaited'
        BY <2>1 DEF Done, ConsentInv, Tables, Awaited
    <2> QED BY <2>1, <2>2, StoredStays DEF Done, ConsentInv, Tables
<1>8. ASSUME NEW c \in Clients, Restore(c) PROVE ConsentInv'
    <2>1. /\ stored' = save[c].previous
          /\ pc[c] = "failed" /\ pc' = [pc EXCEPT ![c] = "restoring"]
          /\ UNCHANGED <<save, queue, loader, consent>>
        BY <1>8 DEF Restore, Guarded, Replace
    <2>2. Settled(stored', consent')
        BY <2>1 DEF ConsentInv, KeptSettled
    <2>3. Tables' /\ Awaited'
        BY <2>1 DEF ConsentInv, Tables, Awaited
    <2>4. KeptSettled'
        BY <2>1 DEF ConsentInv, Tables, KeptSettled
    <2> QED BY <2>2, <2>3, <2>4 DEF ConsentInv
<1>9. CASE Loading
    <2>1. ASSUME NEW who \in Clients \cup {Listener}, Reload(who) PROVE ConsentInv'
        <3>1. Tables' /\ Awaited'
            BY <2>1, NamesAssumption DEF Reload, Idle, ConsentInv, Tables, Awaited
        <3> QED BY <2>1, <3>1, StoredStays DEF Reload
    <2>2. ASSUME NEW outcome \in {"failed", "succeeded"}, Returns(outcome), loader' = Idle,
                 UNCHANGED <<stored, consent, save, queue>>
          PROVE  ConsentInv'
        <3>1. Tables' /\ Awaited'
            BY <2>2, NamesAssumption DEF Returns, Idle, ConsentInv, Tables, Awaited
        <3>2. \A c \in Clients : pc'[c] # "idle" => pc[c] # "idle" /\ save'[c] = save[c]
            BY <2>2 DEF Returns, ConsentInv, Awaited
        <3> QED BY <2>2, <3>1, <3>2, StoredStays
    <2>3. CASE UnloadFails \/ SetupFails \/ Listen
        BY <2>2, <2>3 DEF UnloadFails, SetupFails, Listen
    <2>4. CASE Unload \/ Publish
        <3>1. Tables' /\ Awaited'
            BY <2>4 DEF Unload, Publish, ConsentInv, Tables, Awaited
        <3> QED BY <2>4, <3>1, StoredStays DEF Unload, Publish
    <2> QED BY <1>9, <2>1, <2>3, <2>4 DEF Loading
<1>10. CASE Retry
    <2>1. Tables' /\ Awaited'
        BY <1>10, NamesAssumption DEF Retry, ConsentInv, Tables, Awaited
    <2> QED BY <1>10, <2>1, StoredStays DEF Retry
<1> QED
    BY <1>1, <1>2, <1>3, <1>4, <1>5, <1>6, <1>7, <1>8, <1>9, <1>10
    DEF Next, Continue

(* In no run of panel clients, options flow, reloads and retries does a host
   outside the machine become allowed that no save listed or approved by name:
   neither the stored options nor a copy that a failed reload brings back carries
   an approval that a later save could spend on another address. *)
THEOREM HostsAreConsented == Spec => []HostIsConsented
<1>1. ConsentInv => HostIsConsented
    BY DEF ConsentInv, Settled, HostIsConsented
<1> QED BY ConsentInit, ConsentStep, <1>1, PTL DEF Spec

-----------------------------------------------------------------------------
(* As long as nothing was disturbed, one thing happens at a time: one client's
   save with its reload and its restore, or the reload the listener asked for, or
   Home Assistant's new attempt. *)
Calm == \A c \in Clients : pc[c] = "idle"

SaveTypes ==
    /\ pc \in [Clients -> {"idle", "saving", "reloading", "succeeded", "failed", "restoring"}]
    /\ save = [c \in Clients |-> save[c]]
    /\ loader = [who |-> loader.who, phase |-> loader.phase, options |-> loader.options]
    /\ loader.phase \in {"idle", "unload", "setup", "listen"}
    /\ loader.phase = "idle" => loader = Idle
    /\ calls \in Nat
    /\ queue \subseteq Clients \cup {Listener}
    /\ disturbed \in BOOLEAN

(* Without the lock nothing waits for it; who holds the set-up lock. *)
LoaderInv ==
    /\ loader.phase = "unload" => loader.who \in Clients \cup {Listener}
    /\ loader.phase = "setup" => running = Nobody /\ loader.options = stored
    /\ loader.phase = "listen" => running = stored
    /\ loader.phase \in {"idle", "unload"} /\ running # Nobody => listening
    /\ Listener \in queue \/ (loader.phase # "idle" /\ loader.who = Listener) => Calm

GuardInv ==
    /\ \A c \in Clients : pc[c] \in {"saving", "restoring"} => guard = c
    /\ guard # Nobody => guard \in Clients /\ pc[guard] \in {"saving", "restoring"}

(* What a save that is at this place can rely on. *)
Free == queue = {} /\ loader.phase = "idle"
Foreign ==
    loader.phase = "idle" \/ (loader.who = Home /\ loader.phase \in {"setup", "listen"})

SaveAlone(c) ==
    /\ \A d \in Clients : pc[d] # "idle" => d = c
    /\ pc[c] = "saving" =>
         /\ Free /\ running # Nobody /\ running = save[c].previous
         /\ calls = IF c \in resolved THEN 0 ELSE 1
    /\ pc[c] = "reloading" =>
         /\ calls = 0
         /\ \/ queue = {c} /\ loader.phase = "idle"
            \/ queue = {} /\ loader.phase # "idle" /\ loader.who = c
         /\ loader.phase \in {"idle", "unload"} => running \in {save[c].previous, Nobody}
    /\ pc[c] = "failed" => calls = 0 /\ Free /\ running \in {save[c].previous, Nobody}
    /\ pc[c] = "succeeded" =>
         calls = 0 /\ queue = {} /\ Foreign /\ running \in {stored, Nobody}
    /\ pc[c] = "restoring" => queue = {} /\ Foreign /\ running \in {stored, Nobody}

AloneInv == \A c \in Clients : pc[c] # "idle" => SaveAlone(c)

ReloadIsDue ==
    Calm =>
        \/ running \in {stored, Nobody}
        \/ calls > 0 \/ Listener \in queue
        \/ (loader.phase = "unload" /\ loader.who = Listener)

OneAtATime == LoaderInv /\ GuardInv /\ AloneInv /\ ReloadIsDue

CalmInv == SaveTypes /\ (~disturbed => OneAtATime)

(* At the start nothing is under way and the running options are the stored ones. *)
LEMMA CalmInit == Init => CalmInv
<1> SUFFICES ASSUME Init PROVE CalmInv
    OBVIOUS
<1>1. SaveTypes
    BY DEF Init, SaveTypes, Idle
<1>2. LoaderInv /\ GuardInv /\ AloneInv /\ ReloadIsDue
    BY DEF Init, LoaderInv, GuardInv, AloneInv, ReloadIsDue, Idle
<1> QED BY <1>1, <1>2 DEF CalmInv, OneAtATime

(* Every variable keeps its type. *)
LEMMA SaveTypesStep == ASSUME SaveTypes, [Next]_vars PROVE SaveTypes'
<1> USE DEF SaveTypes, entry, panel, Idle
<1>1. ASSUME NEW c \in Clients, Get(c) \/ SaveNothing(c) PROVE SaveTypes'
    BY <1>1 DEF Get, SaveNothing
<1>2. ASSUME NEW c \in Clients, Save(c) PROVE SaveTypes'
    BY <1>2 DEF Save, Guarded, Replace
<1>3. CASE FlowSave
    BY <1>3 DEF FlowSave, Replace
<1>4. CASE ListenerSkips \/ ListenerReloads
    BY <1>4 DEF ListenerSkips, ListenerReloads
<1>5. ASSUME NEW c \in Clients, GuardPassed(c) PROVE SaveTypes'
    BY <1>5 DEF GuardPassed
<1>6. ASSUME NEW c \in Clients, GuardTimesOut(c) \/ Finish(c) \/ Restored(c) PROVE SaveTypes'
    BY <1>6 DEF GuardTimesOut, Finish, Restored, Done
<1>7. ASSUME NEW c \in Clients, Restore(c) PROVE SaveTypes'
    BY <1>7 DEF Restore, Guarded, Replace
<1>8. ASSUME NEW who, Reload(who) PROVE SaveTypes'
    BY <1>8 DEF Reload
<1>9. CASE UnloadFails
    BY <1>9 DEF UnloadFails, Returns
<1>10. CASE Unload
    BY <1>10 DEF Unload
<1>11. CASE Publish
    BY <1>11 DEF Publish
<1>12. CASE Retry
    BY <1>12 DEF Retry
<1>13. CASE SetupFails \/ Listen
    BY <1>13 DEF SetupFails, Listen, Returns
<1>14. CASE UNCHANGED vars
    BY <1>14 DEF vars
<1> QED BY <1>1, <1>2, <1>3, <1>4, <1>5, <1>6, <1>7, <1>8, <1>9, <1>10, <1>11, <1>12, <1>13,
           <1>14 DEF Next, Continue, Loading

(* Nothing under way, and nothing else than a client's own save. *)
LEMMA NotBusy ==
    ASSUME SaveTypes, NEW others, ~Busy(others)
    PROVE  calls = 0 /\ queue = {} /\ loader = Idle /\ loader.phase = "idle"
           /\ \A c \in others : pc[c] = "idle"
BY DEF Busy, SaveTypes, Idle

(* A save starts alone, on a runtime that was built from what it replaces. *)
LEMMA SaveCalm ==
    ASSUME SaveTypes, OneAtATime, NEW c \in Clients, Save(c), ~disturbed'
    PROVE  OneAtATime'
<1>1. PICK t \in Tokens, f \in PanelForms :
        /\ MaySave(c, t, f)
        /\ Candidate(f[1], f[2], stored) # stored
        /\ Guarded(c, Candidate(f[1], f[2], stored))
        /\ pc' = [pc EXCEPT ![c] = "saving"]
        /\ save' = [save EXCEPT ![c] = [token |-> t, form |-> f, previous |-> stored]]
        /\ UNCHANGED entry
    BY DEF Save
<1>2. ~Busy(Clients \ {c})
    BY <1>1 DEF Guarded, Replace
<1>3. Calm /\ queue = {} /\ loader.phase = "idle" /\ calls = 0 /\ loader = Idle
    BY <1>1, <1>2, NotBusy DEF MaySave, Calm
<1>4. running = stored /\ running # Nobody /\ listening
    BY <1>1, <1>3 DEF OneAtATime, ReloadIsDue, LoaderInv, MaySave
<1>5. /\ calls' = 1 /\ guard' = c /\ UNCHANGED <<running, listening, queue, loader>>
      /\ pc'[c] = "saving" /\ save'[c].previous = stored /\ c \notin resolved'
      /\ \A d \in Clients : d # c => pc'[d] = "idle"
    BY <1>1, <1>3, <1>4 DEF Guarded, Replace, entry, SaveTypes, Calm
<1>6. LoaderInv'
    BY <1>3, <1>4, <1>5 DEF LoaderInv
<1>7. GuardInv'
    BY <1>5 DEF GuardInv
<1>8. AloneInv'
    BY <1>3, <1>4, <1>5 DEF AloneInv, SaveAlone, Free
<1>9. ReloadIsDue'
    BY <1>5 DEF ReloadIsDue, Calm
<1> QED BY <1>6, <1>7, <1>8, <1>9 DEF OneAtATime

(* The options flow replaces the options while nothing else is under way. *)
LEMMA FlowCalm ==
    ASSUME SaveTypes, OneAtATime, FlowSave, ~disturbed'
    PROVE  OneAtATime'
<1>1. PICK f \in FlowForms :
        /\ Candidate(f[1], f[2], stored) # stored
        /\ Replace(Candidate(f[1], f[2], stored), Clients)
    BY DEF FlowSave
<1>2. ~Busy(Clients)
    BY <1>1 DEF Replace
<1>3. Calm /\ queue = {} /\ loader.phase = "idle" /\ calls = 0
    BY <1>1, <1>2, NotBusy DEF Calm
<1>4. running # Nobody => listening
    BY <1>3 DEF OneAtATime, LoaderInv
<1>5. UNCHANGED <<guard, running, listening, queue, loader, pc, save>>
    BY DEF FlowSave, entry, panel
<1>6. listening => calls' = 1
    BY <1>1, <1>3 DEF Replace
<1>7. LoaderInv' /\ GuardInv' /\ AloneInv'
    BY <1>3, <1>5 DEF OneAtATime, LoaderInv, GuardInv, AloneInv, Calm
<1>8. ReloadIsDue'
    BY <1>4, <1>5, <1>6 DEF ReloadIsDue
<1> QED BY <1>7, <1>8 DEF OneAtATime

(* A listener call is swallowed by the save that registered the guard, or queues a
   reload when no save is under way. *)
LEMMA ListenerCalm ==
    ASSUME SaveTypes, OneAtATime, ListenerSkips \/ ListenerReloads
    PROVE  OneAtATime'
<1> USE DEF entry, panel
<1>1. CASE ListenerSkips
    <2>1. /\ guard \in Clients /\ pc[guard] \in {"saving", "restoring"}
          /\ resolved' = resolved \cup {guard} /\ calls > 0 /\ calls' = calls - 1
          /\ UNCHANGED <<stored, running, listening, queue, loader, pc, save, guard>>
        BY <1>1 DEF ListenerSkips, OneAtATime, GuardInv
    <2>2. LoaderInv' /\ GuardInv'
        BY <2>1 DEF OneAtATime, LoaderInv, GuardInv, Calm
    <2>3. AloneInv'
        BY <2>1 DEF OneAtATime, GuardInv, AloneInv, SaveAlone, Free, Foreign, SaveTypes
    <2>4. ReloadIsDue'
        BY <2>1 DEF ReloadIsDue, Calm
    <2> QED BY <2>2, <2>3, <2>4 DEF OneAtATime
<1>2. CASE ListenerReloads
    <2>1. /\ guard = Nobody /\ calls > 0 /\ queue' = queue \cup {Listener}
          /\ UNCHANGED <<stored, running, listening, loader, pc, save, guard>>
        BY <1>2 DEF ListenerReloads
    <2>2. Calm
        BY <2>1, NamesAssumption
        DEF OneAtATime, GuardInv, AloneInv, SaveAlone, SaveTypes, Calm
    <2>3. LoaderInv' /\ GuardInv' /\ AloneInv' /\ ReloadIsDue'
        BY <2>1, <2>2 DEF OneAtATime, LoaderInv, GuardInv, AloneInv, ReloadIsDue, Calm
    <2> QED BY <2>3 DEF OneAtATime
<1> QED BY <1>1, <1>2

(* A client goes on, or ends its save. *)
LEMMA ClientCalm ==
    ASSUME SaveTypes, OneAtATime, NEW c \in Clients,
           GuardPassed(c) \/ GuardTimesOut(c) \/ Finish(c) \/ Restored(c)
    PROVE  OneAtATime'
<1> USE DEF entry
<1>1. SaveAlone(c)
    BY DEF GuardPassed, GuardTimesOut, Finish, Restored, OneAtATime, AloneInv
<1>2. \A d \in Clients : d # c => pc[d] = "idle"
    BY <1>1 DEF SaveAlone
<1>3. CASE GuardPassed(c)
    <2>1. /\ guard' = Nobody /\ pc[c] = "saving" /\ pc'[c] = "reloading"
          /\ \A d \in Clients : d # c => pc'[d] = "idle"
          /\ queue' = queue \cup {c}
          /\ UNCHANGED <<stored, running, listening, loader, calls, save>>
        BY <1>2, <1>3 DEF GuardPassed, Unguard, SaveTypes
    <2>2. /\ calls = 0 /\ queue = {} /\ loader.phase = "idle"
          /\ running = save[c].previous
        BY <1>1, <1>3, <2>1 DEF SaveAlone, Free, GuardPassed
    <2>3. LoaderInv'
        BY <2>1, <2>2, NamesAssumption DEF OneAtATime, LoaderInv
    <2>4. GuardInv'
        BY <2>1 DEF GuardInv
    <2>5. AloneInv'
        BY <2>1, <2>2 DEF AloneInv, SaveAlone
    <2>6. ReloadIsDue'
        BY <2>1 DEF ReloadIsDue, Calm
    <2> QED BY <2>3, <2>4, <2>5, <2>6 DEF OneAtATime
<1>4. CASE GuardTimesOut(c) \/ Finish(c) \/ Restored(c)
    <2>1. /\ running \in {stored, Nobody}
          /\ UNCHANGED <<stored, running, listening, queue, loader>>
        BY <1>1, <1>4 DEF GuardTimesOut, Finish, Restored, SaveAlone
    <2>2. Calm'
        BY <1>2, <1>4 DEF GuardTimesOut, Finish, Restored, Done, SaveTypes, Calm
    <2>3. guard' = Nobody
        <3>1. CASE GuardTimesOut(c) \/ Restored(c)
            BY <3>1 DEF GuardTimesOut, Restored, Unguard
        <3>2. CASE Finish(c)
            BY <1>2, <3>2 DEF Finish, OneAtATime, GuardInv
        <3> QED BY <1>4, <3>1, <3>2
    <2>4. LoaderInv' /\ GuardInv' /\ AloneInv' /\ ReloadIsDue'
        BY <2>1, <2>2, <2>3 DEF OneAtATime, LoaderInv, GuardInv, AloneInv, ReloadIsDue, Calm
    <2> QED BY <2>4 DEF OneAtATime
<1> QED BY <1>3, <1>4

(* A save whose reload failed stores again what the runtime was built from. *)
LEMMA RestoreCalm ==
    ASSUME SaveTypes, OneAtATime, NEW c \in Clients, Restore(c)
    PROVE  OneAtATime'
<1>1. SaveAlone(c)
    BY DEF Restore, OneAtATime, AloneInv
<1>2. /\ Free /\ running \in {save[c].previous, Nobody}
      /\ \A d \in Clients : d # c => pc[d] = "idle"
    BY <1>1 DEF Restore, SaveAlone
<1>3. /\ stored' = save[c].previous /\ guard' = c
      /\ pc'[c] = "restoring" /\ \A d \in Clients : d # c => pc'[d] = "idle"
      /\ UNCHANGED <<running, listening, queue, loader, save>>
    BY <1>2 DEF Restore, Guarded, Replace, SaveTypes, entry
<1>4. LoaderInv'
    BY <1>2, <1>3 DEF OneAtATime, LoaderInv, Free
<1>5. GuardInv'
    BY <1>3 DEF GuardInv
<1>6. AloneInv'
    BY <1>2, <1>3 DEF AloneInv, SaveAlone, Free, Foreign
<1>7. ReloadIsDue'
    BY <1>2, <1>3 DEF ReloadIsDue
<1> QED BY <1>4, <1>5, <1>6, <1>7 DEF OneAtATime

(* A reload ends, and the client that waited for it goes on. *)
LEMMA ReturnCalm ==
    ASSUME SaveTypes, OneAtATime, Awaited, NEW outcome \in {"failed", "succeeded"},
           loader.phase # "idle", loader' = Idle, Returns(outcome),
           UNCHANGED <<stored, running, queue, guard, resolved, calls, save>>,
           running # Nobody => listening',
           running \in {stored, Nobody} \/ loader.who \in Clients,
           outcome = "succeeded" => running = stored,
           outcome = "failed" =>
             \A c \in Clients : c = loader.who => running \in {save[c].previous, Nobody}
    PROVE  OneAtATime'
<1>1. \A c \in Clients : pc'[c] = IF c = loader.who THEN outcome ELSE pc[c]
    BY DEF Returns
<1>2. loader'.phase = "idle" /\ loader' = Idle
    BY DEF Idle
<1>3. CASE loader.who \in Clients
    <2>1. PICK c \in Clients : c = loader.who
        BY <1>3
    <2>2. pc[c] = "reloading" /\ SaveAlone(c)
        BY <2>1 DEF Awaited, OneAtATime, AloneInv
    <2>3. /\ queue = {} /\ calls = 0 /\ pc'[c] = outcome
          /\ \A d \in Clients : d # c => pc[d] = "idle" /\ pc'[d] = "idle"
        BY <1>1, <2>1, <2>2 DEF SaveAlone
    <2>4. LoaderInv'
        BY <1>2, <2>3 DEF LoaderInv
    <2>5. GuardInv'
        BY <2>2, <2>3 DEF OneAtATime, GuardInv
    <2>6. AloneInv'
        BY <1>2, <2>1, <2>3 DEF AloneInv, SaveAlone, Free, Foreign
    <2>7. ReloadIsDue'
        BY <2>3 DEF ReloadIsDue, Calm
    <2> QED BY <2>4, <2>5, <2>6, <2>7 DEF OneAtATime
<1>4. CASE loader.who \notin Clients
    <2>1. \A c \in Clients : pc'[c] = pc[c]
        BY <1>1, <1>4
    <2>2. LoaderInv' /\ GuardInv'
        BY <1>2, <2>1 DEF OneAtATime, LoaderInv, GuardInv, Calm
    <2>3. AloneInv'
        BY <1>2, <1>4, <2>1 DEF OneAtATime, AloneInv, SaveAlone, Free, Foreign
    <2>4. ReloadIsDue'
        BY <1>4 DEF ReloadIsDue
    <2> QED BY <2>2, <2>3, <2>4 DEF OneAtATime
<1> QED BY <1>3, <1>4

(* The reload under the set-up lock. *)
LEMMA LoadingCalm ==
    ASSUME SaveTypes, OneAtATime, Awaited, Loading, ~disturbed'
    PROVE  OneAtATime'
<1> USE DEF panel
<1>1. ASSUME NEW who \in Clients \cup {Listener}, Reload(who) PROVE OneAtATime'
    <2>1. /\ loader'.who = who /\ loader'.phase = "unload"
          /\ queue' = queue \ {who} /\ who \in queue /\ loader.phase = "idle"
          /\ UNCHANGED <<stored, running, listening, guard, resolved, calls, pc, save>>
        BY <1>1 DEF Reload, SaveTypes, Idle
    <2>2. LoaderInv'
        BY <2>1 DEF OneAtATime, LoaderInv, Calm
    <2>3. GuardInv'
        BY <2>1 DEF OneAtATime, GuardInv
    <2>4. AloneInv'
        <3> SUFFICES ASSUME NEW c \in Clients, pc[c] # "idle" PROVE SaveAlone(c)'
            BY <2>1 DEF AloneInv
        <3>1. SaveAlone(c) /\ ~Calm
            BY DEF OneAtATime, AloneInv, Calm
        <3>2. who \in Clients
            BY <2>1, <3>1 DEF OneAtATime, LoaderInv
        <3>3. pc[c] = "reloading" /\ who = c /\ queue = {c}
            BY <2>1, <3>1 DEF SaveAlone, Free, SaveTypes
        <3> QED BY <2>1, <3>1, <3>3 DEF SaveAlone
    <2>5. ReloadIsDue'
        BY <2>1 DEF OneAtATime, LoaderInv, AloneInv, SaveAlone, ReloadIsDue, Calm
    <2> QED BY <2>2, <2>3, <2>4, <2>5 DEF OneAtATime
<1>2. CASE UnloadFails
    <2>1. loader.who # Listener
        BY <1>2 DEF UnloadFails
    <2>2. PICK c \in Clients : c = loader.who
        BY <1>2, <2>1 DEF UnloadFails, OneAtATime, LoaderInv
    <2>3. running \in {save[c].previous, Nobody}
        BY <1>2, <2>2 DEF UnloadFails, Awaited, OneAtATime, AloneInv, SaveAlone
    <2> QED BY <1>2, <2>2, <2>3, ReturnCalm DEF UnloadFails, OneAtATime, LoaderInv
<1>3. CASE Unload
    <2>1. /\ loader.phase = "unload" /\ loader'.who = loader.who /\ loader'.phase = "setup"
          /\ loader'.options = stored /\ running' = Nobody
          /\ UNCHANGED <<stored, queue, guard, resolved, calls, pc, save>>
        BY <1>3 DEF Unload, SaveTypes
    <2>2. LoaderInv' /\ GuardInv' /\ ReloadIsDue'
        BY <2>1 DEF OneAtATime, LoaderInv, GuardInv, ReloadIsDue, Calm
    <2>3. AloneInv'
        BY <2>1 DEF OneAtATime, AloneInv, SaveAlone, Free, Foreign
    <2> QED BY <2>2, <2>3 DEF OneAtATime
<1>4. CASE SetupFails
    <2>1. running = Nobody
        BY <1>4 DEF SetupFails, OneAtATime, LoaderInv
    <2> QED BY <1>4, <2>1, ReturnCalm DEF SetupFails
<1>5. CASE Publish
    <2>1. /\ loader.phase = "setup" /\ loader'.who = loader.who /\ loader'.phase = "listen"
          /\ running' = stored
          /\ UNCHANGED <<stored, queue, guard, resolved, calls, pc, save>>
        BY <1>5 DEF Publish, SaveTypes, OneAtATime, LoaderInv
    <2>2. LoaderInv' /\ GuardInv' /\ ReloadIsDue'
        BY <2>1 DEF OneAtATime, LoaderInv, GuardInv, ReloadIsDue, Calm
    <2>3. AloneInv'
        BY <2>1 DEF OneAtATime, AloneInv, SaveAlone, Free, Foreign
    <2> QED BY <2>2, <2>3 DEF OneAtATime
<1>6. CASE Listen
    <2>1. running = stored
        BY <1>6 DEF Listen, OneAtATime, LoaderInv
    <2> QED BY <1>6, <2>1, ReturnCalm DEF Listen
<1> QED BY <1>1, <1>2, <1>3, <1>4, <1>5, <1>6 DEF Loading

(* Home Assistant sets the entry up again after a failure. *)
LEMMA RetryCalm == ASSUME SaveTypes, OneAtATime, Retry PROVE OneAtATime'
<1> USE DEF panel
<1>1. /\ running = Nobody /\ loader.phase = "idle" /\ queue = {}
      /\ loader'.who = Home /\ loader'.phase = "setup" /\ loader'.options = stored
      /\ \A c \in Clients : pc[c] # "failed"
      /\ UNCHANGED <<stored, running, listening, queue, guard, resolved, calls, pc, save>>
    BY DEF Retry, Idle
<1>2. LoaderInv' /\ GuardInv' /\ ReloadIsDue'
    BY <1>1, NamesAssumption
    DEF OneAtATime, LoaderInv, GuardInv, ReloadIsDue, Calm, Home, Listener
<1>3. AloneInv'
    BY <1>1 DEF OneAtATime, AloneInv, SaveAlone, Free, Foreign
<1> QED BY <1>2, <1>3 DEF OneAtATime

(* As long as nothing overlaps, each step leaves what is stored running or about to be loaded. *)
LEMMA CalmStep == ASSUME ConsentInv, CalmInv, [Next]_vars PROVE CalmInv'
<1>1. SaveTypes'
    BY SaveTypesStep DEF CalmInv
<1>2. ASSUME ~disturbed' PROVE OneAtATime'
    <2>1. ~disturbed
        <3>1. ASSUME NEW c \in Clients, Get(c) \/ SaveNothing(c) \/ Save(c)
              PROVE  disturbed => disturbed'
            BY <3>1 DEF Get, SaveNothing, Save, Guarded, Replace
        <3>2. ASSUME NEW c \in Clients, Continue(c) PROVE disturbed => disturbed'
            <4>1. GuardPassed(c) \/ GuardTimesOut(c) => disturbed' = disturbed
                BY DEF GuardPassed, GuardTimesOut
            <4>2. Finish(c) \/ Restored(c) => disturbed' = disturbed
                BY DEF Finish, Restored
            <4>3. Restore(c) => (disturbed => disturbed')
                BY DEF Restore, Guarded, Replace
            <4> QED BY <3>2, <4>1, <4>2, <4>3 DEF Continue
        <3>3. FlowSave \/ ListenerSkips \/ ListenerReloads => (disturbed => disturbed')
            BY DEF FlowSave, Replace, ListenerSkips, ListenerReloads
        <3>4. Loading => (disturbed => disturbed')
            BY DEF Loading, Reload, UnloadFails, Unload, SetupFails, Publish, Listen
        <3>5. Retry \/ UNCHANGED vars => (disturbed => disturbed')
            BY DEF Retry, vars
        <3> QED BY <1>2, <3>1, <3>2, <3>3, <3>4, <3>5 DEF Next
    <2>2. SaveTypes /\ OneAtATime /\ Awaited
        BY <2>1 DEF CalmInv, ConsentInv
    <2>3. ASSUME NEW c \in Clients, Get(c) \/ SaveNothing(c) PROVE OneAtATime'
        BY <2>2, <2>3
        DEF Get, SaveNothing, entry, OneAtATime, LoaderInv, GuardInv, AloneInv, SaveAlone, Free,
            Foreign, ReloadIsDue, Calm
    <2>4. ASSUME NEW c \in Clients, Save(c) PROVE OneAtATime'
        BY <1>2, <2>2, <2>4, SaveCalm
    <2>5. CASE FlowSave
        BY <1>2, <2>2, <2>5, FlowCalm
    <2>6. CASE ListenerSkips \/ ListenerReloads
        BY <2>2, <2>6, ListenerCalm
    <2>7. ASSUME NEW c \in Clients, Continue(c) PROVE OneAtATime'
        BY <2>2, <2>7, ClientCalm, RestoreCalm DEF Continue
    <2>8. CASE Loading
        BY <1>2, <2>2, <2>8, LoadingCalm
    <2>9. CASE Retry
        BY <2>2, <2>9, RetryCalm
    <2>10. CASE UNCHANGED vars
        BY <2>2, <2>10
        DEF vars, OneAtATime, LoaderInv, GuardInv, AloneInv, SaveAlone, Free, Foreign,
            ReloadIsDue, Calm
    <2> QED BY <2>3, <2>4, <2>5, <2>6, <2>7, <2>8, <2>9, <2>10 DEF Next
<1> QED BY <1>1, <1>2 DEF CalmInv

(* Once all saves and reloads have ended, the running HAMIE was built from the stored
   options and no guard is left that would swallow a later reload, as long as nothing
   met anything else under way (presentation/api.py, the guards and the restore). *)
THEOREM RunsWhatIsStored == Spec => []RunningIsStored
<1>1. CalmInv => RunningIsStored
    <2> SUFFICES ASSUME CalmInv, ~disturbed, ~Busy(Clients)
                 PROVE  running \in {stored, Nobody} /\ guard = Nobody
        BY DEF RunningIsStored
    <2>1. Calm /\ calls = 0 /\ queue = {} /\ loader.phase = "idle"
        BY NotBusy DEF CalmInv, Calm
    <2> QED BY <2>1 DEF CalmInv, OneAtATime, ReloadIsDue, GuardInv, Calm
<1> QED BY ConsentInit, ConsentStep, CalmInit, CalmStep, <1>1, PTL DEF Spec

-----------------------------------------------------------------------------
(* Commands                                                                  *)

CommandPhases ==
    {"idle", "previewed", "sent", "committing", "answered", "failed", "reporting", "recording"}

AdviceShape(a) ==
    \/ a = NoAdvice
    \/ a \in [group : {a.group}, members : {a.members}, suppression : {a.suppression},
              revisions : {a.revisions}, stale : BOOLEAN]

DocShape(d) ==
    /\ d \in [generation : Nat, revision : Nat, findings : {d.findings},
              suppression : {d.suppression}, grouping : {d.grouping}, tokens : Seq(Commands),
              incident : Nat, advice : {d.advice}]
    /\ AdviceShape(d.advice)

(* What was previewed, and rules. *)
PreviewShape(p) == p \in [generation : Nat, revision : Nat, findings : {p.findings}]

RuleShape(r) ==
    r \in [id : Commands, matcher : {r.matcher}, action : {r.action}, enabled : {r.enabled},
           revision : Nat]

CommandsTyped ==
    /\ DocShape(doc)
    /\ shown \in 0..doc.generation
    /\ phase \in [Commands -> CommandPhases]
    /\ preview = [c \in Commands |-> preview[c]]
    /\ \A c \in Commands : PreviewShape(preview[c])
    /\ loaded \in [Commands -> Nat]
    /\ applied \in [Commands -> Nat]

(* A rule was made by a command that took effect. *)
RulesMade ==
    \A r \in doc.suppression :
        /\ RuleShape(r)
        /\ Request[r.id].kind \in {"create", "suppress"}
        /\ applied[r.id] >= 1

(* Nobody has seen or loaded a document to come. *)
Known(c) == loaded[c] <= doc.generation /\ preview[c].generation <= shown

Remembers(c) == Contains(doc.tokens, c) => Tokened(c) /\ applied[c] >= 1

(* What Load found still holds when the commit succeeds. *)
Ready(c) ==
    phase[c] = "committing" /\ loaded[c] = doc.generation => StillValid(c)

(* What its sender saw cannot be confirmed any more. *)
Outdated(c) ==
    LET r == Request[c]
    IN  CASE r.kind \in {"review", "suppress"} -> preview[c].generation < doc.generation
          [] r.kind = "create" -> preview[c].generation < shown
          [] r.kind \in {"update", "delete"} ->
               /\ r.rule \in Commands
               /\ Request[r.rule].kind \in {"create", "suppress"}
               /\ applied[r.rule] >= 1
               /\ \A rule \in RulesOf(doc, r.rule) : rule.revision > preview[c].revision
          [] r.kind = "incident" -> preview[c].revision < doc.incident
          [] r.kind = "clear" -> preview[c].revision < doc.revision
          [] OTHER -> FALSE

(* A command that took effect and is sent again is recognised by its token, or
   outdated. *)
Late(c) ==
    Tokened(c) /\ applied[c] >= 1 =>
        /\ phase[c] \notin {"idle", "previewed", "committing"}
        /\ Inbound(c) /\ phase[c] = "sent" => (Replayed(c) \/ Outdated(c))
        /\ ~Inbound(c) => Outdated(c)

Once(c) == Tokened(c) => applied[c] <= 1 /\ (phase[c] = "answered" => applied[c] = 1)

(* While nothing was committed since, a group is as its sender saw it. *)
Told(c) ==
    /\ Request[c].kind \in {"review", "suppress"}
    /\ \/ phase[c] \in {"previewed", "sent", "committing"}
       \/ ~Inbound(c) /\ phase[c] # "idle"
    /\ preview[c].generation = doc.generation
    => preview[c].findings = Eligible(doc, Request[c].group, Request[c].kind)

Holds(c) == Known(c) /\ Remembers(c) /\ Ready(c) /\ Late(c) /\ Once(c) /\ Told(c)

CommandsInv == CommandsTyped /\ RulesMade /\ \A c \in Commands : Holds(c)

-----------------------------------------------------------------------------
(* What a token window forgets and what it keeps. *)
LEMMA RememberedHolds ==
    ASSUME NEW tokens \in Seq(Commands), NEW c \in Commands, NEW limit
    PROVE  /\ Remembered(tokens, c, limit) \in Seq(Commands)
           /\ \A d : Contains(Remembered(tokens, c, limit), d) => Contains(tokens, d) \/ d = c
<1> DEFINE all == Append(tokens, c)
<1>1. all \in Seq(Commands) /\ Len(all) = Len(tokens) + 1 /\ Len(tokens) \in Nat
    OBVIOUS
<1>2. \A i \in 1..Len(all) : all[i] = c \/ (i \in 1..Len(tokens) /\ all[i] = tokens[i])
    OBVIOUS
<1>3. \A d : Contains(all, d) => Contains(tokens, d) \/ d = c
    BY <1>2 DEF Contains
<1>4. /\ Tail(all) \in Seq(Commands) /\ Len(Tail(all)) = Len(all) - 1
      /\ \A i \in 1..Len(Tail(all)) : Tail(all)[i] = all[i + 1]
    BY <1>1
<1> HIDE DEF all
<1>5. \A d : Contains(Tail(all), d) => Contains(all, d)
    BY <1>1, <1>4 DEF Contains
<1>6. Remembered(tokens, c, limit) \in {all, Tail(all)}
    BY DEF Remembered, all
<1> QED BY <1>1, <1>3, <1>4, <1>5, <1>6

(* Advice keeps what it was made for, and is stale or fits. *)
LEMMA AgedKeeps ==
    ASSUME NEW a, AdviceShape(a), NEW findings, NEW actions, NEW rules
    PROVE  LET b == Aged(a, findings, actions, rules)
           IN  /\ AdviceShape(b)
               /\ b = NoAdvice \/ b.stale \/ Fits(b, findings, actions, rules, DefaultSettings)
<1>1. CASE a = NoAdvice
    BY <1>1 DEF Aged, AdviceShape
<1>2. CASE a # NoAdvice
  <2> DEFINE fits == Fits(a, findings, actions, rules, DefaultSettings)
             b == [a EXCEPT !.stale = @ \/ ~fits]
  <2>1. a \in [group : {a.group}, members : {a.members}, suppression : {a.suppression},
               revisions : {a.revisions}, stale : BOOLEAN]
      BY <1>2 DEF AdviceShape
  <2>2. Aged(a, findings, actions, rules) = b
      BY <1>2 DEF Aged
  <2>3. fits \in BOOLEAN
      BY DEF Fits
  <2>4. fits = Fits(a, findings, actions, rules, DefaultSettings)
      OBVIOUS
  <2> HIDE DEF fits
  <2>5. /\ b \in [group : {b.group}, members : {b.members}, suppression : {b.suppression},
                  revisions : {b.revisions}, stale : BOOLEAN]
        /\ b.group = a.group /\ b.members = a.members /\ b.suppression = a.suppression
        /\ b.revisions = a.revisions
      BY <2>1, <2>3
  <2>6. b.stale \/ fits
      BY <2>1, <2>3
  <2>7. fits => Fits(b, findings, actions, rules, DefaultSettings)
      BY <2>4, <2>5 DEF Fits
  <2> QED BY <2>2, <2>5, <2>6, <2>7 DEF AdviceShape
<1> QED BY <1>1, <1>2

(* A commit adds to the counters and decides about findings and advice only. *)
LEMMA SettleKeeps ==
    ASSUME NEW d, DocShape(d)
    PROVE  LET s == Settle(d)
           IN  /\ DocShape(s)
               /\ s.generation = d.generation + 1 /\ s.revision = d.revision + 1
               /\ s.suppression = d.suppression /\ s.grouping = d.grouping
               /\ s.tokens = d.tokens /\ s.incident = d.incident
               /\ \/ s.advice = NoAdvice
                  \/ s.advice.stale
                  \/ Fits(s.advice, s.findings, Actions(s.suppression, s.grouping, expired),
                          s.grouping, DefaultSettings)
<1> DEFINE actions == ActionsOf(d)
           findings == PolicyReviewed(d.findings, actions)
           advice == Aged(d.advice, findings, actions, d.grouping)
           one == [d EXCEPT !.findings = findings]
           two == [one EXCEPT !.generation = @ + 1]
           three == [two EXCEPT !.revision = @ + 1]
           four == [three EXCEPT !.advice = advice]
<1>1. Settle(d) = four
    BY DEF Settle
<1>2. /\ AdviceShape(advice)
      /\ \/ advice = NoAdvice
         \/ advice.stale
         \/ Fits(advice, findings, actions, d.grouping, DefaultSettings)
    BY AgedKeeps DEF DocShape
<1>3. actions = Actions(d.suppression, d.grouping, expired)
    BY DEF ActionsOf
<1> HIDE DEF actions, findings, advice
<1>4. d \in [generation : Nat, revision : Nat, findings : {d.findings},
             suppression : {d.suppression}, grouping : {d.grouping}, tokens : Seq(Commands),
             incident : Nat, advice : {d.advice}]
    BY DEF DocShape
<1>5. /\ one \in [generation : Nat, revision : Nat, findings : {findings},
                  suppression : {d.suppression}, grouping : {d.grouping},
                  tokens : Seq(Commands), incident : Nat, advice : {d.advice}]
      /\ one.generation = d.generation /\ one.revision = d.revision
      /\ one.tokens = d.tokens /\ one.incident = d.incident
    BY <1>4
<1> HIDE DEF one
<1>6. /\ two \in [generation : Nat, revision : Nat, findings : {findings},
                  suppression : {d.suppression}, grouping : {d.grouping},
                  tokens : Seq(Commands), incident : Nat, advice : {d.advice}]
      /\ two.generation = d.generation + 1 /\ two.revision = d.revision
      /\ two.tokens = d.tokens /\ two.incident = d.incident
    BY <1>5
<1> HIDE DEF two
<1>7. /\ three \in [generation : Nat, revision : Nat, findings : {findings},
                    suppression : {d.suppression}, grouping : {d.grouping},
                    tokens : Seq(Commands), incident : Nat, advice : {d.advice}]
      /\ three.generation = d.generation + 1 /\ three.revision = d.revision + 1
      /\ three.tokens = d.tokens /\ three.incident = d.incident
    BY <1>4, <1>6
<1> HIDE DEF three
<1>8. /\ four \in [generation : Nat, revision : Nat, findings : {findings},
                   suppression : {d.suppression}, grouping : {d.grouping},
                   tokens : Seq(Commands), incident : Nat, advice : {advice}]
      /\ four.generation = d.generation + 1 /\ four.revision = d.revision + 1
      /\ four.tokens = d.tokens /\ four.incident = d.incident
    BY <1>7
<1> HIDE DEF four
<1>9. /\ four.findings = findings /\ four.suppression = d.suppression
      /\ four.grouping = d.grouping /\ four.advice = advice
    BY <1>8
<1>10. DocShape(four)
    BY <1>2, <1>8, <1>9 DEF DocShape
<1> QED BY <1>1, <1>2, <1>3, <1>8, <1>9, <1>10
-----------------------------------------------------------------------------
(* What a step does to the document                                          *)

(* A rule after a step: an older one, one of a later revision, or made in the step. *)
Follows(r) ==
    /\ RuleShape(r)
    /\ \/ r \in doc.suppression
       \/ \E old \in doc.suppression : old.id = r.id /\ old.revision < r.revision
       \/ /\ Request[r.id].kind \in {"create", "suppress"}
          /\ applied[r.id] = 0 /\ applied'[r.id] >= 1

(* A document d that is stored in the step. *)
Stored(d) ==
    /\ Store(d) /\ DocShape(d)
    /\ d.generation = doc.generation /\ d.revision = doc.revision
    /\ d.incident >= doc.incident
    /\ \A c \in Commands :
          Contains(d.tokens, c) => Contains(doc.tokens, c) \/ (Tokened(c) /\ applied'[c] >= 1)
    /\ \A r \in d.suppression : Follows(r)

(* What every step comes to. *)
Moved ==
    /\ DocShape(doc') /\ shown' \in shown..doc'.generation
    /\ UNCHANGED <<doc, shown>> \/ doc'.generation > doc.generation
    /\ doc'.revision >= doc.revision /\ doc'.incident >= doc.incident
    /\ \A c \in Commands :
          Contains(doc'.tokens, c) => Contains(doc.tokens, c) \/ (Tokened(c) /\ applied'[c] >= 1)
    /\ \A r \in doc'.suppression : Follows(r)
    /\ applied' \in [Commands -> Nat] /\ \A c \in Commands : applied'[c] >= applied[c]

(* Advice as it was stored, or as a commit that nobody projected left it. *)
Stands ==
    doc'.advice # NoAdvice /\ ~doc'.advice.stale /\ doc' # doc
    => Fits(doc'.advice, doc'.findings, Actions(doc'.suppression, doc'.grouping, expired),
            doc'.grouping, DefaultSettings) \/ shown' # doc'.generation

(* A step that stores a document. *)
LEMMA StoredMoves ==
    ASSUME CommandsTyped, NEW d, Stored(d),
           applied' \in [Commands -> Nat], \A c \in Commands : applied'[c] >= applied[c]
    PROVE  Moved /\ Stands
<1>1. doc' = Settle(d) /\ shown' = doc'.generation
    BY DEF Stored, Store
<1>2. /\ DocShape(doc')
      /\ doc'.generation = d.generation + 1 /\ doc'.revision = d.revision + 1
      /\ doc'.suppression = d.suppression /\ doc'.grouping = d.grouping
      /\ doc'.tokens = d.tokens /\ doc'.incident = d.incident
      /\ \/ doc'.advice = NoAdvice
         \/ doc'.advice.stale
         \/ Fits(doc'.advice, doc'.findings, Actions(doc'.suppression, doc'.grouping, expired),
                 doc'.grouping, DefaultSettings)
    BY <1>1, SettleKeeps DEF Stored
<1>3. Stands
    BY <1>2 DEF Stands
<1>4. /\ doc.generation \in Nat /\ doc.revision \in Nat /\ d.generation = doc.generation
      /\ d.revision = doc.revision /\ shown \in 0..doc.generation /\ d.incident >= doc.incident
    BY DEF CommandsTyped, DocShape, Stored
<1>5. /\ shown' \in shown..doc'.generation /\ doc'.generation > doc.generation
      /\ doc'.revision >= doc.revision /\ doc'.incident >= doc.incident
    BY <1>1, <1>2, <1>4
<1>6. /\ \A c \in Commands :
            Contains(doc'.tokens, c) => Contains(doc.tokens, c) \/ (Tokened(c) /\ applied'[c] >= 1)
      /\ \A r \in doc'.suppression : Follows(r)
    BY <1>2 DEF Stored
<1> QED BY <1>2, <1>3, <1>5, <1>6 DEF Moved

(* A step that leaves the document and what is shown alone. *)
LEMMA SameMoves ==
    ASSUME CommandsTyped, RulesMade, UNCHANGED <<doc, shown, applied>>
    PROVE  Moved /\ Stands
<1>1. Stands
    BY DEF Stands
<1>2. \A r \in doc'.suppression : Follows(r)
    BY DEF RulesMade, Follows
<1>3. DocShape(doc') /\ shown' \in shown..doc'.generation
    BY DEF CommandsTyped, DocShape
<1>4. doc'.revision >= doc.revision /\ doc'.incident >= doc.incident
    BY DEF CommandsTyped, DocShape
<1>5. applied' \in [Commands -> Nat] /\ \A c \in Commands : applied'[c] >= applied[c]
    BY DEF CommandsTyped
<1> QED BY <1>1, <1>2, <1>3, <1>4, <1>5 DEF Moved

(* A step that stores nothing but a field which is neither counted nor a token nor
   a rule. *)
LEMMA PlainStored ==
    ASSUME CommandsTyped, RulesMade, NEW d, Store(d), DocShape(d),
           d.generation = doc.generation, d.revision = doc.revision,
           d.incident = doc.incident, d.tokens = doc.tokens,
           d.suppression = doc.suppression, UNCHANGED applied
    PROVE  Moved /\ Stands
<1>1. \A r \in d.suppression : Follows(r)
    BY DEF RulesMade, Follows
<1>2. d.incident >= doc.incident
    BY DEF CommandsTyped, DocShape
<1>3. applied' \in [Commands -> Nat] /\ \A c \in Commands : applied'[c] >= applied[c]
    BY DEF CommandsTyped
<1>4. Stored(d)
    BY <1>1, <1>2 DEF Stored
<1> QED BY <1>3, <1>4, StoredMoves

(* A document that differs from another in these fields, and maybe in findings,
   grouping rules and advice. *)
Like(e, d, suppression, incident, tokens) ==
    /\ DocShape(e)
    /\ e.generation = d.generation /\ e.revision = d.revision
    /\ e.suppression = suppression /\ e.incident = incident /\ e.tokens = tokens

(* A document of which one field is replaced. *)
LEMMA FieldReplaced ==
    ASSUME NEW d, DocShape(d), NEW x
    PROVE  /\ Like([d EXCEPT !.findings = x], d, d.suppression, d.incident, d.tokens)
           /\ Like([d EXCEPT !.suppression = x], d, x, d.incident, d.tokens)
           /\ Like([d EXCEPT !.grouping = x], d, d.suppression, d.incident, d.tokens)
           /\ x \in Nat => Like([d EXCEPT !.incident = x], d, d.suppression, x, d.tokens)
           /\ x \in Seq(Commands) =>
                Like([d EXCEPT !.tokens = x], d, d.suppression, d.incident, x)
           /\ AdviceShape(x) =>
                Like([d EXCEPT !.advice = x], d, d.suppression, d.incident, d.tokens)
<1>1. d \in [generation : Nat, revision : Nat, findings : {d.findings},
             suppression : {d.suppression}, grouping : {d.grouping}, tokens : Seq(Commands),
             incident : Nat, advice : {d.advice}]
      /\ AdviceShape(d.advice)
    BY DEF DocShape
<1>2. Like([d EXCEPT !.findings = x], d, d.suppression, d.incident, d.tokens)
    BY <1>1 DEF DocShape, Like
<1>3. Like([d EXCEPT !.suppression = x], d, x, d.incident, d.tokens)
    BY <1>1 DEF DocShape, Like
<1>4. Like([d EXCEPT !.grouping = x], d, d.suppression, d.incident, d.tokens)
    BY <1>1 DEF DocShape, Like
<1>5. ASSUME x \in Nat
      PROVE  Like([d EXCEPT !.incident = x], d, d.suppression, x, d.tokens)
    BY <1>1, <1>5 DEF DocShape, Like
<1>6. ASSUME x \in Seq(Commands)
      PROVE  Like([d EXCEPT !.tokens = x], d, d.suppression, d.incident, x)
    BY <1>1, <1>6 DEF DocShape, Like
<1>7. ASSUME AdviceShape(x)
      PROVE  Like([d EXCEPT !.advice = x], d, d.suppression, d.incident, d.tokens)
    BY <1>1, <1>7 DEF DocShape, Like
<1> QED BY <1>2, <1>3, <1>4, <1>5, <1>6, <1>7

(* What a valid command makes of the rules. *)
Rewrites(c, rules) ==
    LET target == Request[c].rule
        others == {r \in doc.suppression : r.id # target}
    IN  /\ Request[c].kind \in {"suppress", "create"} =>
             \E r : RuleShape(r) /\ r.id = c /\ rules = doc.suppression \union {r}
        /\ Request[c].kind = "update" =>
             \E old \in doc.suppression, r \in rules :
                /\ RuleShape(r) /\ old.id = target /\ r.id = target
                /\ old.revision = preview[c].revision
                /\ r.revision = old.revision + 1
                /\ rules = others \union {r}
        /\ Request[c].kind = "delete" =>
             /\ \E old \in doc.suppression : old.id = target
             /\ rules = others
        /\ Request[c].kind \notin {"suppress", "create", "update", "delete"} =>
             rules = doc.suppression

(* What a valid command makes of the document. *)
LEMMA AppliedMakes ==
    ASSUME CommandsTyped, RulesMade, NEW c \in Commands, StillValid(c)
    PROVE  \E rules :
              /\ Rewrites(c, rules)
              /\ Like(Applied(c), doc, rules,
                      IF Request[c].kind = "incident" THEN doc.incident + 1 ELSE doc.incident,
                      doc.tokens)
<1> DEFINE kind == Request[c].kind
           target == Request[c].rule
           others == {r \in doc.suppression : r.id # target}
<1>1. DocShape(doc) /\ doc.incident \in Nat
    BY DEF CommandsTyped, DocShape
<1>2. CASE kind = "review"
  <2>1. PICK x : Applied(c) = [doc EXCEPT !.findings = x]
      BY <1>2 DEF Applied, ReviewGroup
  <2>2. Rewrites(c, doc.suppression)
      BY <1>2 DEF Rewrites
  <2>3. Like(Applied(c), doc, doc.suppression, doc.incident, doc.tokens)
      BY <1>1, <2>1, FieldReplaced
  <2> QED BY <1>2, <2>2, <2>3
<1>3. CASE kind = "suppress"
  <2> DEFINE r == NewRule(c, {<<"group_id", Request[c].group>>}, "hide")
  <2>1. RuleShape(r) /\ r.id = c
      BY DEF RuleShape, NewRule
  <2>2. Applied(c) = [doc EXCEPT !.suppression = doc.suppression \union {r}]
      BY <1>3 DEF Applied, SuppressGroup
  <2> HIDE DEF r
  <2>3. Rewrites(c, doc.suppression \union {r})
      BY <1>3, <2>1 DEF Rewrites
  <2>4. Like(Applied(c), doc, doc.suppression \union {r}, doc.incident, doc.tokens)
      BY <1>1, <2>2, FieldReplaced
  <2> QED BY <1>3, <2>3, <2>4
<1>4. CASE kind = "create"
  <2> DEFINE r == NewRule(c, Request[c].matcher, Request[c].action)
  <2>1. RuleShape(r) /\ r.id = c
      BY DEF RuleShape, NewRule
  <2>2. Applied(c) = [doc EXCEPT !.suppression = doc.suppression \union {r}]
      BY <1>4 DEF Applied, CreateSuppressionRule
  <2> HIDE DEF r
  <2>3. Rewrites(c, doc.suppression \union {r})
      BY <1>4, <2>1 DEF Rewrites
  <2>4. Like(Applied(c), doc, doc.suppression \union {r}, doc.incident, doc.tokens)
      BY <1>1, <2>2, FieldReplaced
  <2> QED BY <1>4, <2>3, <2>4
<1>5. CASE kind = "update"
  <2> DEFINE old == RuleOf(doc, target)
             one == [old EXCEPT !.action = Request[c].action]
             r == [one EXCEPT !.revision = @ + 1]
  <2>1. Unchanged(c)
      BY <1>5 DEF StillValid
  <2>2. old \in doc.suppression /\ old.id = target
      BY <2>1 DEF Unchanged, RulesOf, RuleOf
  <2>3. old.revision = preview[c].revision
      BY <2>1 DEF Unchanged
  <2>4. Applied(c) = [doc EXCEPT !.suppression = {s \in @ : s.id # r.id} \union {r}]
      BY <1>5 DEF Applied, UpdateSuppressionRule, Replaced
  <2> HIDE DEF old
  <2>5. RuleShape(old)
      BY <2>2 DEF RulesMade
  <2>6. RuleShape(one) /\ one.id = target /\ one.revision = old.revision
      BY <2>2, <2>5 DEF RuleShape
  <2> HIDE DEF one
  <2>7. RuleShape(r) /\ r.id = target /\ r.revision = old.revision + 1
      BY <2>6 DEF RuleShape
  <2> HIDE DEF r
  <2>8. Applied(c) = [doc EXCEPT !.suppression = others \union {r}]
      BY <2>4, <2>7
  <2>9. Rewrites(c, others \union {r})
      BY <1>5, <2>2, <2>3, <2>7 DEF Rewrites
  <2>10. Like(Applied(c), doc, others \union {r}, doc.incident, doc.tokens)
      BY <1>1, <2>8, FieldReplaced
  <2> QED BY <1>5, <2>9, <2>10
<1>6. CASE kind = "delete"
  <2>1. Unchanged(c)
      BY <1>6 DEF StillValid
  <2>2. \E old \in doc.suppression : old.id = target
      BY <2>1 DEF Unchanged, RulesOf
  <2>3. Applied(c) = [doc EXCEPT !.suppression = others]
      BY <1>6 DEF Applied, DeleteSuppressionRule
  <2>4. Rewrites(c, others)
      BY <1>6, <2>2 DEF Rewrites
  <2>5. Like(Applied(c), doc, others, doc.incident, doc.tokens)
      BY <1>1, <2>3, FieldReplaced
  <2> QED BY <1>6, <2>4, <2>5
<1>7. CASE kind = "group"
  <2>1. PICK x : Applied(c) = [doc EXCEPT !.grouping = x]
      BY <1>7 DEF Applied, CreateGroupingRule
  <2>2. Rewrites(c, doc.suppression)
      BY <1>7 DEF Rewrites
  <2>3. Like(Applied(c), doc, doc.suppression, doc.incident, doc.tokens)
      BY <1>1, <2>1, FieldReplaced
  <2> QED BY <1>7, <2>2, <2>3
<1>8. CASE kind = "incident"
  <2>1. Applied(c) = [doc EXCEPT !.incident = doc.incident + 1]
      BY <1>8 DEF Applied, SetIncidentLifecycle
  <2>2. Rewrites(c, doc.suppression)
      BY <1>8 DEF Rewrites
  <2>3. doc.incident + 1 \in Nat
      BY <1>1
  <2>4. Like(Applied(c), doc, doc.suppression, doc.incident + 1, doc.tokens)
      BY <1>1, <2>1, <2>3, FieldReplaced
  <2> QED BY <1>8, <2>2, <2>4
<1>9. CASE kind \in {"clear", "advice"}
  <2>1. Applied(c) = doc
      BY <1>9 DEF Applied
  <2> QED BY <1>1, <1>9, <2>1 DEF Rewrites, Like
<1> QED BY <1>2, <1>3, <1>4, <1>5, <1>6, <1>7, <1>8, <1>9, RequestsAssumption DEF Kinds
-----------------------------------------------------------------------------
(* The steps                                                                 *)

(* What a commit that succeeds stores. *)
LEMMA CommitStores ==
    ASSUME CommandsInv, NEW c \in Commands, Commit(c), loaded[c] = doc.generation
    PROVE  \E d :
              /\ Stored(d)
              /\ Rewrites(c, d.suppression)
              /\ d.incident = IF Request[c].kind = "incident" THEN doc.incident + 1
                                                              ELSE doc.incident
<1> DEFINE incident == IF Request[c].kind = "incident" THEN doc.incident + 1 ELSE doc.incident
           tokens == IF Tokened(c) THEN Remembered(doc.tokens, c, TokenLimit) ELSE doc.tokens
           d == [Applied(c) EXCEPT !.tokens = tokens]
<1>1. /\ CommandsTyped /\ RulesMade /\ Holds(c) /\ phase[c] = "committing"
      /\ doc.tokens \in Seq(Commands) /\ doc.incident \in Nat
    BY DEF CommandsInv, Commit, CommandsTyped, DocShape
<1>2. StillValid(c)
    BY <1>1 DEF Holds, Ready
<1>3. Tokened(c) => applied[c] = 0
    BY <1>1 DEF Holds, Late, CommandsTyped
<1>4. applied'[c] = applied[c] + 1 /\ applied[c] \in Nat
    BY <1>1 DEF Commit, CommandsTyped
<1>5. PICK rules : Rewrites(c, rules) /\ Like(Applied(c), doc, rules, incident, doc.tokens)
    BY <1>1, <1>2, AppliedMakes
<1>6. /\ tokens \in Seq(Commands)
      /\ \A b \in Commands : Contains(tokens, b) => Contains(doc.tokens, b) \/ (Tokened(b) /\ b = c)
    BY <1>1, RememberedHolds
<1>7. Store(d)
  <2> DEFINE kept(t) == IF Tokened(c) THEN Remembered(t, c, TokenLimit) ELSE t
  <2>1. Store([Applied(c) EXCEPT !.tokens = kept(Applied(c).tokens)])
      BY DEF Commit
  <2>2. Applied(c).tokens = doc.tokens
      BY <1>5 DEF Like
  <2>3. kept(Applied(c).tokens) = tokens
      BY <2>2
  <2> QED BY <2>1, <2>3
<1> HIDE DEF tokens
<1> HIDE DEF incident
<1>8. Like(d, Applied(c), rules, incident, tokens)
  <2> DEFINE made == Applied(c)
  <2>1. /\ DocShape(made) /\ made.suppression = rules /\ made.incident = incident
      BY <1>5 DEF Like
  <2> HIDE DEF made
  <2>2. Like([made EXCEPT !.tokens = tokens], made, rules, incident, tokens)
      BY <1>6, <2>1, FieldReplaced
  <2> QED BY <2>2 DEF made
<1> HIDE DEF d
<1>9. \A r \in rules : Follows(r)
  <2> SUFFICES ASSUME NEW r \in rules PROVE Follows(r)
      OBVIOUS
  <2>1. CASE r \in doc.suppression
      BY <1>1, <2>1 DEF Follows, RulesMade
  <2>2. CASE Request[c].kind \in {"suppress", "create"} /\ r \notin doc.suppression
    <3>1. RuleShape(r) /\ r.id = c
        BY <1>5, <2>2 DEF Rewrites
    <3>2. Tokened(c)
        BY <2>2 DEF Tokened
    <3> QED BY <1>3, <1>4, <2>2, <3>1, <3>2 DEF Follows
  <2>3. CASE Request[c].kind = "update" /\ r \notin doc.suppression
    <3>1. PICK old \in doc.suppression, new \in rules :
             /\ RuleShape(new) /\ old.id = new.id
             /\ new.revision = old.revision + 1
             /\ rules = {s \in doc.suppression : s.id # Request[c].rule} \union {new}
        BY <1>5, <2>3 DEF Rewrites
    <3>2. r = new
        BY <2>3, <3>1
    <3>3. old.revision \in Nat
        BY <1>1 DEF RulesMade, RuleShape
    <3> QED BY <3>1, <3>2, <3>3 DEF Follows
  <2>4. CASE Request[c].kind = "delete"
      BY <1>5, <2>1, <2>4 DEF Rewrites
  <2>5. CASE Request[c].kind \notin {"suppress", "create", "update", "delete"}
      BY <1>5, <2>1, <2>5 DEF Rewrites
  <2> QED BY <2>1, <2>2, <2>3, <2>4, <2>5
<1>10. Stored(d)
  <2>1. incident >= doc.incident
      BY <1>1 DEF incident
  <2>2. /\ DocShape(d) /\ d.generation = doc.generation /\ d.revision = doc.revision
        /\ d.incident >= doc.incident /\ d.suppression = rules /\ d.tokens = tokens
      BY <1>5, <1>8, <2>1 DEF Like
  <2>3. applied'[c] >= 1
      BY <1>4
  <2> QED BY <1>6, <1>7, <1>9, <2>2, <2>3 DEF Stored
<1>11. Rewrites(c, d.suppression) /\ d.incident = incident
    BY <1>5, <1>8 DEF Like
<1> QED BY <1>10, <1>11 DEF incident

(* Nothing is stored but on top of the document as it is; what was made in the step
   is new; and advice that does not fit is marked. *)
LEMMA StepMoves ==
    ASSUME CommandsInv, CommandsNext
    PROVE  Moved /\ Stands
<1>1. CommandsTyped /\ RulesMade /\ DocShape(doc)
    BY DEF CommandsInv, CommandsTyped
<1>2. CASE UNCHANGED <<doc, shown, applied>>
    BY <1>1, <1>2, SameMoves
<1>3. ASSUME NEW c \in Commands, Preview(c) \/ Send(c) \/ Receive(c) \/ Load(c) \/ Report(c)
      PROVE  UNCHANGED <<doc, shown, applied>>
    BY <1>3 DEF Preview, Send, Receive, Load, Report
<1>4. ASSUME NEW c \in Commands, Commit(c)
      PROVE  Moved /\ Stands
  <2>1. CASE loaded[c] # doc.generation
      BY <1>2, <1>4, <2>1 DEF Commit
  <2>2. CASE loaded[c] = doc.generation
    <3>1. PICK d : Stored(d)
        BY <1>4, <2>2, CommitStores
    <3>2. applied' \in [Commands -> Nat] /\ \A b \in Commands : applied'[b] >= applied[b]
        BY <1>1, <1>4, <2>2 DEF Commit, CommandsTyped
    <3> QED BY <1>1, <3>1, <3>2, StoredMoves
  <2> QED BY <2>1, <2>2
<1>5. ASSUME NEW c \in Commands, Record(c)
      PROVE  Moved /\ Stands
  <2>1. CASE loaded[c] # doc.generation
      BY <1>2, <1>5, <2>1 DEF Record
  <2>2. CASE loaded[c] = doc.generation
    <3>1. Store(doc) /\ UNCHANGED applied
        BY <1>5, <2>2 DEF Record
    <3> QED BY <1>1, <3>1, PlainStored
  <2> QED BY <2>1, <2>2
<1>6. CASE Scan
  <2>1. PICK x : Store([doc EXCEPT !.findings = x])
      BY <1>6 DEF Scan
  <2> DEFINE d == [doc EXCEPT !.findings = x]
  <2>2. Like(d, doc, doc.suppression, doc.incident, doc.tokens)
      BY <1>1, FieldReplaced
  <2>3. Store(d) /\ UNCHANGED applied
      BY <1>6, <2>1 DEF Scan
  <2> HIDE DEF d
  <2> QED BY <1>1, <2>2, <2>3, PlainStored DEF Like
<1>7. CASE Advise
  <2>1. PICK key :
           Store([doc EXCEPT !.advice =
                    Advised(key, doc.findings, ActionsOf(doc), doc.grouping, DefaultSettings)])
      BY <1>7 DEF Advise
  <2> DEFINE x == Advised(key, doc.findings, ActionsOf(doc), doc.grouping, DefaultSettings)
             d == [doc EXCEPT !.advice = x]
  <2>2. AdviceShape(x)
      BY DEF AdviceShape, Advised
  <2>3. Store(d) /\ UNCHANGED applied
      BY <1>7, <2>1 DEF Advise
  <2> HIDE DEF x
  <2>4. Like(d, doc, doc.suppression, doc.incident, doc.tokens)
      BY <1>1, <2>2, FieldReplaced
  <2> HIDE DEF d
  <2> QED BY <1>1, <2>3, <2>4, PlainStored DEF Like
<1>8. CASE Unprojected
  <2> DEFINE d == [doc EXCEPT !.generation = @ + 1]
  <2>1. doc' = d /\ UNCHANGED <<shown, applied>>
      BY <1>8 DEF Unprojected
  <2>2. /\ DocShape(d) /\ d.generation = doc.generation + 1 /\ d.revision = doc.revision
        /\ d.suppression = doc.suppression /\ d.incident = doc.incident
        /\ d.tokens = doc.tokens
      BY <1>1 DEF DocShape
  <2> HIDE DEF d
  <2>3. /\ doc.generation \in Nat /\ shown \in 0..doc.generation
        /\ doc.revision \in Nat /\ doc.incident \in Nat
      BY <1>1 DEF CommandsTyped, DocShape
  <2>4. shown' # doc'.generation
      BY <2>1, <2>2, <2>3
  <2>5. \A r \in doc'.suppression : Follows(r)
      BY <1>1, <2>1, <2>2 DEF RulesMade, Follows
  <2>6. applied' \in [Commands -> Nat] /\ \A c \in Commands : applied'[c] >= applied[c]
      BY <1>1, <2>1 DEF CommandsTyped
  <2>7. Moved
      BY <2>1, <2>2, <2>3, <2>5, <2>6 DEF Moved
  <2> QED BY <2>4, <2>7 DEF Stands
<1>9. CASE Forget \/ Expire
    BY <1>2, <1>9 DEF Forget, Expire
<1> QED BY <1>2, <1>3, <1>4, <1>5, <1>6, <1>7, <1>8, <1>9 DEF CommandsNext
(* Rules keep being made by commands that took effect. *)
LEMMA RulesStay ==
    ASSUME CommandsInv, Moved
    PROVE  RulesMade'
<1> SUFFICES ASSUME NEW r \in doc'.suppression
             PROVE  /\ RuleShape(r)
                    /\ Request[r.id].kind \in {"create", "suppress"}
                    /\ applied'[r.id] >= 1
    BY DEF RulesMade
<1>1. Follows(r) /\ RulesMade
    BY DEF Moved, CommandsInv
<1>2. RuleShape(r) /\ r.id \in Commands
    BY <1>1 DEF Follows, RuleShape
<1>3. applied[r.id] \in Nat /\ applied'[r.id] \in Nat /\ applied'[r.id] >= applied[r.id]
    BY <1>2 DEF Moved, CommandsInv, CommandsTyped
<1>4. CASE r \in doc.suppression
    BY <1>1, <1>2, <1>3, <1>4 DEF RulesMade
<1>5. CASE \E old \in doc.suppression : old.id = r.id
    BY <1>1, <1>2, <1>3, <1>5 DEF RulesMade
<1>6. CASE Request[r.id].kind \in {"create", "suppress"} /\ applied'[r.id] >= 1
    BY <1>2, <1>6
<1> QED BY <1>1, <1>4, <1>5, <1>6 DEF Follows

(* What is outdated stays so, unless its sender looks again. *)
LEMMA OutdatedStays ==
    ASSUME CommandsInv, Moved, NEW c \in Commands, Outdated(c), preview'[c] = preview[c]
    PROVE  Outdated(c)'
<1> DEFINE kind == Request[c].kind
           target == Request[c].rule
<1>1. /\ preview[c].generation \in Nat /\ preview[c].revision \in Nat
      /\ doc.generation \in Nat /\ doc'.generation \in Nat /\ doc'.generation >= doc.generation
      /\ doc.revision \in Nat /\ doc'.revision \in Nat /\ doc'.revision >= doc.revision
      /\ doc.incident \in Nat /\ doc'.incident \in Nat /\ doc'.incident >= doc.incident
      /\ shown \in Nat /\ shown' \in Nat /\ shown' >= shown
    BY SMTT(30) DEF CommandsInv, CommandsTyped, PreviewShape, DocShape, Moved
<1>2. CASE kind \in {"review", "suppress"}
    BY <1>1, <1>2 DEF Outdated
<1>3. CASE kind = "create"
    BY <1>1, <1>3 DEF Outdated
<1>4. CASE kind \in {"update", "delete"}
  <2>1. /\ target \in Commands /\ Request[target].kind \in {"create", "suppress"}
        /\ applied[target] >= 1
        /\ \A rule \in RulesOf(doc, target) : rule.revision > preview[c].revision
      BY <1>4 DEF Outdated
  <2>2. applied[target] \in Nat /\ applied'[target] \in Nat /\ applied'[target] >= applied[target]
      BY <2>1 DEF Moved, CommandsInv, CommandsTyped
  <2>3. ASSUME NEW rule \in RulesOf(doc', target)
        PROVE  rule.revision > preview[c].revision
    <3>1. rule.id = target /\ rule \in doc'.suppression
        BY DEF RulesOf
    <3>2. Follows(rule)
        BY <3>1 DEF Moved
    <3>3. CASE rule \in doc.suppression
        BY <2>1, <3>1, <3>3 DEF RulesOf
    <3>4. CASE \E old \in doc.suppression : old.id = rule.id /\ old.revision < rule.revision
      <4>1. PICK old \in doc.suppression : old.id = rule.id /\ old.revision < rule.revision
          BY <3>4
      <4>2. old.revision > preview[c].revision
          BY <2>1, <3>1, <4>1 DEF RulesOf
      <4>3. old.revision \in Nat /\ rule.revision \in Nat
          BY <3>2 DEF Follows, CommandsInv, RulesMade, RuleShape
      <4> QED BY <1>1, <4>1, <4>2, <4>3
    <3>5. CASE applied[rule.id] = 0
        BY <2>1, <2>2, <3>1, <3>5
    <3> QED BY <3>2, <3>3, <3>4, <3>5 DEF Follows
  <2> QED BY <1>4, <2>1, <2>2, <2>3 DEF Outdated
<1>5. CASE kind = "incident"
    BY <1>1, <1>5 DEF Outdated
<1>6. CASE kind = "clear"
    BY <1>1, <1>6 DEF Outdated
<1> QED BY <1>2, <1>3, <1>4, <1>5, <1>6 DEF Outdated

(* No check lets an outdated command pass. *)
LEMMA OutdatedRefused ==
    ASSUME CommandsInv, NEW c \in Commands, Outdated(c)
    PROVE  ~StillValid(c)
<1> DEFINE kind == Request[c].kind
           target == Request[c].rule
<1>1. /\ preview[c].generation \in Nat /\ preview[c].revision \in Nat
      /\ doc.generation \in Nat /\ doc.revision \in Nat /\ doc.incident \in Nat /\ shown \in Nat
    BY DEF CommandsInv, CommandsTyped, PreviewShape, DocShape
<1>2. CASE kind \in {"review", "suppress"}
    BY <1>1, <1>2 DEF Outdated, StillValid, Current
<1>3. CASE kind = "create"
    BY <1>1, <1>3 DEF Outdated, StillValid, Rematched
<1>4. CASE kind \in {"update", "delete"}
  <2>1. \A rule \in RulesOf(doc, target) : rule.revision > preview[c].revision
      BY <1>4 DEF Outdated
  <2>2. RulesOf(doc, target) # {} => RuleOf(doc, target) \in RulesOf(doc, target)
      BY DEF RulesOf, RuleOf
  <2>3. ~Unchanged(c)
      BY <1>1, <2>1, <2>2 DEF Unchanged
  <2> QED BY <1>4, <2>3 DEF StillValid
<1>5. CASE kind = "incident"
    BY <1>1, <1>5 DEF Outdated, StillValid
<1>6. CASE kind = "clear"
    BY <1>1, <1>6 DEF Outdated, StillValid
<1> QED BY <1>2, <1>3, <1>4, <1>5, <1>6 DEF Outdated

(* Taking effect outdates what was confirmed. *)
LEMMA CommitOutdates ==
    ASSUME CommandsInv, NEW c \in Commands, Commit(c), loaded[c] = doc.generation, Tokened(c)
    PROVE  Outdated(c)'
<1> DEFINE kind == Request[c].kind
           target == Request[c].rule
<1>1. /\ preview[c].generation \in Nat /\ preview[c].revision \in Nat
      /\ doc.generation \in Nat /\ doc.revision \in Nat /\ doc.incident \in Nat
      /\ shown \in 0..doc.generation
      /\ Holds(c) /\ RulesMade
    BY DEF CommandsInv, CommandsTyped, PreviewShape, DocShape
<1>2. StillValid(c) /\ preview'[c] = preview[c]
    BY <1>1 DEF Commit, Holds, Ready
<1>3. PICK d : /\ Stored(d) /\ Rewrites(c, d.suppression)
               /\ d.incident = IF kind = "incident" THEN doc.incident + 1 ELSE doc.incident
    BY CommitStores
<1>4. /\ doc' = Settle(d) /\ shown' = doc'.generation
      /\ d.generation = doc.generation /\ d.revision = doc.revision
    BY <1>3 DEF Stored, Store
<1>5. /\ doc'.generation = doc.generation + 1 /\ doc'.revision = doc.revision + 1
      /\ doc'.suppression = d.suppression /\ doc'.incident = d.incident
    BY <1>3, <1>4, SettleKeeps DEF Stored
<1>6. CASE kind \in {"review", "suppress"}
    BY <1>1, <1>2, <1>5, <1>6 DEF StillValid, Current, Outdated
<1>7. CASE kind = "create"
    BY <1>1, <1>2, <1>4, <1>5, <1>7 DEF StillValid, Rematched, Outdated
<1>8. CASE kind \in {"update", "delete"}
  <2>1. PICK old \in doc.suppression : old.id = target
      BY <1>3, <1>8 DEF Rewrites
  <2>2. /\ target \in Commands /\ Request[target].kind \in {"create", "suppress"}
        /\ applied[target] >= 1
      BY <1>1, <2>1 DEF RulesMade, RuleShape
  <2>3. applied[target] \in Nat /\ applied'[target] >= applied[target] /\ applied'[target] \in Nat
      BY <2>2 DEF Commit, CommandsInv, CommandsTyped
  <2>4. \A rule \in RulesOf(doc', target) : rule.revision > preview[c].revision
    <3>1. CASE kind = "update"
        BY <1>1, <1>3, <1>5, <3>1 DEF Rewrites, RulesOf
    <3>2. CASE kind = "delete"
        BY <1>3, <1>5, <3>2 DEF Rewrites, RulesOf
    <3> QED BY <1>8, <3>1, <3>2
  <2> QED BY <1>2, <1>8, <2>2, <2>3, <2>4 DEF Outdated
<1>9. CASE kind = "incident"
    BY <1>1, <1>2, <1>3, <1>5, <1>9 DEF StillValid, Outdated
<1>10. CASE kind = "clear"
    BY <1>1, <1>2, <1>5, <1>10 DEF StillValid, Outdated
<1> QED BY <1>6, <1>7, <1>8, <1>9, <1>10, RequestsAssumption DEF Tokened, Kinds
-----------------------------------------------------------------------------
(* Each command keeps what holds of it                                       *)

Untouched(c) ==
    /\ phase'[c] = phase[c] /\ preview'[c] = preview[c]
    /\ loaded'[c] = loaded[c] /\ applied'[c] = applied[c]

(* What every command but the one that moves sees of a step; and, of that one, what
   does not depend on where it is. *)
LEMMA KnownStays ==
    ASSUME CommandsInv, Moved, NEW c \in Commands,
           preview'[c] = preview[c], loaded'[c] = loaded[c]
    PROVE  Known(c)'
<1>1. Known(c)
    BY DEF CommandsInv, Holds
<1>2. /\ doc.generation \in Nat /\ doc'.generation \in Nat /\ doc'.generation >= doc.generation
      /\ shown \in Nat /\ shown' \in Nat /\ shown' >= shown
      /\ loaded[c] \in Nat /\ preview[c].generation \in Nat
    BY DEF CommandsInv, CommandsTyped, PreviewShape, DocShape, Moved
<1> QED BY <1>1, <1>2 DEF Known

(* Tokens are those of commands that took effect. *)
LEMMA RemembersStays ==
    ASSUME CommandsInv, Moved, NEW c \in Commands
    PROVE  Remembers(c)'
<1>1. Remembers(c)
    BY DEF CommandsInv, Holds
<1>2. applied[c] \in Nat /\ applied'[c] \in Nat /\ applied'[c] >= applied[c]
    BY DEF CommandsInv, CommandsTyped, Moved
<1>3. Contains(doc'.tokens, c) => Contains(doc.tokens, c) \/ (Tokened(c) /\ applied'[c] >= 1)
    BY DEF Moved
<1> QED BY <1>1, <1>2, <1>3 DEF Remembers, Tokened

(* A preview is of no later generation than the document. *)
LEMMA PreviewIsOlder ==
    ASSUME CommandsInv, Moved, NEW c \in Commands
    PROVE  /\ preview[c].generation <= doc.generation /\ loaded[c] <= doc.generation
           /\ \/ UNCHANGED <<doc, shown>>
              \/ /\ preview[c].generation < doc'.generation
                 /\ loaded[c] < doc'.generation
<1>1. Known(c)
    BY DEF CommandsInv, Holds
<1>2. /\ doc.generation \in Nat /\ doc'.generation \in Nat
      /\ shown \in 0..doc.generation
      /\ UNCHANGED <<doc, shown>> \/ doc'.generation > doc.generation
      /\ loaded[c] \in Nat /\ preview[c].generation \in Nat
    BY DEF CommandsInv, CommandsTyped, PreviewShape, DocShape, Moved
<1> QED BY <1>1, <1>2 DEF Known

(* What was told and not overtaken. *)
LEMMA ToldStays ==
    ASSUME CommandsInv, Moved, NEW c \in Commands, preview'[c] = preview[c],
           \/ phase[c] \in {"previewed", "sent", "committing"}
           \/ ~Inbound(c) /\ phase[c] # "idle"
           \/ doc' # doc
    PROVE  Told(c)'
<1>1. Told(c) /\ preview[c].generation \in Nat /\ doc'.generation \in Nat
    BY DEF CommandsInv, Holds, CommandsTyped, PreviewShape, Moved, DocShape
<1>2. CASE UNCHANGED <<doc, shown>>
    BY <1>1, <1>2 DEF Told
<1>3. CASE preview[c].generation < doc'.generation
    BY <1>1, <1>3 DEF Told
<1> QED BY <1>2, <1>3, PreviewIsOlder

(* The steps of the others. *)
LEMMA UntouchedHolds ==
    ASSUME CommandsInv, Moved, NEW c \in Commands, Untouched(c)
    PROVE  Holds(c)'
<1>1. Holds(c) /\ preview'[c] = preview[c]
    BY DEF CommandsInv, Untouched
<1>2. /\ loaded[c] \in Nat /\ preview[c].generation \in Nat
      /\ doc'.generation \in Nat /\ applied[c] \in Nat
    BY DEF CommandsInv, CommandsTyped, PreviewShape, Moved, DocShape
<1>3. Known(c)' /\ Remembers(c)'
    BY KnownStays, RemembersStays DEF Untouched
<1>4. Ready(c)'
  <2>1. CASE UNCHANGED <<doc, shown>>
    <3>1. StillValid(c)' <=> StillValid(c)
        BY <1>1, <2>1 DEF StillValid, Current, Rematched, Unchanged
    <3> QED BY <1>1, <2>1, <3>1 DEF Holds, Ready, Untouched
  <2>2. CASE loaded[c] < doc'.generation
      BY <1>2, <2>2 DEF Ready, Untouched
  <2> QED BY <2>1, <2>2, PreviewIsOlder
<1>5. Late(c)'
  <2> SUFFICES ASSUME Tokened(c), applied[c] >= 1
               PROVE  /\ phase[c] \notin {"idle", "previewed", "committing"}
                      /\ Inbound(c) /\ phase[c] = "sent" => (Replayed(c)' \/ Outdated(c)')
                      /\ ~Inbound(c) => Outdated(c)'
      BY DEF Late, Untouched, Tokened, Inbound
  <2>1. /\ phase[c] \notin {"idle", "previewed", "committing"}
        /\ Inbound(c) /\ phase[c] = "sent" => (Replayed(c) \/ Outdated(c))
        /\ ~Inbound(c) => Outdated(c)
      BY <1>1 DEF Holds, Late
  <2>2. Outdated(c) => Outdated(c)'
      BY <1>1, OutdatedStays
  <2>3. Replayed(c) /\ Inbound(c) => Replayed(c)' \/ Outdated(c)'
    <3>1. CASE UNCHANGED <<doc, shown>>
        BY <3>1 DEF Replayed, Tokened
    <3>2. CASE preview[c].generation < doc'.generation
        BY <1>1, <3>2, RequestsAssumption DEF Outdated, Inbound
    <3> QED BY <3>1, <3>2, PreviewIsOlder
  <2> QED BY <2>1, <2>2, <2>3
<1>6. Once(c)'
    BY <1>1 DEF Holds, Once, Tokened, Untouched
<1>7. Told(c)'
  <2>1. CASE \/ phase[c] \in {"previewed", "sent", "committing"}
             \/ ~Inbound(c) /\ phase[c] # "idle"
      BY <1>1, <2>1, ToldStays
  <2>2. CASE ~(\/ phase[c] \in {"previewed", "sent", "committing"}
               \/ ~Inbound(c) /\ phase[c] # "idle")
      BY <2>2 DEF Told, Untouched, Inbound
  <2> QED BY <2>1, <2>2
<1> QED BY <1>3, <1>4, <1>5, <1>6, <1>7 DEF Holds
(* What a sender sees. *)
LEMMA SeenShape ==
    ASSUME CommandsInv, NEW c \in Commands, Previewable(c)
    PROVE  /\ PreviewShape(Seen(c))
           /\ Seen(c).generation = shown
           /\ Request[c].kind \in {"review", "suppress"} =>
                Seen(c).findings = Eligible(doc, Request[c].group, Request[c].kind)
<1> DEFINE kind == Request[c].kind
           target == Request[c].rule
<1>1. shown \in Nat /\ doc.incident \in Nat /\ doc.revision \in Nat
    BY DEF CommandsInv, CommandsTyped, DocShape
<1>2. kind \in {"update", "delete"} => RuleOf(doc, target).revision \in Nat
  <2> HAVE kind \in {"update", "delete"}
  <2>1. RulesOf(doc, target) # {}
      BY DEF Previewable
  <2>2. RuleOf(doc, target) \in doc.suppression
      BY <2>1 DEF RulesOf, RuleOf
  <2> QED BY <2>2 DEF CommandsInv, RulesMade, RuleShape
<1>3. Seen(c).revision \in Nat
    BY <1>1, <1>2 DEF Seen
<1>4. Seen(c) = [generation |-> shown, revision |-> Seen(c).revision,
                 findings |-> Seen(c).findings]
    BY DEF Seen
<1>5. Request[c].kind \in {"review", "suppress"} =>
        Seen(c).findings = Eligible(doc, Request[c].group, Request[c].kind)
    BY DEF Seen
<1> HIDE DEF kind, target
<1>6. PreviewShape(Seen(c)) /\ Seen(c).generation = shown
    BY <1>1, <1>3, <1>4 DEF PreviewShape
<1> QED BY <1>5, <1>6

(* The shapes after a step. *)
LEMMA StepTyped ==
    ASSUME CommandsInv, CommandsNext
    PROVE  CommandsTyped'
<1>1. CommandsTyped /\ doc.generation \in Nat /\ shown \in Nat
    BY DEF CommandsInv, CommandsTyped, DocShape
<1>2. DocShape(doc') /\ shown' \in 0..doc'.generation /\ applied' \in [Commands -> Nat]
  <2>1. Moved
      BY StepMoves
  <2>2. doc'.generation \in Nat
      BY <2>1 DEF Moved, DocShape
  <2> QED BY <1>1, <2>1, <2>2 DEF Moved
<1>3. phase' \in [Commands -> CommandPhases]
  <2>1. ASSUME NEW c \in Commands, NEW to \in CommandPhases, Go(c, to)
        PROVE  phase' \in [Commands -> CommandPhases]
      BY <1>1, <2>1 DEF CommandsTyped, Go
  <2>2. ASSUME NEW c \in Commands,
               Preview(c) \/ Send(c) \/ Receive(c) \/ Load(c) \/ Commit(c) \/ Report(c) \/ Record(c)
        PROVE  UNCHANGED phase \/ \E to \in CommandPhases : Go(c, to)
      BY <2>2 DEF Preview, Send, Receive, Load, Commit, Report, Record, Refuse, Answer,
                  CommandPhases
  <2>3. CASE Scan \/ Advise \/ Unprojected \/ Forget \/ Expire
      BY <1>1, <2>3 DEF Scan, Advise, Unprojected, Forget, Expire, CommandsTyped
  <2>4. CASE UNCHANGED phase
      BY <1>1, <2>4 DEF CommandsTyped
  <2> QED BY <2>1, <2>2, <2>3, <2>4 DEF CommandsNext
<1>4. loaded' \in [Commands -> Nat]
  <2>1. \/ UNCHANGED loaded
        \/ \E c \in Commands : loaded' = [loaded EXCEPT ![c] = doc.generation]
      BY DEF CommandsNext, Preview, Send, Receive, Load, Commit, Report, Record,
             Scan, Advise, Unprojected, Forget, Expire
  <2> QED BY <1>1, <2>1 DEF CommandsTyped
<1>5. /\ preview' = [c \in Commands |-> preview'[c]]
      /\ \A c \in Commands : PreviewShape(preview'[c])
  <2>1. \/ UNCHANGED preview
        \/ \E c \in Commands : Previewable(c) /\ preview' = [preview EXCEPT ![c] = Seen(c)]
      BY DEF CommandsNext, Preview, Send, Receive, Load, Commit, Report, Record,
             Scan, Advise, Unprojected, Forget, Expire
  <2>2. CASE UNCHANGED preview
      BY <1>1, <2>2 DEF CommandsTyped
  <2>3. ASSUME NEW c \in Commands, Previewable(c), preview' = [preview EXCEPT ![c] = Seen(c)]
        PROVE  /\ preview' = [b \in Commands |-> preview'[b]]
               /\ \A b \in Commands : PreviewShape(preview'[b])
    <3>1. PreviewShape(Seen(c))
        BY <2>3, SeenShape
    <3>2. preview = [b \in Commands |-> preview[b]] /\ \A b \in Commands : PreviewShape(preview[b])
        BY <1>1 DEF CommandsTyped
    <3>3. preview' = [b \in Commands |-> IF b = c THEN Seen(c) ELSE preview[b]]
        BY <2>3, <3>2
    <3> QED BY <3>1, <3>2, <3>3
  <2> QED BY <2>1, <2>2, <2>3
<1> QED BY <1>2, <1>3, <1>4, <1>5 DEF CommandsTyped
(* The sender looks. *)
LEMMA PreviewHolds ==
    ASSUME CommandsInv, Moved, NEW c \in Commands, Preview(c)
    PROVE  Holds(c)'
<1>1. /\ Holds(c) /\ phase[c] = "idle" /\ ~Inbound(c) /\ Previewable(c)
      /\ doc' = doc /\ shown' = shown /\ loaded' = loaded /\ applied' = applied
      /\ phase'[c] = "previewed" /\ preview'[c] = Seen(c)
    BY DEF CommandsInv, CommandsTyped, Preview, Go
<1>2. Known(c)'
    BY <1>1, SeenShape DEF CommandsInv, CommandsTyped, DocShape, Holds, Known
<1>3. Remembers(c)' /\ Ready(c)'
    BY <1>1, RemembersStays DEF Ready
<1>4. Late(c)' /\ Once(c)'
    BY <1>1 DEF Holds, Late, Once, Tokened
<1>5. Told(c)'
    BY <1>1, SeenShape DEF Told
<1> QED BY <1>2, <1>3, <1>4, <1>5 DEF Holds

(* The sender confirms, or tries again with what it saw. *)
LEMMA SendHolds ==
    ASSUME CommandsInv, Moved, NEW c \in Commands, Send(c)
    PROVE  Holds(c)'
<1>1. /\ Holds(c) /\ phase[c] \in {"previewed", "answered", "failed"} /\ ~Inbound(c)
      /\ doc' = doc /\ shown' = shown /\ loaded' = loaded /\ applied' = applied
      /\ phase'[c] = "sent" /\ preview' = preview
    BY DEF CommandsInv, CommandsTyped, Send, Go
<1>2. Known(c)' /\ Remembers(c)' /\ Ready(c)' /\ Told(c)'
    BY <1>1, KnownStays, RemembersStays, ToldStays DEF Ready
<1>3. Outdated(c) => Outdated(c)'
    BY <1>1, OutdatedStays
<1>4. Late(c)' /\ Once(c)'
    BY <1>1, <1>3 DEF Holds, Late, Once, Tokened, Inbound
<1> QED BY <1>2, <1>4 DEF Holds

(* The endpoint receives a command of n8n: it looks only for one that did not take
   effect, or whose token is remembered. *)
LEMMA ReceiveHolds ==
    ASSUME CommandsInv, Moved, NEW c \in Commands, Receive(c)
    PROVE  Holds(c)'
<1>1. /\ Holds(c) /\ Inbound(c)
      /\ doc' = doc /\ shown' = shown /\ loaded' = loaded /\ applied' = applied
      /\ phase[c] \in {"idle", "answered", "failed"}
      /\ applied[c] \in Nat
    BY DEF CommandsInv, CommandsTyped, Receive
<1>2. Remembers(c)'
    BY RemembersStays
<1>3. CASE /\ Previewable(c) /\ preview' = [preview EXCEPT ![c] = Seen(c)] /\ Go(c, "sent")
           /\ applied[c] = 0 \/ Contains(doc.tokens, c)
  <2>1. phase'[c] = "sent" /\ preview'[c] = Seen(c)
      BY <1>3 DEF Go, CommandsInv, CommandsTyped
  <2>2. Known(c)' /\ Ready(c)' /\ Told(c)'
      BY <1>1, <1>3, <2>1, SeenShape
      DEF CommandsInv, CommandsTyped, DocShape, Holds, Known, Ready, Told
  <2>3. Once(c)'
      BY <1>1, <2>1 DEF Holds, Once, Tokened
  <2>4. Tokened(c) /\ applied[c] >= 1 => Replayed(c)'
      BY <1>1, <1>3 DEF Replayed, Tokened
  <2>5. Late(c)'
      BY <1>1, <2>1, <2>4 DEF Late, Tokened, Inbound
  <2> QED BY <1>2, <2>2, <2>3, <2>5 DEF Holds
<1>4. CASE Go(c, "reporting") /\ UNCHANGED preview
  <2>1. phase'[c] = "reporting"
      BY <1>4 DEF Go, CommandsInv, CommandsTyped
  <2>2. Known(c)'
      BY <1>1, <1>4, KnownStays
  <2>3. Ready(c)' /\ Told(c)' /\ Once(c)' /\ Late(c)'
      BY <1>1, <2>1 DEF Holds, Ready, Told, Once, Late, Tokened, Inbound
  <2> QED BY <1>2, <2>2, <2>3 DEF Holds
<1> QED BY <1>3, <1>4 DEF Receive

(* Loading: what was remembered is answered, what is outdated is refused. *)
LEMMA LoadHolds ==
    ASSUME CommandsInv, Moved, NEW c \in Commands, Load(c)
    PROVE  Holds(c)'
<1>1. /\ Holds(c) /\ phase[c] = "sent"
      /\ doc' = doc /\ shown' = shown /\ applied' = applied /\ preview' = preview
      /\ applied[c] \in Nat
    BY DEF CommandsInv, CommandsTyped, Load
<1>2. Remembers(c)'
    BY RemembersStays
<1>3. Outdated(c) => Outdated(c)'
    BY <1>1, OutdatedStays
<1>4. CASE ~Replayed(c) /\ StillValid(c)
  <2>1. phase'[c] = "committing" /\ loaded'[c] = doc.generation
      BY <1>1, <1>4 DEF Load, Go, CommandsInv, CommandsTyped
  <2>2. Known(c)'
      BY <1>1, <2>1 DEF Holds, Known, CommandsInv, CommandsTyped, DocShape
  <2>3. StillValid(c)'
      BY <1>1, <1>4 DEF StillValid, Current, Rematched, Unchanged
  <2>4. ~(Tokened(c) /\ applied[c] >= 1)
      BY <1>1, <1>4, OutdatedRefused DEF Holds, Late
  <2>5. Ready(c)' /\ Late(c)' /\ Once(c)'
      BY <1>1, <2>1, <2>3, <2>4 DEF Holds, Ready, Late, Once, Tokened
  <2>6. Told(c)'
      BY <1>1, ToldStays
  <2> QED BY <1>2, <2>2, <2>5, <2>6 DEF Holds
<1>5. CASE Replayed(c) \/ ~StillValid(c)
  <2>1. /\ loaded' = loaded
        /\ Inbound(c) => phase'[c] = "reporting"
        /\ ~Inbound(c) => phase'[c] \in {"answered", "failed"}
        /\ phase'[c] = "answered" => Replayed(c)
      BY <1>1, <1>5 DEF Load, Go, Answer, Refuse, CommandsInv, CommandsTyped
  <2>2. Known(c)' /\ Told(c)'
      BY <1>1, <2>1, KnownStays, ToldStays
  <2>3. Inbound(c) \in BOOLEAN
      BY RequestsAssumption DEF Inbound
  <2>4. phase'[c] \in {"reporting", "answered", "failed"}
      BY <2>1, <2>3
  <2>5. Ready(c)' /\ Late(c)'
      BY <1>1, <1>3, <2>1, <2>4 DEF Holds, Ready, Late, Tokened, Inbound
  <2>6. Replayed(c) => applied[c] >= 1
      BY <1>1 DEF Holds, Remembers, Replayed
  <2>7. Once(c)'
      BY <1>1, <2>1, <2>6 DEF Holds, Once, Tokened
  <2> QED BY <1>2, <2>2, <2>5, <2>7 DEF Holds
<1> QED BY <1>4, <1>5

(* The commit: it takes effect for the first time, or the document has moved on. *)
LEMMA CommitHolds ==
    ASSUME CommandsInv, Moved, NEW c \in Commands, Commit(c)
    PROVE  Holds(c)'
<1>1. /\ Holds(c) /\ phase[c] = "committing" /\ preview' = preview /\ loaded' = loaded
      /\ applied[c] \in Nat
    BY DEF CommandsInv, CommandsTyped, Commit
<1>2. Known(c)' /\ Remembers(c)'
    BY <1>1, KnownStays, RemembersStays
<1>3. Told(c)'
    BY <1>1, ToldStays
<1>4. Inbound(c) \in BOOLEAN
    BY RequestsAssumption DEF Inbound
<1>5. Tokened(c) => applied[c] = 0
    BY <1>1 DEF Holds, Late
<1>6. CASE loaded[c] # doc.generation
  <2>1. /\ applied' = applied
        /\ phase'[c] \in {"reporting", "failed"}
      BY <1>1, <1>4, <1>6 DEF Commit, Refuse, Go, CommandsInv, CommandsTyped
  <2>2. Ready(c)' /\ Late(c)' /\ Once(c)'
      BY <1>1, <1>5, <2>1 DEF Holds, Ready, Late, Once, Tokened
  <2> QED BY <1>2, <1>3, <2>2 DEF Holds
<1>7. CASE loaded[c] = doc.generation
  <2>1. /\ applied'[c] = applied[c] + 1
        /\ Inbound(c) => phase'[c] = "reporting"
        /\ ~Inbound(c) => phase'[c] = "answered"
      BY <1>1, <1>7 DEF Commit, Answer, Go, CommandsInv, CommandsTyped
  <2>2. phase'[c] \in {"reporting", "answered"}
      BY <1>4, <2>1
  <2>3. Tokened(c) => Outdated(c)'
      BY <1>7, CommitOutdates
  <2>4. Ready(c)' /\ Late(c)'
      BY <2>1, <2>2, <2>3 DEF Ready, Late, Tokened, Inbound
  <2>5. Once(c)'
      BY <1>5, <2>1 DEF Once, Tokened
  <2> QED BY <1>2, <1>3, <2>4, <2>5 DEF Holds
<1> QED BY <1>6, <1>7
(* The record of a command that ended, loaded and committed. *)
LEMMA ReportHolds ==
    ASSUME CommandsInv, Moved, NEW c \in Commands, Report(c) \/ Record(c)
    PROVE  Holds(c)'
<1>1. /\ Holds(c) /\ preview' = preview /\ applied' = applied
      /\ phase[c] \in {"reporting", "recording"}
      /\ applied[c] \in Nat
    BY DEF CommandsInv, CommandsTyped, Report, Record
<1>2. /\ phase'[c] \in {"recording", "answered", "failed"}
      /\ phase'[c] = "answered" => applied[c] > 0
      /\ loaded'[c] \in {loaded[c], doc.generation}
    BY DEF Report, Record, Go, CommandsInv, CommandsTyped
<1>3. Known(c)'
  <2>1. /\ doc.generation \in Nat /\ doc'.generation \in Nat /\ doc'.generation >= doc.generation
        /\ shown \in Nat /\ shown' \in Nat /\ shown' >= shown
        /\ loaded[c] \in Nat /\ preview[c].generation \in Nat
      BY DEF CommandsInv, CommandsTyped, PreviewShape, DocShape, Moved
  <2> QED BY <1>1, <1>2, <2>1 DEF Holds, Known
<1>4. Remembers(c)' /\ Ready(c)'
    BY <1>2, RemembersStays DEF Ready
<1>5. Outdated(c) => Outdated(c)'
    BY <1>1, OutdatedStays
<1>6. Late(c)'
    BY <1>1, <1>2, <1>5 DEF Holds, Late, Tokened, Inbound
<1>7. Once(c)'
    BY <1>1, <1>2 DEF Holds, Once, Tokened
<1>8. Told(c)'
  <2>1. CASE ~Inbound(c)
      BY <1>1, <2>1, ToldStays
  <2>2. CASE Inbound(c)
      BY <1>2, <2>2 DEF Told, Inbound
  <2> QED BY <2>1, <2>2
<1> QED BY <1>3, <1>4, <1>6, <1>7, <1>8 DEF Holds

(* A step of one command leaves the others where they are. *)
LEMMA OneMoves ==
    ASSUME CommandsInv, NEW c \in Commands, NEW b \in Commands, b # c,
           Preview(c) \/ Send(c) \/ Receive(c) \/ Load(c) \/ Commit(c) \/ Report(c) \/ Record(c)
    PROVE  Untouched(b)
<1>1. /\ phase \in [Commands -> CommandPhases] /\ loaded \in [Commands -> Nat]
      /\ applied \in [Commands -> Nat] /\ preview = [d \in Commands |-> preview[d]]
    BY DEF CommandsInv, CommandsTyped
<1>2. UNCHANGED phase \/ \E to \in CommandPhases : Go(c, to)
    BY DEF Preview, Send, Receive, Load, Commit, Report, Record, Refuse, Answer, CommandPhases
<1>3. phase'[b] = phase[b]
    BY <1>1, <1>2 DEF Go
<1>4. /\ UNCHANGED loaded \/ loaded' = [loaded EXCEPT ![c] = doc.generation]
      /\ UNCHANGED applied \/ applied' = [applied EXCEPT ![c] = @ + 1]
      /\ UNCHANGED preview \/ preview' = [preview EXCEPT ![c] = Seen(c)]
    BY DEF Preview, Send, Receive, Load, Commit, Report, Record
<1>5. loaded'[b] = loaded[b] /\ applied'[b] = applied[b]
    BY <1>1, <1>4
<1>6. preview'[b] = preview[b]
    BY <1>1, <1>4
<1> QED BY <1>3, <1>5, <1>6 DEF Untouched

(* The invariant is kept. *)
LEMMA CommandsStep ==
    CommandsInv /\ [CommandsNext]_commandVars => CommandsInv'
<1> SUFFICES ASSUME CommandsInv, [CommandsNext]_commandVars PROVE CommandsInv'
    OBVIOUS
<1>1. CASE UNCHANGED commandVars
  <2>1. /\ doc' = doc /\ shown' = shown /\ phase' = phase /\ preview' = preview
        /\ loaded' = loaded /\ applied' = applied
      BY <1>1 DEF commandVars
  <2>2. CommandsTyped'
      BY <2>1 DEF CommandsInv, CommandsTyped
  <2>3. Moved
      BY <2>1, SameMoves DEF CommandsInv
  <2>4. RulesMade'
      BY <2>3, RulesStay
  <2>5. \A c \in Commands : Holds(c)'
      BY <2>1, <2>3, UntouchedHolds DEF Untouched
  <2> QED BY <2>2, <2>4, <2>5 DEF CommandsInv
<1>2. CASE CommandsNext
  <2>1. Moved /\ CommandsTyped'
      BY <1>2, StepMoves, StepTyped
  <2>2. RulesMade'
      BY <2>1, RulesStay
  <2>3. ASSUME NEW c \in Commands,
               Preview(c) \/ Send(c) \/ Receive(c) \/ Load(c) \/ Commit(c) \/ Report(c) \/ Record(c)
        PROVE  \A b \in Commands : Holds(b)'
    <3>1. Holds(c)'
        BY <2>1, <2>3, PreviewHolds, SendHolds, ReceiveHolds, LoadHolds, CommitHolds, ReportHolds
    <3>2. \A b \in Commands : b # c => Holds(b)'
        BY <2>1, <2>3, OneMoves, UntouchedHolds
    <3> QED BY <3>1, <3>2
  <2>4. CASE Scan \/ Advise \/ Unprojected \/ Forget \/ Expire
    <3>1. \A b \in Commands : Untouched(b)
        BY <2>4 DEF Scan, Advise, Unprojected, Forget, Expire, Untouched
    <3> QED BY <2>1, <2>2, <3>1, UntouchedHolds DEF CommandsInv
  <2> QED BY <1>2, <2>1, <2>2, <2>3, <2>4 DEF CommandsNext, CommandsInv
<1> QED BY <1>1, <1>2

(* The invariant holds before anything is sent. *)
LEMMA CommandsStart == CommandsInit => CommandsInv
<1> SUFFICES ASSUME CommandsInit PROVE CommandsInv
    OBVIOUS
<1>1. DocShape(doc) /\ doc.suppression = {} /\ doc.tokens = <<>> /\ doc.generation = 0
    BY DEF CommandsInit, DocShape, AdviceShape
<1>2. CommandsTyped
    BY <1>1 DEF CommandsInit, CommandsTyped, CommandPhases, PreviewShape, Nothing
<1>3. \A c \in Commands : ~Contains(doc.tokens, c)
    BY <1>1 DEF Contains
<1>4. ASSUME NEW c \in Commands
      PROVE  Holds(c)
  <2>1. /\ phase[c] = "idle" /\ preview[c].generation = 0 /\ loaded[c] = 0 /\ applied[c] = 0
        /\ shown = 0
      BY DEF CommandsInit, Nothing
  <2> QED BY <1>1, <1>3, <2>1 DEF Holds, Known, Remembers, Ready, Late, Once, Told
<1> QED BY <1>1, <1>2, <1>4 DEF CommandsInv, RulesMade

(* What holds of every command, at every moment. *)
LEMMA CommandsInvariant == CommandsSpec => []CommandsInv
BY CommandsStart, CommandsStep, PTL DEF CommandsSpec

-----------------------------------------------------------------------------
(* However often a command is sent, and however few tokens are remembered, it takes
   effect at most once, and who is told that it succeeded is told the truth
   (application/operations_service.py, the mutation tokens and the previews). *)
THEOREM TakesEffectOnce == CommandsSpec => []AppliedOnce
<1>1. CommandsInv => AppliedOnce
    BY DEF CommandsInv, Holds, Once, AppliedOnce
<1> QED BY <1>1, CommandsInvariant, PTL

(* A command on a group takes effect only on the members, and the content, that its
   sender confirmed (operations_service.py, _validate_preview). *)
THEOREM OnlyWhatWasConfirmed == CommandsSpec => ConfirmedOnly
<1> DEFINE AsTold == \A c \in Commands :
                     applied'[c] > applied[c] /\ Request[c].kind \in {"review", "suppress"}
                       => preview[c].findings = Eligible(doc, Request[c].group, Request[c].kind)
<1>1. CommandsInv /\ [CommandsNext]_commandVars => [AsTold]_commandVars
  <2> SUFFICES ASSUME CommandsInv, CommandsNext, NEW c \in Commands,
                      applied'[c] > applied[c], Request[c].kind \in {"review", "suppress"}
               PROVE  preview[c].findings = Eligible(doc, Request[c].group, Request[c].kind)
      OBVIOUS
  <2>1. applied \in [Commands -> Nat] /\ Holds(c)
      BY DEF CommandsInv, CommandsTyped
  <2>2. applied' # applied
      BY <2>1
  <2>3. PICK b \in Commands : Commit(b) /\ loaded[b] = doc.generation
      BY <2>2 DEF CommandsNext, Preview, Send, Receive, Load, Commit, Report, Record,
                  Scan, Advise, Unprojected, Forget, Expire
  <2>4. b = c
      BY <2>1, <2>3, OneMoves DEF Untouched
  <2>5. phase[c] = "committing" /\ StillValid(c)
      BY <2>1, <2>3, <2>4 DEF Commit, Holds, Ready
  <2>6. preview[c].generation = doc.generation
      BY <2>5 DEF StillValid, Current
  <2> QED BY <2>1, <2>5, <2>6 DEF Holds, Told
<1>2. [][AsTold]_commandVars <=> ConfirmedOnly
    BY DEF ConfirmedOnly
<1> QED BY <1>1, <1>2, CommandsInvariant, PTL DEF CommandsSpec

(* After every commit, advice that is not marked stale fits the group it was made
   for, or a later projection is due (domain/intelligence.py,
   mark_recommendations_stale). *)
THEOREM AdviceFitsItsGroup == CommandsSpec => AdviceStands
<1>1. CommandsInv /\ [CommandsNext]_commandVars => [Stands]_commandVars
    BY StepMoves
<1>2. [][Stands]_commandVars <=> AdviceStands
    BY DEF AdviceStands, Stands
<1> QED BY <1>1, <1>2, CommandsInvariant, PTL DEF CommandsSpec
=============================================================================
