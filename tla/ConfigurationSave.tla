-------------------------- MODULE ConfigurationSave --------------------------
(***************************************************************************)
(* Saving settings while HAMIE runs: the panel's save command with its     *)
(* revision, its idempotency token and its guard against the update        *)
(* listener (presentation/api.py); the native options flow                 *)
(* (config_flow.py); the update listener and what a reload does to the     *)
(* entry (__init__.py).  Home Assistant's part, external here: the options *)
(* are replaced at once and the listeners called later, one reload of the  *)
(* entry runs at a time, and a set-up that failed is tried again.          *)
(*                                                                         *)
(* The revision is a digest of the options; here it is the options.  The   *)
(* 5 s of the guard are longer than a listener call waits in the event     *)
(* loop.  The cache of 128 answers does not overflow.                      *)
(***************************************************************************)
EXTENDS Integers, ConfigurationRules

CONSTANTS
    Clients,        \* panel connections
    Tokens,         \* idempotency tokens
    PanelForms,     \* <<section, form>> pairs a panel client may submit
    FlowForms,      \* the same, of the options flow
    Nobody,         \* no client, no options
    MaxSaves,       \* bound on the options replaced by a submitted form
    MaxFailures     \* bound on failing reloads

Listener == "listener"
Home == "home_assistant"

ASSUME FormsAssumption ==
    \A f \in PanelForms \cup FlowForms :
        /\ f[1] \in Sections
        /\ \A k \in DOMAIN f[2] \cap {"host", "webhook"} :
              f[2][k] \in Hosts \cup {NoHost}
ASSUME NamesAssumption == {Nobody, Listener, Home} \cap Clients = {}

VARIABLES
    stored,     \* entry.options
    running,    \* the options the loaded runtime was built from, or Nobody
    listening,  \* the update listener is registered
    guard,      \* _guarded_options_update: whose future is registered
    resolved,   \* the futures the listener has set
    calls,      \* update listener calls on their way
    base,       \* client -> the options it read last
    pc,         \* client -> where its save is
    save,       \* client -> the save it has under way
    cache,      \* configuration write cache: token -> <<form, result>>
    queue,      \* who waits for the entry's set-up lock
    loader,     \* who reloads the entry, and how far it is
    saves, failures,
    consent,    \* history: connector -> hosts somebody approved
    disturbed   \* history: options were replaced while a save or reload ran, or
                \* the reload the listener asked for left the old runtime up

vars == <<stored, running, listening, guard, resolved, calls, base, pc, save,
          cache, queue, loader, saves, failures, consent, disturbed>>

entry == <<running, listening, queue, loader, failures>>
panel == <<base, pc, save, cache>>

Idle == [who |-> Nobody, phase |-> "idle", options |-> Nobody]

Init ==
    /\ stored = Defaults /\ running = Defaults
    /\ listening = TRUE
    /\ guard = Nobody /\ resolved = {} /\ calls = 0
    /\ base = [c \in Clients |-> Nobody]
    /\ pc = [c \in Clients |-> "idle"]
    /\ save = [c \in Clients |-> Nobody]
    /\ cache = [t \in Tokens |-> Nobody]
    /\ queue = {} /\ loader = Idle
    /\ saves = 0 /\ failures = 0
    /\ consent = [c \in Connectors |-> {}]
    /\ disturbed = FALSE

Busy(others) ==
    \/ \E c \in others : pc[c] # "idle"
    \/ calls > 0 \/ queue # {} \/ loader # Idle

(* The hosts a form lists as allowed, or names and ticks the flag that is  *)
(* right for them.                                                         *)
Ticked(section, form) ==
    (IF "allowed" \in DOMAIN form THEN form.allowed ELSE {}) \cup
    {h \in Hosts :
        /\ h \in {form[k] : k \in DOMAIN form \cap {"host", "webhook"}}
                 \cup {stored[section].host, stored[section].webhook}
        /\ \/ HostKind[h] = "private" /\ "approve" \in DOMAIN form
           \/ HostKind[h] = "remote" /\ "approveRemote" \in DOMAIN form}

Consented(section, form) ==
    consent' = IF section \in Connectors
               THEN [consent EXCEPT ![section] = @ \cup Ticked(section, form)]
               ELSE consent

(* async_update_entry: nothing happens when nothing changes.               *)
Replace(options, others) ==
    /\ stored' = options
    /\ calls' = IF options # stored /\ listening THEN calls + 1 ELSE calls
    /\ disturbed' = (disturbed \/ (options # stored /\ Busy(others)))

(* _async_guarded_options_update, up to the wait.                          *)
Guarded(c, options) ==
    /\ guard' = c
    /\ resolved' = resolved \ {c}
    /\ Replace(options, Clients \ {c})

(* ws_configuration_get. *)
Get(c) ==
    /\ pc[c] = "idle" /\ running # Nobody
    /\ base' = [base EXCEPT ![c] = stored]
    /\ UNCHANGED <<stored, guard, resolved, calls, pc, save, cache,
                   entry, saves, consent, disturbed>>

(* ws_configuration_save, up to its first await.  A token known with this  *)
(* form replays its answer and one known with another form is refused,     *)
(* neither of which changes anything; so does a stale revision, a form     *)
(* that does not validate, or an entry that is not loaded.                 *)
MaySave(c, t, f) ==
    /\ pc[c] = "idle" /\ running # Nobody
    /\ cache[t] = Nobody
    /\ base[c] = stored
    /\ Accepted(f[1], f[2], stored)

SaveNothing(c) ==
    \E t \in Tokens, f \in PanelForms :
        /\ MaySave(c, t, f)
        /\ Candidate(f[1], f[2], stored) = stored
        /\ cache' = [cache EXCEPT ![t] = f]
        /\ UNCHANGED <<stored, guard, resolved, calls, base, pc, save,
                       entry, saves, consent, disturbed>>

Save(c) ==
    \E t \in Tokens, f \in PanelForms :
        /\ MaySave(c, t, f)
        /\ \A d \in Clients \ {c} : save[d] # Nobody => save[d].token # t
        /\ saves < MaxSaves
        /\ Candidate(f[1], f[2], stored) # stored
        /\ saves' = saves + 1
        /\ Guarded(c, Candidate(f[1], f[2], stored))
        /\ Consented(f[1], f[2])
        /\ pc' = [pc EXCEPT ![c] = "saving"]
        /\ save' = [save EXCEPT ![c] =
                      [token |-> t, form |-> f, previous |-> stored]]
        /\ UNCHANGED <<base, cache, entry>>

(* HamieOptionsFlow._save_options: the form meets the options of the       *)
(* moment and nothing guards it.                                           *)
FlowSave ==
    \E f \in FlowForms :
        /\ saves < MaxSaves
        /\ Accepted(f[1], f[2], stored)
        /\ Candidate(f[1], f[2], stored) # stored
        /\ saves' = saves + 1
        /\ Replace(Candidate(f[1], f[2], stored), Clients)
        /\ Consented(f[1], f[2])
        /\ UNCHANGED <<guard, resolved, panel, entry>>

(* _async_reload_entry: a guarded change is skipped, any other is audited  *)
(* and reloads the entry.                                                  *)
ListenerSkips ==
    /\ calls > 0 /\ guard # Nobody
    /\ calls' = calls - 1
    /\ resolved' = resolved \cup {guard}
    /\ UNCHANGED <<stored, guard, panel, entry, saves, consent, disturbed>>

ListenerReloads ==
    /\ calls > 0 /\ guard = Nobody
    /\ calls' = calls - 1
    /\ queue' = queue \cup {Listener}
    /\ UNCHANGED <<stored, running, listening, loader, failures, guard,
                   resolved, panel, saves, consent, disturbed>>

(* The guard is dropped however the wait ended, whoever's it is by now.    *)
Unguard_Mutation == UNCHANGED guard
Unguard == guard' = Nobody

GuardPassed(c) ==
    /\ pc[c] = "saving" /\ c \in resolved
    /\ Unguard
    /\ pc' = [pc EXCEPT ![c] = "reloading"]
    /\ queue' = queue \cup {c}
    /\ UNCHANGED <<stored, running, listening, loader, failures, resolved,
                   calls, base, save, cache, saves, consent, disturbed>>

Done(c) ==
    /\ pc' = [pc EXCEPT ![c] = "idle"]
    /\ save' = [save EXCEPT ![c] = Nobody]

(* TimeoutError: answered as a failure, though the options are stored.     *)
GuardTimesOut(c) ==
    /\ pc[c] \in {"saving", "restoring"} /\ c \notin resolved /\ calls = 0
    /\ Unguard
    /\ Done(c)
    /\ UNCHANGED <<stored, resolved, calls, base, cache, entry, saves,
                   consent, disturbed>>

(* async_reload, under the lock: the unload of the platforms may fail and  *)
(* leaves the old runtime; else the runtime is shut down, the listener     *)
(* removed and the set-up reads the options.                               *)
Reload(who) ==
    /\ who \in queue /\ loader = Idle
    /\ queue' = queue \ {who}
    /\ loader' = [who |-> who, phase |-> "unload", options |-> Nobody]
    /\ UNCHANGED <<stored, running, listening, failures, guard, resolved, calls,
                   panel, saves, consent, disturbed>>

(* The client that waited for this reload goes on with its outcome.        *)
Returns(outcome) ==
    pc' = [c \in Clients |-> IF c = loader.who THEN outcome ELSE pc[c]]

UnloadFails ==
    /\ loader.phase = "unload" /\ running # Nobody
    /\ failures < MaxFailures
    /\ failures' = failures + 1
    /\ loader' = Idle
    /\ Returns("failed")
    /\ disturbed' = (disturbed \/ loader.who = Listener)
    /\ UNCHANGED <<stored, running, listening, queue, guard, resolved, calls,
                   base, save, cache, saves, consent>>

Unload ==
    /\ loader.phase = "unload"
    /\ running' = Nobody /\ listening' = FALSE
    /\ loader' = [loader EXCEPT !.phase = "setup", !.options = stored]
    /\ UNCHANGED <<stored, queue, failures, guard, resolved, calls, panel,
                   saves, consent, disturbed>>

SetupFails ==
    /\ loader.phase = "setup"
    /\ failures < MaxFailures
    /\ failures' = failures + 1
    /\ loader' = Idle
    /\ Returns("failed")
    /\ UNCHANGED <<stored, running, listening, queue, guard, resolved, calls,
                   base, save, cache, saves, consent, disturbed>>

(* async_setup_entry: the runtime is published before the listener is      *)
(* registered.                                                             *)
Publish ==
    /\ loader.phase = "setup"
    /\ running' = loader.options
    /\ loader' = [loader EXCEPT !.phase = "listen"]
    /\ UNCHANGED <<stored, listening, queue, failures, guard, resolved, calls,
                   panel, saves, consent, disturbed>>

Listen ==
    /\ loader.phase = "listen"
    /\ listening' = TRUE
    /\ loader' = Idle
    /\ Returns("succeeded")
    /\ UNCHANGED <<stored, running, queue, failures, guard, resolved, calls,
                   base, save, cache, saves, consent, disturbed>>

(* A failed set-up is tried again, well after the save has gone on.        *)
Retry ==
    /\ running = Nobody /\ loader = Idle /\ queue = {}
    /\ \A c \in Clients : pc[c] # "failed"
    /\ loader' = [who |-> Home, phase |-> "setup", options |-> stored]
    /\ UNCHANGED <<stored, running, listening, queue, failures, guard, resolved,
                   calls, panel, saves, consent, disturbed>>

(* The rest of a save whose reload succeeded: the answer is kept with its  *)
(* token.                                                                  *)
Kept(c) == cache' = [cache EXCEPT ![save[c].token] = save[c].form]

Finish(c) ==
    /\ pc[c] = "succeeded"
    /\ Kept(c)
    /\ Done(c)
    /\ UNCHANGED <<stored, guard, resolved, calls, base, entry, saves, consent,
                   disturbed>>

(* _async_apply_configuration: a failed reload stores the previous options *)
(* again, under a guard of its own.                                        *)
Restore(c) ==
    /\ pc[c] = "failed"
    /\ Guarded(c, save[c].previous)
    /\ pc' = [pc EXCEPT ![c] = "restoring"]
    /\ UNCHANGED <<base, save, cache, entry, saves, consent>>

Restored(c) ==
    /\ pc[c] = "restoring" /\ c \in resolved
    /\ Unguard
    /\ Done(c)
    /\ UNCHANGED <<stored, resolved, calls, base, cache, entry, saves,
                   consent, disturbed>>

Continue(c) ==
    GuardPassed(c) \/ GuardTimesOut(c) \/ Finish(c) \/ Restore(c) \/ Restored(c)

Loading ==
    \/ \E who \in Clients \cup {Listener} : Reload(who)
    \/ UnloadFails \/ Unload \/ SetupFails \/ Publish \/ Listen

Next ==
    \/ \E c \in Clients : Get(c) \/ SaveNothing(c) \/ Save(c) \/ Continue(c)
    \/ FlowSave \/ ListenerSkips \/ ListenerReloads \/ Loading \/ Retry

Spec == Init /\ [][Next]_vars

-----------------------------------------------------------------------------
(* A host outside the machine becomes allowed only by a save that listed   *)
(* it, or named it and ticked the approval for its kind: one given for one *)
(* address never lets a later save in with another (configuration.py, the  *)
(* approval flags dropped after validation).                               *)
HostIsConsented ==
    \A c \in Connectors : \A h \in stored[c].allowed :
        HostKind[h] = "loopback" \/ h \in consent[c]

(* Once every save and reload has ended, the running HAMIE was built from  *)
(* the stored options and no guard is left that would swallow the reload   *)
(* of a later change -- as long as no save met another save or a reload    *)
(* under way, and no platform refused to unload for the options flow       *)
(* (presentation/api.py, the guards and the restore).                      *)
RunningIsStored ==
    ~disturbed /\ ~Busy(Clients) =>
        /\ running \in {stored, Nobody}
        /\ guard = Nobody
=============================================================================
