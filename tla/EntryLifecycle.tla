---------------------------- MODULE EntryLifecycle ----------------------------
(* The config entry's life: each set-up builds a new runtime with a repository
   of its own over the one stored document, loads it, sets an unreadable one
   aside, arms the heartbeat of the connectors and the initial scan; an unload
   stops them; a reload is an unload and a set-up; the removal of the entry
   removes the document.  Commands of a runtime load and commit the document,
   and one under way outlives the unload.  Home Assistant may stop at any
   moment, and the document may be another one when it starts again: damaged,
   restored from a backup, or written by a later release.                    *)
EXTENDS StoredDocument, FiniteSets

CONSTANTS
  Connectors,   \* the enabled connectors
  Documents,    \* what may be found on disk at a start
  MaxSetups,    \* bound: set-ups
  MaxTampers,   \* bound: changes of the document while Home Assistant is down
  MaxCommits,   \* bound: commits
  MaxFaults     \* bound: failures to write the copy of a damaged document

ASSUME EntryAssumption ==
  MaxSetups \in Nat /\ MaxTampers \in Nat /\ MaxCommits \in Nat /\ MaxFaults \in Nat

Runtimes == 1 .. MaxSetups

VARIABLES
  disk,        \* the document, or Nothing
  aside,       \* documents copied to keys of their own
  up, started, \* Home Assistant runs, and has finished starting
  entry,       \* state of the config entry
  latest,      \* the runtime of the latest set-up
  setup,       \* [Runtimes -> set-up and life of a runtime]
  startup,     \* [Runtimes -> its initial scan]
  timer,       \* [Runtimes -> [Connectors -> heartbeat of the connector]]
  closed,      \* runtimes whose heartbeat was stopped
  call,        \* [Runtimes -> a command of the runtime that commits]
  checkpoint,  \* [Runtimes -> the old document its repository will keep]
  judged,      \* history: documents found unreadable and not removed on request
  tampers, faults

storage == <<disk, aside, judged>>
process == <<up, started, tampers>>
background == <<startup, timer, closed>>
commands == <<call, checkpoint>>
vars == <<storage, process, entry, latest, setup, background, commands, faults>>

NoCall == [pc |-> "idle", gen |-> 0, base |-> Nothing]

Init ==
  /\ disk \in Documents /\ aside = {} /\ judged = {}
  /\ up = TRUE /\ started = FALSE
  /\ entry = "idle" /\ latest = 0
  /\ setup = [i \in Runtimes |-> [pc |-> "none", raw |-> Nothing]]
  /\ startup = [i \in Runtimes |-> "none"]
  /\ timer = [i \in Runtimes |-> [c \in Connectors |-> "off"]]
  /\ closed = {}
  /\ call = [i \in Runtimes |-> NoCall]
  /\ checkpoint = [i \in Runtimes |-> Nothing]
  /\ tampers = 0 /\ faults = 0

-----------------------------------------------------------------------------
(* Set-up: the document.                                                     *)

At(i, pc) == setup[i].pc = pc
GoTo(i, pc) == setup' = [setup EXCEPT ![i] = [pc |-> pc, raw |-> Nothing]]
GiveUp(i) == GoTo(i, "dead") /\ entry' = "failed"

(* async_setup_entry builds everything anew. *)
SetUp ==
  /\ up /\ entry \in {"idle", "failed", "removed"}
  /\ latest < MaxSetups
  /\ latest' = latest + 1
  /\ entry' = "setup"
  /\ GoTo(latest + 1, "load")
  /\ UNCHANGED <<storage, process, background, commands, faults>>

(* async_load remembers a document of an older schema for the next commit. *)
Remembered(i) == IF Older(disk) THEN disk ELSE checkpoint[i]

Load(i) ==
  /\ At(i, "load")
  /\ \/ /\ Decode(disk).result = "loaded"
        /\ GoTo(i, "arm")
        /\ checkpoint' = [checkpoint EXCEPT ![i] = Remembered(i)]
        /\ UNCHANGED <<judged, entry>>
     \/ /\ Decode(disk).result = "corrupt"
        /\ GoTo(i, "recover")
        /\ judged' = judged \cup {disk}
        /\ UNCHANGED <<checkpoint, entry>>
     \/ /\ Decode(disk).result \notin {"loaded", "corrupt"}
        /\ GiveUp(i)
        /\ UNCHANGED <<judged, checkpoint>>
  /\ UNCHANGED <<disk, aside, process, latest, background, call, faults>>

(* The document is cleared before it is copied. *)
Recover_RemovesFirst(i) ==
  /\ At(i, "recover")
  /\ GoTo(i, "remove")
  /\ UNCHANGED <<storage, process, entry, latest, background, commands, faults>>

(* async_quarantine_corrupt_document: read again, copy, remove. *)
Recover(i) ==
  /\ At(i, "recover")
  /\ IF disk = Nothing THEN GoTo(i, "reread")
     ELSE setup' = [setup EXCEPT ![i] = [pc |-> "copy", raw |-> disk]]
  /\ UNCHANGED <<storage, process, entry, latest, background, commands, faults>>

Copy(i) ==
  /\ At(i, "copy")
  /\ aside' = aside \cup {setup[i].raw}
  /\ GoTo(i, "remove")
  /\ UNCHANGED <<disk, judged, process, entry, latest, background, commands, faults>>

CopyFails(i) ==
  /\ At(i, "copy") /\ faults < MaxFaults
  /\ faults' = faults + 1
  /\ GiveUp(i)
  /\ UNCHANGED <<storage, process, latest, background, commands>>

Remove(i) ==
  /\ At(i, "remove")
  /\ disk' = Nothing
  /\ checkpoint' = [checkpoint EXCEPT ![i] = Nothing]
  /\ GoTo(i, "reread")
  /\ UNCHANGED <<aside, judged, process, entry, latest, background, call, faults>>

(* The rebuilt state must load; there is no second recovery. *)
Reread(i) ==
  /\ At(i, "reread")
  /\ IF Decode(disk).result = "loaded"
     THEN /\ GoTo(i, "arm")
          /\ checkpoint' = [checkpoint EXCEPT ![i] = Remembered(i)]
          /\ UNCHANGED entry
     ELSE GiveUp(i) /\ UNCHANGED checkpoint
  /\ UNCHANGED <<storage, process, latest, background, call, faults>>

-----------------------------------------------------------------------------
(* Set-up: background work, and its end.                                     *)

Arm(i) ==
  /\ At(i, "arm")
  /\ timer' = [timer EXCEPT ![i] = [c \in Connectors |-> "armed"]]
  /\ startup' = [startup EXCEPT ![i] = IF started THEN "task" ELSE "waiting"]
  /\ GoTo(i, "running")
  /\ entry' = "loaded"
  /\ UNCHANGED <<storage, process, latest, closed, commands, faults>>

(* Home Assistant has started: the listeners fire. *)
Started ==
  /\ up /\ ~started
  /\ started' = TRUE
  /\ startup' = [i \in Runtimes |-> IF startup[i] = "waiting" THEN "task" ELSE startup[i]]
  /\ UNCHANGED <<storage, up, tampers, entry, latest, setup, timer, closed, commands, faults>>

InitialScan(i) ==
  /\ startup[i] = "task"
  /\ startup' = [startup EXCEPT ![i] = "done"]
  /\ UNCHANGED <<storage, process, entry, latest, setup, timer, closed, commands, faults>>

Beat(i, c, from, to) ==
  /\ timer[i][c] = from
  /\ timer' = [timer EXCEPT ![i][c] = to]
  /\ UNCHANGED <<storage, process, entry, latest, setup, startup, closed, commands, faults>>

Probe(i, c) == Beat(i, c, "armed", "probing")

(* The probe was answered or failed; either way the next one is armed, unless
   the heartbeat was stopped meanwhile.                                      *)
Rearmed_Always(i, outcome) == "armed"

Rearmed(i, outcome) == IF i \in closed THEN "off" ELSE "armed"

ProbeEnds(i, c) ==
  \E outcome \in {"answered", "failed"} : Beat(i, c, "probing", Rearmed(i, outcome))

-----------------------------------------------------------------------------
(* Unload, reload, removal.                                                  *)

(* async_shutdown first releases the initial scan, *)
Unload(i, goal) ==
  /\ entry = "loaded" /\ i = latest /\ up
  /\ entry' = goal
  /\ GoTo(i, "stopping")
  /\ startup' = [startup EXCEPT ![i] = "none"]
  /\ UNCHANGED <<storage, process, latest, timer, closed, commands, faults>>

(* then stops the heartbeat: armed timers are cancelled, a probe goes on. *)
Stop(i) ==
  /\ At(i, "stopping")
  /\ closed' = closed \cup {i}
  /\ timer' = [timer EXCEPT ![i] =
                 [c \in Connectors |-> IF @[c] = "armed" THEN "off" ELSE @[c]]]
  /\ GoTo(i, "dead")
  /\ entry' = IF entry = "reloading" THEN "idle" ELSE "removing"
  /\ UNCHANGED <<storage, process, latest, startup, commands, faults>>

(* async_remove_entry removes the document through a repository of its own. *)
RemoveEntry ==
  /\ up /\ entry = "removing"
  /\ entry' = "removed"
  /\ judged' = judged \ {disk}
  /\ disk' = Nothing
  /\ UNCHANGED <<aside, process, latest, setup, background, commands, faults>>

-----------------------------------------------------------------------------
(* Commands.                                                                 *)

Ask(i) ==
  /\ At(i, "running") /\ call[i].pc = "idle"
  /\ Decode(disk).result = "loaded" /\ Decode(disk).gen < MaxCommits
  /\ call' = [call EXCEPT ![i] = [pc |-> "asked", gen |-> Decode(disk).gen, base |-> Nothing]]
  /\ checkpoint' = [checkpoint EXCEPT ![i] = Remembered(i)]
  /\ UNCHANGED <<storage, process, entry, latest, setup, background, faults>>

(* async_commit, under the lock of this repository: the generation is compared
   with the one on disk, then the document is replaced.                      *)
Compare(i) ==
  /\ call[i].pc = "asked"
  /\ IF Decode(disk) = [result |-> "loaded", gen |-> call[i].gen]
     THEN /\ call' = [call EXCEPT ![i] = [@ EXCEPT !.pc = "save", !.base = disk]]
          /\ checkpoint' = [checkpoint EXCEPT ![i] = Remembered(i)]
     ELSE call' = [call EXCEPT ![i] = NoCall] /\ UNCHANGED checkpoint
  /\ UNCHANGED <<storage, process, entry, latest, setup, background, faults>>

Written_Plain(i) == Encode(call[i].gen + 1, i, Nothing)
Written(i) == Encode(call[i].gen + 1, i, checkpoint[i])

Save(i) ==
  /\ call[i].pc = "save"
  /\ disk' = Written(i)
  /\ checkpoint' = [checkpoint EXCEPT ![i] = Nothing]
  /\ call' = [call EXCEPT ![i] = NoCall]
  /\ UNCHANGED <<aside, judged, process, entry, latest, setup, background, faults>>

-----------------------------------------------------------------------------
(* The process.                                                              *)

Crash ==
  /\ up /\ latest < MaxSetups
  /\ up' = FALSE /\ started' = FALSE
  /\ entry' = IF entry = "removed" THEN entry ELSE "idle"
  /\ setup' = [i \in Runtimes |-> [pc |-> IF i <= latest THEN "dead" ELSE "none", raw |-> Nothing]]
  /\ startup' = [i \in Runtimes |-> "none"]
  /\ timer' = [i \in Runtimes |-> [c \in Connectors |-> "off"]]
  /\ closed' = 1 .. latest
  /\ call' = [i \in Runtimes |-> NoCall]
  /\ checkpoint' = [i \in Runtimes |-> Nothing]
  /\ UNCHANGED <<storage, latest, tampers, faults>>

Tamper ==
  /\ ~up /\ tampers < MaxTampers
  /\ tampers' = tampers + 1
  /\ disk' \in Documents \ {disk}
  /\ judged' = judged \ {disk}
  /\ UNCHANGED <<aside, up, started, entry, latest, setup, background, commands, faults>>

Boot ==
  /\ ~up
  /\ up' = TRUE
  /\ UNCHANGED <<storage, started, tampers, entry, latest, setup, background, commands, faults>>

-----------------------------------------------------------------------------

SetupStep(i) == Load(i) \/ Recover(i) \/ Copy(i) \/ CopyFails(i) \/ Remove(i) \/ Reread(i) \/ Arm(i)

Next ==
  \/ SetUp \/ Started \/ RemoveEntry \/ Crash \/ Tamper \/ Boot
  \/ \E i \in Runtimes :
       \/ SetupStep(i) \/ InitialScan(i)
       \/ \E goal \in {"reloading", "retiring"} : Unload(i, goal)
       \/ Stop(i)
       \/ Ask(i) \/ Compare(i) \/ Save(i)
       \/ \E c \in Connectors : Probe(i, c) \/ ProbeEnds(i, c)

Spec == Init /\ [][Next]_vars

-----------------------------------------------------------------------------
(* Properties.                                                               *)

(* A document that was found unreadable is still there, as the document or as
   its copy, whatever step of setting it aside failed or was cut short
   (async_quarantine_corrupt_document); only the removal of the entry, or
   somebody outside, takes it away.                                          *)
CorruptIsKept == \A doc \in judged : disk = doc \/ doc \in aside

(* The document of an older release is replaced only by one that carries it
   whole as its checkpoint, so the migration can be undone until the commit
   after it, whichever runtime and command commits first (async_commit).     *)
MigrationIsReversible ==
  [][Older(disk) /\ up /\ disk' # disk =>
       \/ disk' # Nothing /\ disk'.checkpoint = disk
       \/ disk' = Nothing /\ (entry' = "removed" \/ disk \in aside)]_vars

(* A runtime that was shut down has nothing left that could act: no timer, no
   initial scan, also when a probe was under way when it was stopped and ends
   afterwards (ConnectorHeartbeat._tick, async_shutdown).                    *)
StoppedIsQuiet ==
  \A i \in Runtimes : At(i, "dead") =>
    startup[i] \notin {"waiting", "task"} /\ \A c \in Connectors : timer[i][c] # "armed"

=============================================================================
