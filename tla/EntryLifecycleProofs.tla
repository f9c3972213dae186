------------------------- MODULE EntryLifecycleProofs -------------------------
(***************************************************************************)
(* No document is lost and no stopped runtime acts, for any number of      *)
(* set-ups, connectors, commits and crashes, and whatever documents are    *)
(* found.                                                                  *)
(*                                                                         *)
(* Both arguments turn on who may be under way together: at most one       *)
(* runtime is in its set-up, but a command of an earlier runtime may still *)
(* save.  It does so only over a document that could be read, which is     *)
(* therefore none that a set-up is setting aside.                          *)
(***************************************************************************)
EXTENDS EntryLifecycle, TLAPS

InSetup == {"load", "recover", "copy", "remove", "reread", "arm"}
Timed == {"off", "armed", "probing"}
Scans == {"none", "waiting", "task", "done"}

Typed ==
  /\ latest \in 0 .. MaxSetups
  /\ setup = [i \in Runtimes |-> setup[i]]
  /\ call = [i \in Runtimes |-> call[i]]
  /\ checkpoint = [i \in Runtimes |-> checkpoint[i]]
  /\ startup \in [Runtimes -> Scans]
  /\ timer \in [Runtimes -> [Connectors -> Timed]]
  /\ up \in BOOLEAN

(* Only the latest runtime is set up or stopped, and the entry says so. *)
OneAtATime ==
  \A i \in Runtimes :
    /\ setup[i].pc \in InSetup => entry = "setup" /\ i = latest
    /\ setup[i].pc = "stopping" => entry \in {"reloading", "retiring"} /\ i = latest
    /\ i > latest => setup[i].pc = "none"

(* While Home Assistant is down nothing is under way. *)
DownIsIdle ==
  ~up => \A i \in Runtimes : setup[i].pc \in {"none", "dead"} /\ call[i].pc = "idle"

(* What is being set aside is the document on disk, and it is unreadable. *)
SettingAside ==
  \A i \in Runtimes :
    /\ setup[i].pc \in {"recover", "copy", "remove"} => Decode(disk).result = "corrupt"
    /\ setup[i].pc = "copy" => setup[i].raw = disk
    /\ setup[i].pc = "remove" => disk \in aside

(* A command that is about to save has read the document it replaces. *)
SavesReadable ==
  \A i \in Runtimes :
    call[i].pc = "save" =>
      Decode(disk).result # "corrupt" /\ (Older(disk) => checkpoint[i] = disk)

JudgedIsCorrupt == \A doc \in judged : Decode(doc).result = "corrupt"

KeepInv ==
  /\ Typed /\ OneAtATime /\ DownIsIdle
  /\ SettingAside /\ SavesReadable /\ JudgedIsCorrupt
  /\ CorruptIsKept

-----------------------------------------------------------------------------

(* No document is read as the empty state. *)
LEMMA NothingLoads == Decode(Nothing).result = "loaded" /\ ~Older(Nothing)
BY DEF Decode, Empty, Older

(* What a command writes can be read and is of the current schema. *)
LEMMA WrittenLoads ==
  ASSUME NEW i \in Runtimes
  PROVE  Decode(Written(i)).result = "loaded" /\ ~Older(Written(i))
<1> DEFINE doc == Written(i)
<1>1. /\ doc.version = 10 /\ doc.covers = TRUE /\ doc.body = "valid" /\ doc.whole = TRUE
      /\ doc.journal # "open"
  BY DEF Written, Encode, Schema
<1>2. doc # Nothing
  BY <1>1 DEF Nothing
<1>3. ~Older(doc)
  BY <1>1 DEF Older, Schema
<1>4. ~Recovers(doc)
  BY <1>1 DEF Recovers
<1>5. ReadPlain(doc) = Decoded(doc)
  <2> HIDE DEF doc
  <2>1. ReadPlain(doc) = ReadCurrent(doc)
    BY <1>1 DEF ReadPlain, Schema
  <2> QED BY <1>1, <2>1 DEF ReadCurrent, Checked
<1>6. Decode(doc) = Decoded(doc)
  BY <1>2, <1>4, <1>5 DEF Decode
<1> QED BY <1>1, <1>3, <1>6 DEF Decoded

(* The invariant holds at first. *)
LEMMA InitKeep == Init => KeepInv
BY EntryAssumption, NothingLoads
   DEF Init, KeepInv, Typed, OneAtATime, DownIsIdle, SettingAside, SavesReadable,
       JudgedIsCorrupt, CorruptIsKept, Runtimes, NoCall, InSetup, Scans, Timed

(* A step keeps the types. *)
LEMMA TypingStep == ASSUME Typed, [Next]_vars PROVE Typed'
<1> USE DEF Typed, storage, process, background, commands
<1>1. CASE SetUp
  <2>1. latest' \in 0 .. MaxSetups
    BY <1>1, EntryAssumption DEF SetUp
  <2>2. setup' = [i \in Runtimes |-> setup'[i]]
    BY <1>1 DEF SetUp, GoTo
  <2> QED BY <1>1, <2>1, <2>2 DEF SetUp
<1>2. CASE Started
  BY <1>2 DEF Started, Scans
<1>3. CASE RemoveEntry \/ Tamper \/ Boot
  BY <1>3 DEF RemoveEntry, Tamper, Boot
<1>4. CASE Crash
  BY <1>4 DEF Crash, Scans, Timed
<1>5. ASSUME NEW i \in Runtimes, SetupStep(i) PROVE Typed'
  <2>1. CASE Load(i)
    BY <2>1 DEF Load, GoTo, GiveUp
  <2>2. CASE Recover(i)
    BY <2>2 DEF Recover, GoTo
  <2>3. CASE Copy(i) \/ CopyFails(i)
    BY <2>3 DEF Copy, CopyFails, GoTo, GiveUp
  <2>4. CASE Remove(i) \/ Reread(i)
    BY <2>4 DEF Remove, Reread, GoTo, GiveUp
  <2>5. CASE Arm(i)
    BY <2>5 DEF Arm, GoTo, Scans, Timed
  <2> QED BY <1>5, <2>1, <2>2, <2>3, <2>4, <2>5 DEF SetupStep
<1>6. ASSUME NEW i \in Runtimes, InitialScan(i) PROVE Typed'
  BY <1>6 DEF InitialScan, Scans
<1>7. ASSUME NEW i \in Runtimes, NEW goal, Unload(i, goal) PROVE Typed'
  BY <1>7 DEF Unload, GoTo, Scans
<1>8. ASSUME NEW i \in Runtimes, Stop(i) PROVE Typed'
  BY <1>8 DEF Stop, GoTo, Timed
<1>9. ASSUME NEW i \in Runtimes, Ask(i) \/ Compare(i) \/ Save(i) PROVE Typed'
  BY <1>9 DEF Ask, Compare, Save
<1>10. ASSUME NEW i \in Runtimes, NEW c \in Connectors, Probe(i, c) \/ ProbeEnds(i, c)
       PROVE Typed'
  <2>1. PICK to \in Timed : timer' = [timer EXCEPT ![i][c] = to]
    BY <1>10 DEF Probe, ProbeEnds, Beat, Rearmed, Timed
  <2>2. timer' \in [Runtimes -> [Connectors -> Timed]]
    BY <2>1
  <2> QED BY <1>10, <2>2 DEF Probe, ProbeEnds, Beat
<1>11. CASE UNCHANGED vars
  BY <1>11 DEF vars
<1> QED BY <1>1, <1>2, <1>3, <1>4, <1>5, <1>6, <1>7, <1>8, <1>9, <1>10, <1>11 DEF Next

(* Every step keeps the unreadable document and what protects it. *)
LEMMA KeepStep == ASSUME KeepInv, [Next]_vars PROVE KeepInv'
<1>1. Typed'
  BY TypingStep DEF KeepInv
<1> USE <1>1 DEF KeepInv, Typed, OneAtATime, DownIsIdle, SettingAside, SavesReadable,
        JudgedIsCorrupt, CorruptIsKept, At, GoTo, InSetup, storage, process, background, commands
<1>2. CASE SetUp
  <2>1. latest + 1 \in Runtimes /\ up /\ entry \notin {"setup", "reloading", "retiring"}
    BY <1>2, EntryAssumption DEF SetUp, Runtimes
  <2>2. \A i \in Runtimes :
          setup'[i].pc = IF i = latest + 1 THEN "load" ELSE setup[i].pc
    BY <1>2, <2>1 DEF SetUp
  <2>3. OneAtATime'
    BY <1>2, <2>1, <2>2, EntryAssumption DEF SetUp, Runtimes
  <2>4. SettingAside'
    BY <1>2, <2>1, <2>2 DEF SetUp
  <2>5. DownIsIdle' /\ SavesReadable' /\ JudgedIsCorrupt' /\ CorruptIsKept'
    BY <1>2, <2>1 DEF SetUp
  <2> QED BY <2>3, <2>4, <2>5
<1>3. CASE Started
  BY <1>3 DEF Started
<1>4. CASE RemoveEntry
  BY <1>4, NothingLoads DEF RemoveEntry
<1>5. CASE Crash
  <2>1. \A i \in Runtimes :
          /\ setup'[i].pc = IF i <= latest THEN "dead" ELSE "none"
          /\ call'[i].pc = "idle"
    BY <1>5 DEF Crash, NoCall
  <2>2. OneAtATime'
    BY <1>5, <2>1, EntryAssumption DEF Crash, Runtimes
  <2>3. DownIsIdle' /\ SettingAside' /\ SavesReadable'
    BY <2>1
  <2> QED BY <1>5, <2>2, <2>3 DEF Crash
<1>6. CASE Tamper
  BY <1>6 DEF Tamper
<1>7. CASE Boot
  BY <1>7 DEF Boot
<1>8. ASSUME NEW i \in Runtimes, Load(i) PROVE KeepInv'
  <2>1. up /\ i = latest /\ entry = "setup"
    BY <1>8 DEF Load
  <2>2. \A j \in Runtimes : j # i => setup'[j] = setup[j]
    BY <1>8 DEF Load, GiveUp
  <2>3. setup'[i].pc \in {"arm", "recover", "dead"}
        /\ (setup'[i].pc = "recover" => Decode(disk).result = "corrupt")
        /\ (setup'[i].pc # "dead" => entry' = entry)
    BY <1>8 DEF Load, GiveUp
  <2>4. OneAtATime'
    BY <1>8, <2>1, <2>2, <2>3, EntryAssumption DEF Load, Runtimes
  <2>5. SettingAside'
    BY <1>8, <2>1, <2>2, <2>3 DEF Load
  <2>6. SavesReadable'
    BY <1>8 DEF Load, Remembered
  <2>7. DownIsIdle' /\ JudgedIsCorrupt' /\ CorruptIsKept'
    BY <1>8, <2>1 DEF Load
  <2> QED BY <2>4, <2>5, <2>6, <2>7
<1>9. ASSUME NEW i \in Runtimes, Recover(i) PROVE KeepInv'
  <2>1. up /\ i = latest /\ entry = "setup" /\ Decode(disk).result = "corrupt"
    BY <1>9 DEF Recover
  <2>2. setup' = [setup EXCEPT ![i] = [pc |-> "copy", raw |-> disk]]
    BY <1>9, <2>1, NothingLoads DEF Recover
  <2>3. \A j \in Runtimes : j # i => setup'[j] = setup[j]
    BY <2>2
  <2>4. setup'[i].pc = "copy" /\ setup'[i].raw = disk
    BY <2>2
  <2>5. OneAtATime'
    BY <1>9, <2>1, <2>3, <2>4, EntryAssumption DEF Recover, Runtimes
  <2>6. SettingAside'
    BY <1>9, <2>1, <2>3, <2>4, SMTT(30) DEF Recover
  <2> QED BY <1>9, <2>1, <2>5, <2>6 DEF Recover
<1>10. ASSUME NEW i \in Runtimes, Copy(i) PROVE KeepInv'
  BY <1>10 DEF Copy
<1>11. ASSUME NEW i \in Runtimes, CopyFails(i) PROVE KeepInv'
  BY <1>11 DEF CopyFails, GiveUp
<1>12. ASSUME NEW i \in Runtimes, Remove(i) PROVE KeepInv'
  BY <1>12, NothingLoads DEF Remove
<1>13. ASSUME NEW i \in Runtimes, Reread(i) PROVE KeepInv'
  BY <1>13 DEF Reread, GiveUp, Remembered
<1>14. ASSUME NEW i \in Runtimes, Arm(i) PROVE KeepInv'
  BY <1>14, ZenonT(40) DEF Arm
<1>15. ASSUME NEW i \in Runtimes, InitialScan(i) PROVE KeepInv'
  BY <1>15 DEF InitialScan
<1>16. ASSUME NEW i \in Runtimes, NEW goal \in {"reloading", "retiring"}, Unload(i, goal)
       PROVE  KeepInv'
  BY <1>16 DEF Unload
<1>17. ASSUME NEW i \in Runtimes, Stop(i) PROVE KeepInv'
  BY <1>17 DEF Stop
<1>18. ASSUME NEW i \in Runtimes, Ask(i) PROVE KeepInv'
  BY <1>18 DEF Ask, Remembered
<1>19. ASSUME NEW i \in Runtimes, Compare(i) PROVE KeepInv'
  <2>1. up
    BY <1>19 DEF Compare
  <2>2. \A j \in Runtimes : j # i => call'[j] = call[j] /\ checkpoint'[j] = checkpoint[j]
    BY <1>19 DEF Compare
  <2>3. CASE Decode(disk) = [result |-> "loaded", gen |-> call[i].gen]
    BY <1>19, <2>1, <2>2, <2>3, SMTT(30) DEF Compare, Remembered
  <2>4. CASE Decode(disk) # [result |-> "loaded", gen |-> call[i].gen]
    BY <1>19, <2>1, <2>2, <2>4, SMTT(30) DEF Compare, NoCall
  <2> QED BY <2>3, <2>4
<1>20. ASSUME NEW i \in Runtimes, Save(i) PROVE KeepInv'
  BY <1>20, WrittenLoads DEF Save, NoCall
<1>21. ASSUME NEW i \in Runtimes, NEW c \in Connectors, Probe(i, c) \/ ProbeEnds(i, c)
       PROVE  KeepInv'
  BY <1>21 DEF Probe, ProbeEnds, Beat
<1>22. CASE UNCHANGED vars
  BY <1>22 DEF vars
<1> QED
  BY <1>2, <1>3, <1>4, <1>5, <1>6, <1>7, <1>8, <1>9, <1>10, <1>11, <1>12, <1>13, <1>14,
     <1>15, <1>16, <1>17, <1>18, <1>19, <1>20, <1>21, <1>22 DEF Next, SetupStep

(* A document that was found unreadable is in its place or beside it, whatever
   set-up, command or crash comes in between (async_quarantine_corrupt_document). *)
THEOREM CorruptDocumentsAreKept == Spec => []CorruptIsKept
<1>1. KeepInv /\ [Next]_vars => KeepInv'
  BY KeepStep
<1>2. KeepInv => CorruptIsKept
  BY DEF KeepInv
<1> QED BY InitKeep, <1>1, <1>2, PTL DEF Spec

(* The commit that replaces a document of an older release carries that document,
   whichever command makes it (async_commit, _pending_migration_checkpoint). *)
THEOREM MigrationsAreReversible == Spec => MigrationIsReversible
<1> DEFINE Replaced ==
      Older(disk) /\ up /\ disk' # disk =>
        \/ disk' # Nothing /\ disk'.checkpoint = disk
        \/ disk' = Nothing /\ (entry' = "removed" \/ disk \in aside)
<1>1. ASSUME KeepInv, Next PROVE Replaced
  <2> SUFFICES ASSUME Older(disk), up, disk' # disk PROVE Replaced
    OBVIOUS
  <2> USE <1>1 DEF KeepInv, storage, process, background, commands
  <2>1. CASE RemoveEntry
    BY <2>1 DEF RemoveEntry
  <2>2. ASSUME NEW i \in Runtimes, Remove(i) PROVE Replaced
    BY <2>2 DEF Remove, At, SettingAside
  <2>3. ASSUME NEW i \in Runtimes, Save(i) PROVE Replaced
    <3>1. disk' = Written(i) /\ checkpoint[i] = disk
      BY <2>3 DEF Save, SavesReadable
    <3>2. disk'.checkpoint = disk /\ disk'.version = 10
      BY <3>1 DEF Written, Encode, Schema
    <3> QED BY <3>2 DEF Nothing
  <2>4. CASE SetUp \/ Started \/ Crash \/ Tamper \/ Boot
    BY <2>4 DEF SetUp, Started, Crash, Tamper, Boot
  <2>5. ASSUME NEW i \in Runtimes, SetupStep(i), ~Remove(i) PROVE Replaced
    BY <2>5 DEF SetupStep, Load, Recover, Copy, CopyFails, Reread, Arm
  <2>6. ASSUME NEW i \in Runtimes, NEW goal,
               InitialScan(i) \/ Unload(i, goal) \/ Stop(i) \/ Ask(i) \/ Compare(i)
        PROVE  Replaced
    BY <2>6 DEF InitialScan, Unload, Stop, Ask, Compare
  <2>7. ASSUME NEW i \in Runtimes, NEW c, Probe(i, c) \/ ProbeEnds(i, c) PROVE Replaced
    BY <2>7 DEF Probe, ProbeEnds, Beat
  <2> QED BY <2>1, <2>2, <2>3, <2>4, <2>5, <2>6, <2>7 DEF Next
<1>2. KeepInv /\ [Next]_vars => [Replaced]_vars
  BY <1>1
<1>3. KeepInv /\ [Next]_vars => KeepInv'
  BY KeepStep
<1> QED BY InitKeep, <1>2, <1>3, PTL DEF Spec, MigrationIsReversible

-----------------------------------------------------------------------------

(* Before its set-up ends a runtime has armed nothing. *)
NotYetArmed ==
  \A i \in Runtimes :
    setup[i].pc \in InSetup \union {"none"} =>
      startup[i] = "none" /\ \A c \in Connectors : timer[i][c] = "off"

(* The initial scan is released before the heartbeat is stopped, and a probe
   that goes on belongs to a heartbeat known to be stopped. *)
ReleasedFirst ==
  \A i \in Runtimes :
    /\ setup[i].pc \in {"stopping", "dead"} => startup[i] \notin {"waiting", "task"}
    /\ setup[i].pc = "dead" =>
         \A c \in Connectors : timer[i][c] = "off" \/ (timer[i][c] = "probing" /\ i \in closed)

QuietInv == KeepInv /\ NotYetArmed /\ ReleasedFirst

(* The invariant holds at first. *)
LEMMA InitQuiet == Init => QuietInv
BY InitKeep DEF Init, QuietInv, NotYetArmed, ReleasedFirst, Runtimes

(* Every step keeps stopped runtimes stopped. *)
LEMMA QuietStep == 
  ASSUME Typed, OneAtATime, NotYetArmed, ReleasedFirst, [Next]_vars
  PROVE  NotYetArmed' /\ ReleasedFirst'
<1> DEFINE Quiet == NotYetArmed /\ ReleasedFirst
<1> USE DEF Typed, OneAtATime, NotYetArmed, ReleasedFirst, At, GoTo, InSetup, storage, process,
        background, commands
<1>2. CASE SetUp
  <2>1. latest + 1 \in Runtimes /\ setup[latest + 1].pc = "none"
    BY <1>2, EntryAssumption DEF SetUp, Runtimes
  <2>2. \A i \in Runtimes :
          setup'[i].pc = IF i = latest + 1 THEN "load" ELSE setup[i].pc
    BY <1>2, <2>1 DEF SetUp
  <2> QED BY <1>2, <2>1, <2>2 DEF SetUp
<1>3. CASE Started
  BY <1>3 DEF Started
<1>4. CASE RemoveEntry \/ Tamper \/ Boot
  BY <1>4 DEF RemoveEntry, Tamper, Boot
<1>5. CASE Crash
  <2>1. \A i \in Runtimes :
          startup'[i] = "none" /\ \A c \in Connectors : timer'[i][c] = "off"
    BY <1>5 DEF Crash
  <2> QED BY <2>1
<1>6. ASSUME NEW i \in Runtimes, Load(i) \/ Recover(i) \/ Copy(i) \/ CopyFails(i) PROVE Quiet'
  <2>1. /\ i \in Runtimes /\ setup[i].pc \in InSetup
        /\ startup' = startup /\ timer' = timer /\ closed' = closed
    BY <1>6 DEF Load, Recover, Copy, CopyFails
  <2>2. \A j \in Runtimes : j # i => setup'[j] = setup[j]
    BY <1>6 DEF Load, Recover, Copy, CopyFails, GiveUp
  <2>3. startup[i] = "none" /\ \A c \in Connectors : timer[i][c] = "off"
    BY <2>1
  <2>4. NotYetArmed'
    BY <2>1, <2>2, <2>3
  <2>5. ReleasedFirst'
    BY <2>1, <2>2, <2>3
  <2> QED BY <2>4, <2>5
<1>7. ASSUME NEW i \in Runtimes, Remove(i) \/ Reread(i) PROVE Quiet'
  <2>1. /\ i \in Runtimes /\ setup[i].pc \in InSetup
        /\ startup' = startup /\ timer' = timer /\ closed' = closed
    BY <1>7 DEF Remove, Reread
  <2>2. \A j \in Runtimes : j # i => setup'[j] = setup[j]
    BY <1>7 DEF Remove, Reread, GiveUp
  <2>3. startup[i] = "none" /\ \A c \in Connectors : timer[i][c] = "off"
    BY <2>1
  <2>4. NotYetArmed'
    BY <2>1, <2>2, <2>3
  <2>5. ReleasedFirst'
    BY <2>1, <2>2, <2>3
  <2> QED BY <2>4, <2>5
<1>8. ASSUME NEW i \in Runtimes, Arm(i) PROVE Quiet'
  BY <1>8 DEF Arm
<1>9. ASSUME NEW i \in Runtimes, InitialScan(i) PROVE Quiet'
  BY <1>9 DEF InitialScan
<1>10. ASSUME NEW i \in Runtimes, NEW goal, Unload(i, goal) PROVE Quiet'
  BY <1>10 DEF Unload
<1>11. ASSUME NEW i \in Runtimes, Stop(i) PROVE Quiet'
  BY <1>11 DEF Stop, Timed
<1>12. ASSUME NEW i \in Runtimes, Ask(i) \/ Compare(i) \/ Save(i) PROVE Quiet'
  BY <1>12 DEF Ask, Compare, Save
<1>13. ASSUME NEW i \in Runtimes, NEW c \in Connectors, Probe(i, c) \/ ProbeEnds(i, c)
       PROVE  Quiet'
  <2>1. setup' = setup /\ startup' = startup /\ closed' = closed
    BY <1>13 DEF Probe, ProbeEnds, Beat
  <2>2. timer[i][c] # "off"
    BY <1>13 DEF Probe, ProbeEnds, Beat
  <2>3. setup[i].pc \notin InSetup \union {"none"}
    BY <2>2
  <2>4. \A j \in Runtimes, d \in Connectors : j # i \/ d # c => timer'[j][d] = timer[j][d]
    BY <1>13 DEF Probe, ProbeEnds, Beat
  <2>5. setup[i].pc = "dead" => i \in closed /\ timer[i][c] = "probing" /\ timer'[i][c] = "off"
    BY <1>13, <2>2 DEF Probe, ProbeEnds, Beat, Rearmed
  <2>6. NotYetArmed'
    BY <2>1, <2>3, <2>4
  <2>7. ReleasedFirst'
    BY <2>1, <2>4, <2>5
  <2> QED BY <2>6, <2>7
<1>14. CASE UNCHANGED vars
  BY <1>14 DEF vars
<1> QED
  BY <1>2, <1>3, <1>4, <1>5, <1>6, <1>7, <1>8, <1>9, <1>10, <1>11, <1>12, <1>13, <1>14
     DEF Next, SetupStep

(* Whatever was under way when a runtime was shut down, it arms nothing afterwards
   (ConnectorHeartbeat._tick, async_shutdown). *)
THEOREM StoppedRuntimesAreQuiet == Spec => []StoppedIsQuiet
<1>1. QuietInv /\ [Next]_vars => QuietInv'
  BY KeepStep, QuietStep DEF QuietInv, KeepInv
<1>2. QuietInv => StoppedIsQuiet
  BY DEF QuietInv, ReleasedFirst, StoppedIsQuiet, At
<1> QED BY InitQuiet, <1>1, <1>2, PTL DEF Spec

=============================================================================
