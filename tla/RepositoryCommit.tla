-------------------------- MODULE RepositoryCommit --------------------------
(***************************************************************************)
(* The optimistic commit loop every repository writer runs                 *)
(* (application/remediation/coordinator.py, locks.py, service.py:          *)
(* _commit_with_retry) over the one-document store of                      *)
(* infrastructure/storage.py (HomeAssistantStoreRepository).               *)
(*                                                                         *)
(* Every await is a point where other calls run: the load, the wait for    *)
(* the commit lock, the load under the lock, the save.  The document is    *)
(* reduced to its generation and to the updates it contains.  The lock is  *)
(* FIFO in the code; here any waiting call may be next.                    *)
(*                                                                         *)
(* A definition Name_Variant is a plausible bug in Name: the check of a    *)
(* property is worth something because the variant breaks it.              *)
(***************************************************************************)
EXTENDS Naturals, Sequences

CONSTANTS
  Writers,            \* the concurrent calls of _commit_with_retry
  MaxAttempts,        \* MAX_COMMIT_ATTEMPTS = MAX_ACQUIRE_ATTEMPTS = 5
  MaxCrashes,         \* bound on the restarts of Home Assistant
  NoWriter            \* nobody holds the commit lock

ASSUME AttemptsAssumption == MaxAttempts \in Nat \ {0}
ASSUME NoWriterAssumption == NoWriter \notin Writers

VARIABLES
  disk,               \* the stored document
  commitLock,         \* the holder of _commit_lock, or NoWriter
  pc,                 \* where each call is
  loaded,             \* the document each call last loaded
  attempt,            \* the generation conflicts each call has met
  crashes             \* restarts so far

vars == <<disk, commitLock, pc, loaded, attempt, crashes>>

Document == [generation : Nat, history : Seq(Writers)]

EmptyDocument == [generation |-> 0, history |-> <<>>]

Ended == {"done", "exhausted", "raised", "lost"}

Places == {"load", "commit", "check", "save"} \union Ended

TypeOK ==
  /\ disk \in Document
  /\ commitLock \in Writers \union {NoWriter}
  /\ pc \in [Writers -> Places]
  /\ loaded \in [Writers -> Document]
  /\ attempt \in [Writers -> 0 .. MaxAttempts]
  /\ crashes \in Nat

Init ==
  /\ disk = EmptyDocument
  /\ commitLock = NoWriter
  /\ pc = [w \in Writers |-> "load"]
  /\ loaded = [w \in Writers |-> EmptyDocument]
  /\ attempt = [w \in Writers |-> 0]
  /\ crashes = 0

(* async_commit's test: nobody has committed since the caller's load. *)
SameGeneration_Unchecked(w) == TRUE

SameGeneration(w) == disk.generation = loaded[w].generation

NextDocument(w) ==
  [generation |-> loaded[w].generation + 1, history |-> Append(loaded[w].history, w)]

(* async with self._commit_lock: entering and leaving the block. *)
CommitLockFree_Always(w) == TRUE

CommitLockFree(w) == commitLock = NoWriter

LeaveCommit(w) == commitLock' = NoWriter

NoAttemptLeft(conflicts) == conflicts = MaxAttempts

(* state = await repository.async_load() *)
Load(w) ==
  /\ pc[w] = "load"
  /\ loaded' = [loaded EXCEPT ![w] = disk]
  /\ pc' = [pc EXCEPT ![w] = "commit"]
  /\ UNCHANGED <<disk, commitLock, attempt, crashes>>

(* async with self._commit_lock *)
EnterCommit(w) ==
  /\ pc[w] = "commit"
  /\ CommitLockFree(w)
  /\ commitLock' = w
  /\ pc' = [pc EXCEPT ![w] = "check"]
  /\ UNCHANGED <<disk, loaded, attempt, crashes>>

(* The generation is still the one the call loaded: the save may start. *)
CheckPasses(w) ==
  /\ pc[w] = "check"
  /\ SameGeneration(w)
  /\ pc' = [pc EXCEPT ![w] = "save"]
  /\ UNCHANGED <<disk, commitLock, loaded, attempt, crashes>>

(* GenerationConflictError: the call starts over, or gives up. *)
CheckConflicts(w) ==
  /\ pc[w] = "check"
  /\ ~SameGeneration(w)
  /\ attempt' = [attempt EXCEPT ![w] = @ + 1]
  /\ pc' = [pc EXCEPT ![w] =
              IF NoAttemptLeft(attempt[w] + 1) THEN "exhausted" ELSE "load"]
  /\ LeaveCommit(w)
  /\ UNCHANGED <<disk, loaded, crashes>>

(* The whole document is replaced by the caller's next state, computed from
   the document it loaded. *)
Save(w) ==
  /\ pc[w] = "save"
  /\ disk' = NextDocument(w)
  /\ pc' = [pc EXCEPT ![w] = "done"]
  /\ LeaveCommit(w)
  /\ UNCHANGED <<loaded, attempt, crashes>>

(* The save raises: the lock is left, the exception reaches the caller. *)
SaveRaises(w) ==
  /\ pc[w] = "save"
  /\ pc' = [pc EXCEPT ![w] = "raised"]
  /\ LeaveCommit(w)
  /\ UNCHANGED <<disk, loaded, attempt, crashes>>

(* Home Assistant stops and starts: only the stored document survives. *)
Crash ==
  /\ crashes < MaxCrashes
  /\ crashes' = crashes + 1
  /\ commitLock' = NoWriter
  /\ pc' = [w \in Writers |-> IF pc[w] \in Ended THEN pc[w] ELSE "lost"]
  /\ UNCHANGED <<disk, loaded, attempt>>

Step(w) ==
  \/ Load(w)
  \/ EnterCommit(w)
  \/ CheckPasses(w)
  \/ CheckConflicts(w)
  \/ Save(w)
  \/ SaveRaises(w)

Next == Crash \/ \E w \in Writers : Step(w)

(* The event loop runs every call that can run. *)
Fairness == \A w \in Writers : WF_vars(Step(w))

Spec == Init /\ [][Next]_vars

FairSpec == Spec /\ Fairness

-----------------------------------------------------------------------------

Outcome ==
  [w \in Writers |-> CASE pc[w] = "done" -> "applied"
                       [] pc[w] \in {"exhausted", "raised", "lost"} -> "refused"
                       [] OTHER -> "pending"]

Atomic == INSTANCE AtomicUpdate WITH history <- disk.history, outcome <- Outcome

(* Each call's load, check and save, with everything that runs in between,
   amounts to one atomic update or to none: no writer ever loses another's
   update (coordinator.py _commit_with_retry, storage.py async_commit). *)
ImplementsAtomicUpdate == Atomic!Spec

(* The generation counts the commits, so a call that meets a conflict has
   been overtaken by a commit since its last load: it cannot spend its
   attempts on a document nobody else changes. *)
ConflictsAreCommits ==
  /\ disk.generation = Len(disk.history)
  /\ \A w \in Writers : attempt[w] <= disk.generation

(* The save in progress is based on the document as it is on disk. *)
SaveIsCurrent ==
  \A w \in Writers :
    /\ pc[w] \in {"check", "save"} => commitLock = w
    /\ pc[w] = "save" => loaded[w] = disk

=============================================================================
