------------------------------- MODULE Persist -------------------------------
(***************************************************************************)
(* Deferred persistence of pkg/webadmin/persist.go, for one store.  A store *)
(* changes its contents under its own lock and then either marks itself     *)
(* dirty, for the background loop to save, or saves at once                 *)
(* (flushNowBlocking).  The steps of a save are actions of their own, so    *)
(* that other goroutines may change the store between any two of them.      *)
(*                                                                          *)
(* The store using this module owns data and says, in its own actions, when *)
(* a goroutine enters stage "mark" or "clear" and what it does after        *)
(* "saved" and "failed".                                                    *)
(***************************************************************************)
CONSTANTS
  Worker,     \* request handlers
  Loop,       \* the goroutine persistLoop
  Nobody,     \* the holder of a free lock
  DiskFails   \* whether a write may fail

ASSUME LoopAssumption == Loop \notin Worker /\ Nobody \notin Worker \cup {Loop}

VARIABLES
  data,        \* the contents in memory
  disk,        \* the contents of the file
  dirty,       \* p.dirty
  registered,  \* the store is in persistList, which the loop goes through
  writing,     \* the holder of p.writeMu
  image,       \* <<the copy>> a goroutine is about to write, or <<>>
  stage,       \* where each goroutine is in persist.go
  poisoned,    \* the store's lock is held by a handler that panicked
  failed       \* history: some write has failed

persistVars == <<data, disk, dirty, registered, writing, image, stage, poisoned, failed>>

Process == Worker \cup {Loop}
Stages == {"idle", "mark", "clear", "acquire", "write", "saved", "failed"}

\* The file is only ever replaced as a whole (writeFileAtomic), under writeMu.
PersistInit(contents) ==
  /\ data = contents
  /\ disk = contents
  /\ dirty = FALSE
  /\ registered = FALSE
  /\ writing = Nobody
  /\ image = [p \in Process |-> <<>>]
  /\ stage = [p \in Process |-> "idle"]
  /\ poisoned = FALSE
  /\ failed = FALSE

GoTo(p, s) == stage' = [stage EXCEPT ![p] = s]

-----------------------------------------------------------------------------
\* markDirty: the first one also puts the store on the loop's list.
MarkDirty(p) ==
  /\ stage[p] = "mark"
  /\ dirty' = TRUE
  /\ registered' = TRUE
  /\ GoTo(p, "idle")
  /\ UNCHANGED <<data, disk, writing, image, poisoned, failed>>

\* A tick of the loop: flushPending of a registered store that is dirty.
Tick ==
  /\ stage[Loop] = "idle"
  /\ registered
  /\ dirty
  /\ dirty' = FALSE
  /\ GoTo(Loop, "acquire")
  /\ UNCHANGED <<data, disk, registered, writing, image, poisoned, failed>>

\* flushNowBlocking clears the flag before it has the write lock.
ClearDirty(p) ==
  /\ stage[p] = "clear"
  /\ dirty' = FALSE
  /\ GoTo(p, "acquire")
  /\ UNCHANGED <<data, disk, registered, writing, image, poisoned, failed>>

\* Mutant: the copy is made and written without writeMu.
SnapshotUnlocked(p) ==
  /\ stage[p] = "acquire"
  /\ ~poisoned
  /\ writing' = p
  /\ image' = [image EXCEPT ![p] = <<data>>]
  /\ GoTo(p, "write")
  /\ UNCHANGED <<data, disk, dirty, registered, poisoned, failed>>

\* writeMu.Lock(), then flush copies the contents under the store's lock.
Snapshot(p) ==
  /\ stage[p] = "acquire"
  /\ writing = Nobody
  /\ ~poisoned
  /\ writing' = p
  /\ image' = [image EXCEPT ![p] = <<data>>]
  /\ GoTo(p, "write")
  /\ UNCHANGED <<data, disk, dirty, registered, poisoned, failed>>

\* Mutant: the flag is cleared when the write is over, not before the copy.
WriteSucceedsAndClears(p) ==
  /\ stage[p] = "write"
  /\ disk' = image[p][1]
  /\ dirty' = FALSE
  /\ writing' = Nobody
  /\ image' = [image EXCEPT ![p] = <<>>]
  /\ GoTo(p, IF p = Loop THEN "idle" ELSE "saved")
  /\ UNCHANGED <<data, registered, poisoned, failed>>

WriteSucceeds(p) ==
  /\ stage[p] = "write"
  /\ disk' = image[p][1]
  /\ writing' = Nobody
  /\ image' = [image EXCEPT ![p] = <<>>]
  /\ GoTo(p, IF p = Loop THEN "idle" ELSE "saved")
  /\ UNCHANGED <<data, dirty, registered, poisoned, failed>>

\* The store is dirty again; the loop only logs the error.
WriteFails(p) ==
  /\ DiskFails
  /\ stage[p] = "write"
  /\ dirty' = TRUE
  /\ writing' = Nobody
  /\ failed' = TRUE
  /\ image' = [image EXCEPT ![p] = <<>>]
  /\ GoTo(p, IF p = Loop THEN "idle" ELSE "failed")
  /\ UNCHANGED <<data, disk, registered, poisoned>>

PersistStep(p) ==
  \/ MarkDirty(p) \/ ClearDirty(p) \/ Snapshot(p) \/ WriteSucceeds(p) \/ WriteFails(p)

\* The process ends and starts again: the file is all that is left.
Reload ==
  /\ data' = disk
  /\ dirty' = FALSE
  /\ registered' = FALSE
  /\ writing' = Nobody
  /\ stage' = [p \in Process |-> "idle"]
  /\ poisoned' = FALSE
  /\ image' = [p \in Process |-> <<>>]
  /\ UNCHANGED <<disk, failed>>

-----------------------------------------------------------------------------
\* The contents the file will have once the write in progress is over.
Settled == IF writing = Nobody THEN disk ELSE image[writing][1]

\* Nothing is forgotten: as long as no write has failed, a change that is not on
\* its way to the file is still announced by the dirty flag or by a goroutine
\* that is about to mark or to save.  It is the flag's being cleared before the
\* write lock is taken, and the copy's being made after, that could lose one.
NothingForgotten ==
  ~failed /\ data # Settled =>
    dirty \/ \E p \in Process : stage[p] \in {"mark", "clear", "acquire"}
=============================================================================
