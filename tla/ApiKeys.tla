------------------------------- MODULE ApiKeys -------------------------------
(***************************************************************************)
(* The API key store of pkg/webadmin/keys.go on top of Persist: handlers    *)
(* create, delete, revoke and update keys and authenticate requests.  An    *)
(* administrative change is made in memory, saved at once and, when the     *)
(* save fails, taken back - by the index the handler remembered, although   *)
(* other handlers may have changed the list in the meantime.                *)
(***************************************************************************)
EXTENDS Persist, Naturals, Sequences, SequencesExt

CONSTANTS
  KeyId,    \* ids that create may draw (random in the code: never repeated)
  NoKey,    \* the argument of a handler that has none
  MaxOps    \* bound: operations that handlers start

ASSUME MaxOpsAssumption == MaxOps \in Nat

VARIABLES
  op,       \* the operation each handler is in: kind, id, index, record
  fate,     \* history: what the callers were told about each id
  down,     \* the server has been shut down
  ops       \* operations started so far (MaxOps)

vars == <<persistVars, op, fate, down, ops>>

Key == [id: KeyId, revoked: BOOLEAN, used: BOOLEAN]
NewKey(id) == [id |-> id, revoked |-> FALSE, used |-> FALSE]
NoOp == [kind |-> "none", id |-> NoKey, index |-> 0, record |-> <<>>]
Operation == [kind: {"none", "create", "delete", "revoke", "update"},
              id: KeyId \cup {NoKey}, index: Nat, record: Seq(Key)]
Fate == {"unused", "creating", "created", "deleting", "deleted", "failed"}
Ids(keys) == {keys[i].id : i \in DOMAIN keys}

Init ==
  /\ PersistInit(<<>>)
  /\ op = [w \in Worker |-> NoOp]
  /\ fate = [id \in KeyId |-> "unused"]
  /\ down = FALSE
  /\ ops = 0

\* A handler that is free starts an operation; it needs the store's lock.
Ready(w) ==
  /\ stage[w] = "idle"
  /\ ~poisoned
  /\ ~down
  /\ ops < MaxOps
  /\ ops' = ops + 1

\* The change is in memory; the handler goes on to save it.
Change(w, keys, kind, id, index, record) ==
  /\ data' = keys
  /\ op' = [op EXCEPT ![w] = [kind |-> kind, id |-> id, index |-> index, record |-> record]]
  /\ GoTo(w, "clear")
  /\ UNCHANGED <<disk, dirty, registered, writing, image, poisoned, failed, down>>

-----------------------------------------------------------------------------
Create(w, id) ==
  /\ Ready(w)
  /\ fate[id] = "unused"
  /\ fate' = [fate EXCEPT ![id] = "creating"]
  /\ Change(w, Append(data, NewKey(id)), "create", id, 0, <<>>)

Delete(w, i) ==
  /\ Ready(w)
  /\ fate' = [fate EXCEPT ![data[i].id] = "deleting"]
  /\ Change(w, RemoveAt(data, i), "delete", data[i].id, i, <<data[i]>>)

Revoke(w, i) ==
  /\ Ready(w)
  /\ ~data[i].revoked
  /\ Change(w, [data EXCEPT ![i].revoked = TRUE], "revoke", data[i].id, i, <<>>)
  /\ UNCHANGED fate

\* updateFull: the console sets or clears the revoked flag; nothing is undone
\* when the save fails.
Update(w, i, revoked) ==
  /\ Ready(w)
  /\ Change(w, [data EXCEPT ![i].revoked = revoked], "update", data[i].id, i, <<>>)
  /\ UNCHANGED fate

\* Mutant: the stamp is not announced to the background loop.
AuthenticateUnmarked(w, i) ==
  /\ Ready(w)
  /\ ~data[i].revoked
  /\ data' = [data EXCEPT ![i].used = TRUE]
  /\ UNCHANGED <<disk, dirty, registered, writing, image, stage, poisoned, failed,
                 op, fate, down>>

\* valid: a request is authenticated, which stamps the key as used; markDirty
\* follows after the store's lock is released.
Authenticate(w, i) ==
  /\ Ready(w)
  /\ ~data[i].revoked
  /\ data' = [data EXCEPT ![i].used = TRUE]
  /\ GoTo(w, "mark")
  /\ UNCHANGED <<disk, dirty, registered, writing, image, poisoned, failed, op, fate, down>>

-----------------------------------------------------------------------------
\* Mutant: success is reported once the save has been asked for.
AcknowledgeEarly(w) ==
  /\ stage[w] \in {"acquire", "saved"}
  /\ fate' = [fate EXCEPT ![op[w].id] =
       CASE op[w].kind = "create" /\ @ = "creating" -> "created"
         [] op[w].kind = "delete" -> "deleted"
         [] OTHER -> @]
  /\ op' = [op EXCEPT ![w] = NoOp]
  /\ GoTo(w, "idle")
  /\ UNCHANGED <<data, disk, dirty, registered, writing, image, poisoned, failed,
                 down, ops>>

\* flushNowBlocking succeeded: the handler reports success.
Acknowledge(w) ==
  /\ stage[w] = "saved"
  /\ fate' = [fate EXCEPT ![op[w].id] =
       CASE op[w].kind = "create" /\ @ = "creating" -> "created"
         [] op[w].kind = "delete" -> "deleted"
         [] OTHER -> @]
  /\ op' = [op EXCEPT ![w] = NoOp]
  /\ GoTo(w, "idle")
  /\ UNCHANGED <<data, disk, dirty, registered, writing, image, poisoned, failed,
                 down, ops>>

\* Whether the slice expressions of the rollback are within bounds.
CanUndo(w) ==
  CASE op[w].kind = "create" -> Len(data) > 0
    [] op[w].kind = "delete" -> op[w].index <= Len(data) + 1
    [] op[w].kind = "revoke" -> op[w].index <= Len(data)
    [] OTHER -> TRUE

\* The list after the rollback: a creation drops the last key, a deletion puts
\* the record back where it was.
Undone(w) ==
  CASE op[w].kind = "create" -> Front(data)
    [] op[w].kind = "delete" -> InsertAt(data, op[w].index, op[w].record[1])
    [] op[w].kind = "revoke" -> [data EXCEPT ![op[w].index].revoked = FALSE]
    [] OTHER -> data

Fail(w) ==
  /\ stage[w] = "failed"
  /\ ~poisoned
  /\ fate' = [fate EXCEPT ![op[w].id] =
       CASE op[w].kind = "create" /\ @ = "creating" -> "failed"
         [] op[w].kind = "delete" -> "failed"
         [] OTHER -> @]
  /\ op' = [op EXCEPT ![w] = NoOp]
  /\ GoTo(w, "idle")

\* flushNowBlocking failed: the change is taken back.
Undo(w) ==
  /\ Fail(w)
  /\ CanUndo(w)
  /\ data' = Undone(w)
  /\ UNCHANGED <<disk, dirty, registered, writing, image, poisoned, failed,
                 down, ops>>

\* The rollback indexes beyond the list: the handler panics with the store's
\* lock held, and recoverPanics keeps the server running.
Panic(w) ==
  /\ Fail(w)
  /\ ~CanUndo(w)
  /\ poisoned' = TRUE
  /\ UNCHANGED <<data, disk, dirty, registered, writing, image, failed,
                 down, ops>>

-----------------------------------------------------------------------------
\* runServer's shutdown: handlers are drained, then the process ends.  A crash
\* may happen at any time.
Shutdown ==
  /\ ~down
  /\ \A w \in Worker : stage[w] = "idle"
  /\ down' = TRUE
  /\ UNCHANGED <<persistVars, op, fate, ops>>

Restart ==
  /\ down \/ \E p \in Process : stage[p] # "idle"
  /\ Reload
  /\ down' = FALSE
  /\ op' = [w \in Worker |-> NoOp]
  /\ fate' = [id \in KeyId |-> IF fate[id] \in {"creating", "deleting"} THEN "failed" ELSE fate[id]]
  /\ UNCHANGED ops

-----------------------------------------------------------------------------
Handle(w) ==
  \/ \E id \in KeyId : Create(w, id)
  \/ \E i \in 1..Len(data) : Delete(w, i) \/ Revoke(w, i) \/ Authenticate(w, i)
  \/ \E i \in 1..Len(data), revoked \in BOOLEAN : Update(w, i, revoked)

Continue(w) == Acknowledge(w) \/ Undo(w) \/ Panic(w)
Save(p) == PersistStep(p) /\ UNCHANGED <<op, fate, down, ops>> /\ ~down
LoopTick == Tick /\ UNCHANGED <<op, fate, down, ops>> /\ ~down

Next ==
  \/ \E w \in Worker : Handle(w) \/ Continue(w)
  \/ \E p \in Process : Save(p)
  \/ LoopTick
  \/ Shutdown
  \/ Restart

\* The scheduler runs every goroutine, writes return, the ticker keeps ticking.
Fairness ==
  /\ \A w \in Worker : WF_vars(Continue(w))
  /\ \A p \in Process : WF_vars(Save(p)) /\ SF_vars(Snapshot(p) /\ Save(p))
  /\ WF_vars(LoopTick)

Spec == Init /\ [][Next]_vars
FairSpec == Spec /\ Fairness

-----------------------------------------------------------------------------
TypeOK ==
  /\ data \in Seq(Key) /\ disk \in Seq(Key)
  /\ image \in [Process -> Seq(Seq(Key))]
  /\ dirty \in BOOLEAN /\ registered \in BOOLEAN /\ poisoned \in BOOLEAN /\ failed \in BOOLEAN
  /\ down \in BOOLEAN /\ ops \in 0..MaxOps
  /\ writing \in Process \cup {Nobody}
  /\ stage \in [Process -> Stages]
  /\ op \in [Worker -> Operation]
  /\ fate \in [KeyId -> Fate]

\* A key whose deletion was reported never comes back, in memory or in the file,
\* even when other writes fail and are rolled back, or the server restarts: no
\* older image of the list is written after a newer one.
DeletedForever ==
  \A id \in KeyId : fate[id] = "deleted" => id \notin Ids(data) \cup Ids(disk)

\* A key whose creation was reported is in the file, and so survives a crash, as
\* long as no write has failed.
CreatedIsSaved ==
  ~failed => \A id \in KeyId : fate[id] = "created" => id \in Ids(disk)

\* Once the handlers fall silent the file catches up with memory: a stamp that
\* was only marked dirty does not wait for the next administrative change.
EventuallySaved ==
  <>[](\A w \in Worker : stage[w] = "idle") => <>[](data = disk \/ failed \/ down)

\* keys.go:135: delete rolls back on persistence failure.  The rollback of a
\* failed deletion finds its place in the list.
DeleteRollsBack ==
  \A w \in Worker : stage[w] = "failed" /\ op[w].kind = "delete" => CanUndo(w)
=============================================================================
