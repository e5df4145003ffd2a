---------------------------- MODULE ApiKeysProofs ----------------------------
(***************************************************************************)
(* Theorems about ApiKeys on top of Persist, for any number of handlers,   *)
(* keys and operations, with failing writes, rollbacks, panics, shutdowns   *)
(* and crashes: no change is forgotten, no key that was created is lost    *)
(* and no key that was deleted comes back.                                 *)
(***************************************************************************)
EXTENDS ApiKeys, SequenceTheorems, TLAPS

\* No two keys of a list have the same id.
Distinct(keys) == \A i, j \in DOMAIN keys : keys[i].id = keys[j].id => i = j

\* What is being written: the ids of the image that the holder of writeMu copied.
Writing(id) == writing # Nobody => id \in Ids(image[writing][1])
\* ... and what is not.
NotWriting(id) == writing # Nobody => id \notin Ids(image[writing][1])

\* Whoever is about to write holds writeMu and has made one copy.
OneWriter ==
  /\ writing # Nobody => writing \in Process /\ stage[writing] = "write"
  /\ \A p \in Process : stage[p] = "write" => writing = p /\ Len(image[p]) = 1
  /\ \A p \in Process : stage[p] = "failed" => failed

\* A handler is in an operation as long as its change is not settled; it knows
\* the key, and one that deletes has the record and where it was.
InOperation ==
  \A w \in Worker :
    /\ op[w].kind = "none" <=> stage[w] \in {"idle", "mark"}
    /\ op[w].kind # "none" => op[w].id \in KeyId /\ fate[op[w].id] # "unused"
    /\ op[w].kind = "revoke" => op[w].index >= 1
    /\ op[w].kind = "delete" =>
         op[w].index >= 1 /\ Len(op[w].record) = 1 /\ op[w].record[1].id = op[w].id

\* Ids are never reused: no list holds one twice or one that is still unused.
Unrepeated ==
  /\ Distinct(data) /\ Distinct(disk)
  /\ writing # Nobody => Distinct(image[writing][1])
  /\ \A id \in KeyId : fate[id] = "unused" =>
       id \notin Ids(data) \cup Ids(disk) /\ NotWriting(id)

\* The key is neither in memory, nor in the file, nor on its way there.
Gone(id) == id \notin Ids(data) \cup Ids(disk) /\ NotWriting(id)

\* The key that a handler is deleting is out of memory, and no other handler is
\* deleting it; it is out of the handler's copy, and in the end of the file and
\* of all copies.
Deletions ==
  \A w \in Worker : op[w].kind = "delete" =>
    /\ op[w].id \notin Ids(data)
    /\ \A v \in Worker : op[v].kind = "delete" /\ op[v].id = op[w].id => v = w
    /\ stage[w] = "write" => NotWriting(op[w].id)
    /\ stage[w] = "saved" => Gone(op[w].id)

\* DeletedForever, with the copy that is being written and the rollbacks to come.
DeletedIsGone ==
  \A id \in KeyId : fate[id] = "deleted" =>
    Gone(id) /\ \A w \in Worker : ~(op[w].kind = "delete" /\ op[w].id = id)

\* CreatedIsSaved, with the copy that is being written and the handlers that are
\* about to report.
CreatedIsKept ==
  ~failed =>
    /\ \A id \in KeyId : fate[id] \in {"creating", "created"} => id \in Ids(data)
    /\ \A id \in KeyId : fate[id] = "created" => id \in Ids(disk) /\ Writing(id)
    /\ \A w \in Worker : op[w].kind = "create" /\ fate[op[w].id] = "creating" =>
         /\ stage[w] = "write" => Writing(op[w].id)
         /\ stage[w] = "saved" => op[w].id \in Ids(disk) /\ Writing(op[w].id)

\* The inductive invariant.
IInv ==
  /\ TypeOK /\ OneWriter /\ InOperation /\ Unrepeated
  /\ Deletions /\ DeletedIsGone /\ CreatedIsKept

-----------------------------------------------------------------------------
(* What the operations on lists do to the ids *)

\* create appends a key with a new id.
LEMMA AppendIds ==
  ASSUME NEW s \in Seq(Key), NEW k \in Key
  PROVE  /\ Append(s, k) \in Seq(Key)
         /\ Ids(Append(s, k)) = Ids(s) \cup {k.id}
         /\ Distinct(s) /\ k.id \notin Ids(s) => Distinct(Append(s, k))
<1>1. /\ Append(s, k) \in Seq(Key) /\ DOMAIN Append(s, k) = 1..Len(s) + 1
      /\ Append(s, k)[Len(s) + 1] = k /\ \A i \in 1..Len(s) : Append(s, k)[i] = s[i]
  OBVIOUS
<1>2. Ids(Append(s, k)) = Ids(s) \cup {k.id}
  BY <1>1 DEF Ids
<1>3. ASSUME Distinct(s), k.id \notin Ids(s) PROVE Distinct(Append(s, k))
  BY <1>1, <1>3 DEF Ids, Distinct
<1> QED
  BY <1>1, <1>2, <1>3

\* delete removes one.
LEMMA RemoveIds ==
  ASSUME NEW s \in Seq(Key), NEW i \in 1..Len(s), Distinct(s)
  PROVE  /\ RemoveAt(s, i) \in Seq(Key)
         /\ Distinct(RemoveAt(s, i))
         /\ Ids(RemoveAt(s, i)) = Ids(s) \ {s[i].id}
<1> DEFINE r == RemoveAt(s, i)
           front == SubSeq(s, 1, i - 1)
           back == SubSeq(s, i + 1, Len(s))
<1>1. /\ r \in Seq(Key) /\ DOMAIN r = 1..(Len(s) - 1)
      /\ \A j \in 1..(Len(s) - 1) : r[j] = IF j < i THEN s[j] ELSE s[j + 1]
  <2>1. /\ front \in Seq(Key) /\ Len(front) = i - 1 /\ \A j \in 1..(i - 1) : front[j] = s[j]
    BY SubSeqProperties
  <2>2. /\ back \in Seq(Key) /\ Len(back) = Len(s) - i
        /\ \A j \in 1..(Len(s) - i) : back[j] = s[i + j]
    <3>1. /\ back \in Seq(Key) /\ Len(back) = Len(s) - i
          /\ \A j \in 1..(Len(s) - i) : back[j] = s[(i + 1) + j - 1]
      BY SubSeqProperties
    <3>2. \A j \in 1..(Len(s) - i) : (i + 1) + j - 1 = i + j
      OBVIOUS
    <3> QED
      BY <3>1, <3>2
  <2>3. r = front \o back
    BY DEF RemoveAt
  <2> HIDE DEF front, back, r
  <2>4. /\ r \in Seq(Key) /\ Len(r) = Len(s) - 1
        /\ \A j \in 1..(Len(s) - 1) : r[j] = IF j <= i - 1 THEN front[j] ELSE back[j - (i - 1)]
    <3>1. /\ r \in Seq(Key) /\ Len(r) = Len(front) + Len(back)
          /\ \A j \in 1..(Len(front) + Len(back)) :
               r[j] = IF j <= Len(front) THEN front[j] ELSE back[j - Len(front)]
      BY <2>1, <2>2, <2>3, ConcatProperties
    <3>2. Len(front) + Len(back) = Len(s) - 1 /\ Len(front) = i - 1
      BY <2>1, <2>2
    <3> QED
      BY <3>1, <3>2
  <2>5. ASSUME NEW j \in 1..(Len(s) - 1), j >= i PROVE r[j] = s[j + 1]
    <3>1. r[j] = back[j - (i - 1)] /\ j - (i - 1) \in 1..(Len(s) - i)
      BY <2>4, <2>5
    <3>2. i + (j - (i - 1)) = j + 1
      OBVIOUS
    <3> QED
      BY <3>1, <3>2, <2>2
  <2> QED
    BY <2>1, <2>4, <2>5
<1> HIDE DEF r, front, back
<1>2. Distinct(r)
  BY <1>1 DEF Distinct
<1>3. Ids(r) \subseteq Ids(s) \ {s[i].id}
  BY <1>1 DEF Ids, Distinct
<1>4. Ids(s) \ {s[i].id} \subseteq Ids(r)
  <2> SUFFICES ASSUME NEW j \in 1..Len(s), s[j].id # s[i].id PROVE s[j].id \in Ids(r)
    BY DEF Ids
  <2>1. CASE j < i
    BY <2>1, <1>1 DEF Ids
  <2>2. CASE j > i
    <3>1. j - 1 \in DOMAIN r /\ r[j - 1] = s[j]
      BY <2>2, <1>1
    <3> QED
      BY <3>1 DEF Ids
  <2> QED
    BY <2>1, <2>2
<1> QED
  BY <1>1, <1>2, <1>3, <1>4 DEF r

\* The rollback of a creation drops the last one.
LEMMA FrontIds ==
  ASSUME NEW s \in Seq(Key), Len(s) > 0, Distinct(s)
  PROVE  /\ Front(s) \in Seq(Key) /\ Distinct(Front(s)) /\ Ids(Front(s)) \subseteq Ids(s)
<1>1. /\ Front(s) \in Seq(Key) /\ DOMAIN Front(s) = 1..Len(s) - 1
      /\ \A j \in 1..Len(s) - 1 : Front(s)[j] = s[j]
  BY DEF Front
<1> QED
  BY <1>1 DEF Ids, Distinct

\* The rollback of a deletion puts one back.
LEMMA InsertIds ==
  ASSUME NEW s \in Seq(Key), NEW k \in Key, NEW i \in 1..Len(s) + 1,
         Distinct(s), k.id \notin Ids(s)
  PROVE  /\ InsertAt(s, i, k) \in Seq(Key)
         /\ Distinct(InsertAt(s, i, k))
         /\ Ids(InsertAt(s, i, k)) = Ids(s) \cup {k.id}
<1> DEFINE r == InsertAt(s, i, k)
<1> DEFINE front == SubSeq(s, 1, i - 1)
           back == SubSeq(s, i, Len(s))
           both == front \o <<k>>
<1>1. /\ front \in Seq(Key) /\ Len(front) = i - 1 /\ \A j \in 1..(i - 1) : front[j] = s[j]
  BY SubSeqProperties
<1>2. /\ back \in Seq(Key) /\ Len(back) = Len(s) - i + 1
      /\ \A j \in 1..(Len(s) - i + 1) : back[j] = s[i + j - 1]
  BY SubSeqProperties
<1>3. r = both \o back
  BY DEF InsertAt
<1> HIDE DEF front, back, r
<1>4. both \in Seq(Key) /\ Len(both) = i /\ both[i] = k /\ \A j \in 1..(i - 1) : both[j] = s[j]
  <2>1. <<k>> \in Seq(Key) /\ Len(<<k>>) = 1 /\ <<k>>[1] = k
    OBVIOUS
  <2> QED
    BY <1>1, <2>1, ConcatProperties
<1> HIDE DEF both
<1>5. r \in Seq(Key) /\ Len(r) = Len(s) + 1
  BY <1>2, <1>3, <1>4, ConcatProperties
<1>6. /\ r[i] = k /\ \A j \in 1..(i - 1) : r[j] = s[j]
      /\ \A j \in i..Len(s) : r[j + 1] = s[j]
  <2>1. \A j \in 1..(Len(s) + 1) : r[j] = IF j <= i THEN both[j] ELSE back[j - i]
    BY <1>2, <1>3, <1>4, ConcatProperties
  <2>2. ASSUME NEW j \in i..Len(s) PROVE r[j + 1] = s[j]
    <3>1. r[j + 1] = back[j + 1 - i] /\ j + 1 - i \in 1..(Len(s) - i + 1)
      BY <2>1
    <3>2. back[j + 1 - i] = s[i + (j + 1 - i) - 1]
      BY <3>1, <1>2
    <3>3. i + (j + 1 - i) - 1 = j
      OBVIOUS
    <3> QED
      BY <3>1, <3>2, <3>3
  <2> QED
    BY <2>1, <2>2, <1>4
<1>7. ASSUME NEW j \in DOMAIN r
      PROVE  j = i \/ j \in 1..(i - 1) \/ (j > i /\ j - 1 \in i..Len(s) /\ r[j] = s[j - 1])
  <2>1. j \in 1..(Len(s) + 1)
    BY <1>5
  <2>2. CASE j > i
    <3>1. j - 1 \in i..Len(s) /\ (j - 1) + 1 = j
      BY <2>1, <2>2
    <3> QED
      BY <2>2, <3>1, <1>6
  <2> QED
    BY <2>1, <2>2
<1>8. Distinct(r)
  <2>1. \A j \in DOMAIN r : j # i =>
          \E m \in 1..Len(s) : r[j] = s[m] /\ j = IF m < i THEN m ELSE m + 1
    <3> SUFFICES ASSUME NEW j \in DOMAIN r, j # i
                 PROVE  \E m \in 1..Len(s) : r[j] = s[m] /\ j = IF m < i THEN m ELSE m + 1
      OBVIOUS
    <3>1. CASE j \in 1..(i - 1)
      <4>1. j \in 1..Len(s) /\ r[j] = s[j] /\ j < i
        BY <3>1, <1>6
      <4> QED
        BY <4>1
    <3>2. CASE j > i /\ j - 1 \in i..Len(s) /\ r[j] = s[j - 1]
      <4>1. j - 1 \in 1..Len(s) /\ ~(j - 1 < i) /\ j = (j - 1) + 1
        BY <3>2, <1>5
      <4> QED
        BY <3>2, <4>1
    <3> QED
      BY <3>1, <3>2, <1>7
  <2>2. \A j \in DOMAIN r : j # i => r[j].id # k.id
    BY <2>1 DEF Ids
  <2>3. ASSUME NEW j \in DOMAIN r, NEW l \in DOMAIN r, r[j].id = r[l].id, j # i, l # i
        PROVE  j = l
    BY <2>1, <2>3 DEF Distinct
  <2> QED
    BY <1>6, <2>2, <2>3 DEF Distinct
<1>9. Ids(r) \subseteq Ids(s) \cup {k.id}
  BY <1>6, <1>7 DEF Ids
<1>10. k.id \in Ids(r)
  BY <1>5, <1>6 DEF Ids
<1>11. Ids(s) \subseteq Ids(r)
  <2> SUFFICES ASSUME NEW j \in 1..Len(s) PROVE s[j].id \in Ids(r)
    BY DEF Ids
  <2>1. \E m \in 1..(Len(s) + 1) : r[m] = s[j]
    BY <1>6
  <2> QED
    BY <2>1, <1>5 DEF Ids
<1> QED
  BY <1>5, <1>8, <1>9, <1>10, <1>11 DEF r

\* Revoking, its rollback, updating and stamping change no id.
LEMMA FlagIds ==
  ASSUME NEW s \in Seq(Key), NEW i \in 1..Len(s), NEW b \in BOOLEAN
  PROVE  /\ [s EXCEPT ![i].revoked = b] \in Seq(Key) /\ [s EXCEPT ![i].used = b] \in Seq(Key)
         /\ Ids([s EXCEPT ![i].revoked = b]) = Ids(s) /\ Ids([s EXCEPT ![i].used = b]) = Ids(s)
         /\ Distinct(s) => Distinct([s EXCEPT ![i].revoked = b])
                        /\ Distinct([s EXCEPT ![i].used = b])
<1>1. ASSUME NEW k \in Key, k.id = s[i].id, NEW r, r = [s EXCEPT ![i] = k]
      PROVE  r \in Seq(Key) /\ Ids(r) = Ids(s) /\ (Distinct(s) => Distinct(r))
  <2>1. /\ r \in Seq(Key) /\ DOMAIN r = DOMAIN s
        /\ \A j \in DOMAIN s : r[j].id = s[j].id
    BY <1>1, ExceptSeq
  <2> QED
    BY <2>1 DEF Ids, Distinct
<1>2. s[i] \in Key
  BY ElementOfSeq
<1>3. /\ [s[i] EXCEPT !.revoked = b] \in Key /\ [s[i] EXCEPT !.revoked = b].id = s[i].id
      /\ [s[i] EXCEPT !.used = b] \in Key /\ [s[i] EXCEPT !.used = b].id = s[i].id
  BY <1>2 DEF Key
<1>4. /\ [s EXCEPT ![i].revoked = b] = [s EXCEPT ![i] = [s[i] EXCEPT !.revoked = b]]
      /\ [s EXCEPT ![i].used = b] = [s EXCEPT ![i] = [s[i] EXCEPT !.used = b]]
  OBVIOUS
<1> QED
  BY <1>1, <1>3, <1>4
-----------------------------------------------------------------------------
(* What the actions do to the list in memory *)

\* A creation adds its key.
LEMMA CreateData ==
  ASSUME IInv, NEW w \in Worker, NEW id \in KeyId, Create(w, id)
  PROVE  data' \in Seq(Key) /\ Distinct(data') /\ Ids(data') = Ids(data) \cup {id}
<1>1. NewKey(id) \in Key /\ NewKey(id).id = id
  BY DEF NewKey, Key
<1>2. data \in Seq(Key) /\ Distinct(data) /\ id \notin Ids(data)
  BY DEF IInv, TypeOK, Unrepeated, Create
<1> QED
  BY <1>1, <1>2, AppendIds DEF Create, Change

\* A deletion removes its key.
LEMMA DeleteData ==
  ASSUME IInv, NEW w \in Worker, NEW i \in 1..Len(data), Delete(w, i)
  PROVE  /\ data[i] \in Key /\ data[i].id \in Ids(data)
         /\ data' \in Seq(Key) /\ Distinct(data') /\ Ids(data') = Ids(data) \ {data[i].id}
<1>1. data \in Seq(Key) /\ Distinct(data)
  BY DEF IInv, TypeOK, Unrepeated
<1>2. data[i] \in Key
  BY <1>1, ElementOfSeq
<1>3. data[i].id \in Ids(data)
  BY <1>1 DEF Ids
<1> QED
  BY <1>1, <1>2, <1>3, RemoveIds DEF Delete, Change

\* Revoking, updating and authenticating change no id.
LEMMA FlagData ==
  ASSUME IInv, NEW w \in Worker, NEW i \in 1..Len(data), NEW revoked \in BOOLEAN,
         Revoke(w, i) \/ Update(w, i, revoked) \/ Authenticate(w, i)
  PROVE  /\ data[i] \in Key /\ data[i].id \in Ids(data)
         /\ data' \in Seq(Key) /\ Distinct(data') /\ Ids(data') = Ids(data)
<1>1. data \in Seq(Key) /\ Distinct(data)
  BY DEF IInv, TypeOK, Unrepeated
<1>2. data[i] \in Key
  BY <1>1, ElementOfSeq
<1>3. data[i].id \in Ids(data)
  BY <1>1 DEF Ids
<1>4. \/ \E b \in BOOLEAN : data' = [data EXCEPT ![i].revoked = b]
      \/ data' = [data EXCEPT ![i].used = TRUE]
  BY DEF Revoke, Update, Authenticate, Change
<1>5. ASSUME NEW b \in BOOLEAN, data' = [data EXCEPT ![i].revoked = b]
      PROVE  data' \in Seq(Key) /\ Distinct(data') /\ Ids(data') = Ids(data)
  BY <1>1, <1>5, FlagIds
<1>6. ASSUME data' = [data EXCEPT ![i].used = TRUE]
      PROVE  data' \in Seq(Key) /\ Distinct(data') /\ Ids(data') = Ids(data)
  <2>1. TRUE \in BOOLEAN
    OBVIOUS
  <2> QED
    BY <1>1, <1>6, <2>1, FlagIds
<1> QED
  BY <1>2, <1>3, <1>4, <1>5, <1>6

\* A rollback brings back at most the key whose deletion it undoes.
LEMMA UndoData ==
  ASSUME IInv, NEW w \in Worker, Undo(w)
  PROVE  /\ data' \in Seq(Key) /\ Distinct(data')
         /\ Ids(data') \subseteq Ids(data) \cup (IF op[w].kind = "delete" THEN {op[w].id} ELSE {})
<1>1. data \in Seq(Key) /\ Distinct(data) /\ CanUndo(w) /\ data' = Undone(w)
  BY DEF IInv, TypeOK, Unrepeated, Undo
<1>2. CASE op[w].kind = "create"
  BY <1>1, <1>2, FrontIds DEF CanUndo, Undone
<1>3. CASE op[w].kind = "delete"
  <2>1. /\ op[w].record \in Seq(Key) /\ Len(op[w].record) = 1 /\ op[w].record[1].id = op[w].id
        /\ op[w].index \in Nat /\ op[w].index >= 1
    BY <1>3 DEF IInv, TypeOK, Operation, InOperation
  <2>2. op[w].record[1] \in Key
    BY <2>1, ElementOfSeq
  <2>3. op[w].record[1].id \notin Ids(data)
    BY <1>3, <2>1 DEF IInv, Deletions
  <2>4. op[w].index \in 1..Len(data) + 1
    BY <1>1, <1>3, <2>1 DEF CanUndo
  <2>5. data' = InsertAt(data, op[w].index, op[w].record[1])
    BY <1>1, <1>3 DEF Undone
  <2> QED
    BY <1>1, <1>3, <2>1, <2>2, <2>3, <2>4, <2>5, InsertIds
<1>4. CASE op[w].kind = "revoke"
  <2>1. op[w].index \in 1..Len(data)
    BY <1>1, <1>4 DEF CanUndo, IInv, TypeOK, Operation, InOperation
  <2> QED
    BY <1>1, <1>4, <2>1, FlagIds DEF Undone
<1>5. CASE op[w].kind \in {"none", "update"}
  BY <1>1, <1>5 DEF Undone
<1> QED
  BY <1>2, <1>3, <1>4, <1>5 DEF IInv, TypeOK, Operation
-----------------------------------------------------------------------------
(* Every step keeps the invariant *)

\* What handlers remember, and an empty list of copies.
LEMMA Types ==
  /\ NoOp \in Operation /\ <<>> \in Seq(Key) /\ <<>> \in Seq(Seq(Key))
  /\ \A keys \in Seq(Key) : <<keys>> \in Seq(Seq(Key)) /\ <<keys>>[1] = keys
  /\ \A kind \in {"create", "delete", "revoke", "update"}, id \in KeyId, i \in Nat, record \in Seq(Key) :
       [kind |-> kind, id |-> id, index |-> i, record |-> record] \in Operation
<1>1. <<>> \in Seq(Key) /\ <<>> \in Seq(Seq(Key))
  OBVIOUS
<1>2. \A keys \in Seq(Key) : <<keys>> \in Seq(Seq(Key)) /\ <<keys>>[1] = keys
  OBVIOUS
<1> QED
  BY <1>1, <1>2 DEF NoOp, Operation

\* Initially the list is empty and nobody is at work.
LEMMA InitInv == Init => IInv
<1> SUFFICES ASSUME Init PROVE IInv
  OBVIOUS
<1>1. data = <<>> /\ disk = <<>> /\ writing = Nobody
  BY DEF Init, PersistInit
<1>2. TypeOK
  <2>1. data \in Seq(Key) /\ disk \in Seq(Key) /\ image \in [Process -> Seq(Seq(Key))]
    BY Types DEF Init, PersistInit
  <2>2. op \in [Worker -> Operation] /\ fate \in [KeyId -> Fate]
    BY Types DEF Init, Fate
  <2>3. ops \in 0..MaxOps
    BY MaxOpsAssumption DEF Init
  <2> QED
    BY <2>1, <2>2, <2>3 DEF TypeOK, Init, PersistInit, Stages
<1>3. Ids(data) = {} /\ Ids(disk) = {} /\ Distinct(data) /\ Distinct(disk)
  BY <1>1 DEF Ids, Distinct
<1>4. \A w \in Worker : op[w].kind = "none" /\ stage[w] = "idle"
  BY DEF Init, PersistInit, NoOp, Process
<1>5. OneWriter
  BY <1>1 DEF Init, PersistInit, OneWriter
<1>6. \A id \in KeyId : fate[id] = "unused"
  BY DEF Init
<1>7. InOperation /\ Deletions
  BY <1>4 DEF InOperation, Deletions
<1>8. Unrepeated /\ DeletedIsGone /\ CreatedIsKept
  BY <1>1, <1>3, <1>4, <1>6 DEF Unrepeated, NotWriting, DeletedIsGone, CreatedIsKept
<1> QED
  BY <1>2, <1>5, <1>7, <1>8 DEF IInv

-----------------------------------------------------------------------------
(* What a handler's answer does to the history *)

\* A key is created or deleted when its creator or deleter answers so ...
LEMMA AcknowledgeFate ==
  ASSUME IInv, NEW w \in Worker, Acknowledge(w)
  PROVE  /\ op[w].kind # "none" /\ op[w].id \in KeyId /\ fate' \in [KeyId -> Fate]
         /\ \A id \in KeyId : id # op[w].id => fate'[id] = fate[id]
         /\ fate'[op[w].id] = CASE op[w].kind = "create" /\ fate[op[w].id] = "creating" -> "created"
                                [] op[w].kind = "delete" -> "deleted"
                                [] OTHER -> fate[op[w].id]
BY DEF IInv, TypeOK, InOperation, Acknowledge, Fate

\* ... and has failed when the write did.
LEMMA FailFate ==
  ASSUME IInv, NEW w \in Worker, Fail(w)
  PROVE  /\ failed
         /\ op[w].kind # "none" /\ op[w].id \in KeyId /\ fate' \in [KeyId -> Fate]
         /\ \A id \in KeyId : id # op[w].id => fate'[id] = fate[id]
         /\ fate'[op[w].id] = CASE op[w].kind = "create" /\ fate[op[w].id] = "creating" -> "failed"
                                [] op[w].kind = "delete" -> "failed"
                                [] OTHER -> fate[op[w].id]
BY DEF IInv, TypeOK, InOperation, OneWriter, Process, Fail, Fate

-----------------------------------------------------------------------------
(* Every step keeps the invariant *)

\* A handler's change of the list is well typed when the list and the operation are.
LEMMA ChangeType ==
  ASSUME TypeOK, NEW w \in Worker, NEW keys \in Seq(Key), NEW id \in KeyId, NEW i \in Nat,
         NEW kind \in {"create", "delete", "revoke", "update"}, NEW record \in Seq(Key),
         Ready(w), Change(w, keys, kind, id, i, record), fate' \in [KeyId -> Fate]
  PROVE  TypeOK'
<1>1. stage' \in [Process -> Stages]
  BY DEF Change, GoTo, TypeOK, Stages, Process
<1>2. op' \in [Worker -> Operation]
  <2>1. op' = [op EXCEPT ![w] = [kind |-> kind, id |-> id, index |-> i, record |-> record]]
    BY DEF Change
  <2>2. [kind |-> kind, id |-> id, index |-> i, record |-> record] \in Operation
    BY DEF Operation
  <2> QED
    BY <2>1, <2>2 DEF TypeOK
<1>3. ops' \in 0..MaxOps
  BY MaxOpsAssumption DEF Ready, TypeOK
<1> QED
  BY <1>1, <1>2, <1>3 DEF Change, TypeOK

\* Every step leaves lists, copies and operations well typed.
LEMMA StepType ==
  ASSUME IInv, [Next]_vars
  PROVE  TypeOK'
<1>0. TypeOK
  BY DEF IInv
<1> USE <1>0
<1>1. ASSUME NEW w \in Worker, NEW id \in KeyId, Create(w, id) PROVE TypeOK'
  <2>1. data' \in Seq(Key) /\ <<>> \in Seq(Key) /\ data' = Append(data, NewKey(id))
    BY <1>1, CreateData, Types DEF Create, Change
  <2>2. fate' \in [KeyId -> Fate]
    BY <1>1 DEF Create, TypeOK, Fate
  <2> QED
    BY <1>1, <2>1, <2>2, ChangeType DEF Create
<1>2. ASSUME NEW w \in Worker, NEW i \in 1..Len(data), Delete(w, i) PROVE TypeOK'
  <2>1. data' \in Seq(Key) /\ data[i] \in Key /\ data' = RemoveAt(data, i)
    BY <1>2, DeleteData DEF Delete, Change
  <2>2. data[i].id \in KeyId /\ <<data[i]>> \in Seq(Key)
    BY <2>1 DEF Key
  <2>3. fate' \in [KeyId -> Fate]
    BY <1>2 DEF Delete, TypeOK, Fate
  <2>4. Change(w, data', "delete", data[i].id, i, <<data[i]>>) /\ Ready(w) /\ i \in Nat
    BY <1>2 DEF Delete, Change
  <2> QED
    BY <2>1, <2>2, <2>3, <2>4, ChangeType
<1>3. ASSUME NEW w \in Worker, NEW i \in 1..Len(data), NEW revoked \in BOOLEAN,
             Revoke(w, i) \/ Update(w, i, revoked)
      PROVE  TypeOK'
  <2>1. data' \in Seq(Key) /\ data[i] \in Key /\ <<>> \in Seq(Key) /\ i \in Nat
    BY <1>3, FlagData, Types
  <2>2. data[i].id \in KeyId
    BY <2>1 DEF Key
  <2>3. PICK kind \in {"revoke", "update"} : Ready(w) /\ Change(w, data', kind, data[i].id, i, <<>>)
    BY <1>3 DEF Revoke, Update, Change
  <2>4. fate' \in [KeyId -> Fate]
    BY <1>3 DEF Revoke, Update, TypeOK
  <2> QED
    BY <2>1, <2>2, <2>3, <2>4, ChangeType
<1>4. ASSUME NEW w \in Worker, NEW i \in 1..Len(data), Authenticate(w, i) PROVE TypeOK'
  <2>1. data' \in Seq(Key)
    BY <1>4, FlagData
  <2>2. stage' \in [Process -> Stages]
    BY <1>4 DEF Authenticate, GoTo, TypeOK, Stages, Process
  <2>3. ops' \in 0..MaxOps
    BY <1>4, MaxOpsAssumption DEF Authenticate, Ready, TypeOK
  <2> QED
    BY <1>4, <2>1, <2>2, <2>3 DEF Authenticate, TypeOK
<1>5. ASSUME NEW w \in Worker, Acknowledge(w) \/ Undo(w) \/ Panic(w) PROVE TypeOK'
  <2>1. data' \in Seq(Key)
    BY <1>5, UndoData DEF Acknowledge, Panic, TypeOK
  <2>2. fate' \in [KeyId -> Fate]
    BY <1>5, AcknowledgeFate, FailFate DEF Undo, Panic
  <2>3. stage' \in [Process -> Stages]
    BY <1>5 DEF Acknowledge, Undo, Panic, Fail, GoTo, TypeOK, Stages, Process
  <2>4. op' \in [Worker -> Operation]
    BY <1>5, Types DEF Acknowledge, Undo, Panic, Fail, TypeOK
  <2> QED
    BY <1>5, <2>1, <2>2, <2>3, <2>4 DEF Acknowledge, Undo, Panic, Fail, TypeOK
<1>6. ASSUME NEW p \in Process, PersistStep(p) \/ (Tick /\ p = Loop),
             UNCHANGED <<op, fate, down, ops>>
      PROVE  TypeOK'
  <2>1. stage' \in [Process -> Stages]
    BY <1>6 DEF PersistStep, MarkDirty, ClearDirty, Snapshot, WriteSucceeds, WriteFails, Tick,
                GoTo, TypeOK, Stages
  <2>2. image' \in [Process -> Seq(Seq(Key))]
    BY <1>6, Types
    DEF PersistStep, MarkDirty, ClearDirty, Snapshot, WriteSucceeds, WriteFails, Tick, TypeOK
  <2>3. data' = data /\ disk' \in Seq(Key)
    <3>1. WriteSucceeds(p) => Len(image[p]) = 1
      BY DEF IInv, OneWriter, WriteSucceeds
    <3>2. image[p] \in Seq(Seq(Key))
      BY DEF TypeOK
    <3>3. WriteSucceeds(p) => image[p][1] \in Seq(Key)
      BY <3>1, <3>2
    <3> QED
      BY <1>6, <3>3
      DEF PersistStep, MarkDirty, ClearDirty, Snapshot, WriteSucceeds, WriteFails, Tick, TypeOK
  <2> QED
    BY <1>6, <2>1, <2>2, <2>3
    DEF PersistStep, MarkDirty, ClearDirty, Snapshot, WriteSucceeds, WriteFails, Tick, TypeOK
<1>7. CASE Shutdown
  BY <1>7 DEF Shutdown, persistVars, TypeOK
<1>8. CASE Restart
  <2>1. /\ op' \in [Worker -> Operation] /\ fate' \in [KeyId -> Fate]
        /\ image' \in [Process -> Seq(Seq(Key))] /\ stage' \in [Process -> Stages]
    BY <1>8, Types DEF Restart, Reload, TypeOK, Fate, Stages
  <2> QED
    BY <1>8, <2>1 DEF Restart, Reload, TypeOK
<1>9. CASE UNCHANGED vars
  BY <1>9 DEF vars, persistVars, TypeOK
<1> QED
  BY <1>1, <1>2, <1>3, <1>4, <1>5, <1>6, <1>7, <1>8, <1>9
  DEF Next, Handle, Continue, Save, LoopTick, Process

\* A step that starts and ends no write.
LEMMA WriterKept ==
  ASSUME OneWriter, UNCHANGED <<writing, image, failed>>,
         \A p \in Process : /\ stage'[p] = "write" <=> stage[p] = "write"
                            /\ stage'[p] = "failed" => stage[p] = "failed"
  PROVE  OneWriter'
BY DEF OneWriter

\* Every step leaves the write lock with the only one who writes.
LEMMA StepWriter ==
  ASSUME IInv, [Next]_vars
  PROVE  OneWriter'
<1>0. TypeOK /\ OneWriter
  BY DEF IInv
<1> USE <1>0 DEF TypeOK
<1>1. ASSUME NEW w \in Worker, Handle(w) PROVE OneWriter'
  <2>1. UNCHANGED <<writing, image, failed>> /\ stage[w] = "idle"
        /\ (stage' = [stage EXCEPT ![w] = "clear"] \/ stage' = [stage EXCEPT ![w] = "mark"])
    BY <1>1 DEF Handle, Create, Delete, Revoke, Update, Authenticate, Ready, Change, GoTo
  <2> QED
    BY <2>1, WriterKept DEF Process
<1>2. ASSUME NEW w \in Worker, Continue(w) PROVE OneWriter'
  <2>1. UNCHANGED <<writing, image, failed>> /\ stage[w] \in {"saved", "failed"}
        /\ stage' = [stage EXCEPT ![w] = "idle"]
    BY <1>2 DEF Continue, Acknowledge, Undo, Panic, Fail, GoTo
  <2> QED
    BY <2>1, WriterKept DEF Process
<1>3. ASSUME NEW p \in Process, MarkDirty(p) \/ ClearDirty(p) \/ (Tick /\ p = Loop)
      PROVE  OneWriter'
  <2>1. UNCHANGED <<writing, image, failed>> /\ stage[p] \in {"mark", "clear", "idle"}
        /\ (stage' = [stage EXCEPT ![p] = "idle"] \/ stage' = [stage EXCEPT ![p] = "acquire"])
    BY <1>3 DEF MarkDirty, ClearDirty, Tick, GoTo
  <2> QED
    BY <2>1, WriterKept
<1>4. ASSUME NEW p \in Process, Snapshot(p) PROVE OneWriter'
  <2>1. /\ writing = Nobody /\ writing' = p /\ image' = [image EXCEPT ![p] = <<data>>]
        /\ stage' = [stage EXCEPT ![p] = "write"] /\ UNCHANGED failed
    BY <1>4 DEF Snapshot, GoTo
  <2>2. Len(image'[p]) = 1 /\ Nobody \notin Process
    BY <2>1, LoopAssumption DEF Process
  <2>3. \A q \in Process : stage[q] # "write"
    BY <2>1, <2>2 DEF OneWriter
  <2> QED
    BY <2>1, <2>2, <2>3 DEF OneWriter
<1>5. ASSUME NEW p \in Process, WriteSucceeds(p) \/ WriteFails(p) PROVE OneWriter'
  <2>1. /\ stage[p] = "write" /\ writing' = Nobody /\ (failed => failed')
        /\ \A q \in Process : q # p => stage'[q] = stage[q]
        /\ stage'[p] # "write" /\ (stage'[p] = "failed" => failed')
    BY <1>5 DEF WriteSucceeds, WriteFails, GoTo
  <2> QED
    BY <2>1 DEF OneWriter
<1>6. CASE Shutdown \/ UNCHANGED vars
  BY <1>6, WriterKept DEF Shutdown, vars, persistVars
<1>7. CASE Restart
  BY <1>7 DEF Restart, Reload, OneWriter
<1> QED
  BY <1>1, <1>2, <1>3, <1>4, <1>5, <1>6, <1>7 DEF Next, Save, LoopTick, PersistStep, Process

\* An id that was drawn stays drawn.
LEMMA StepDrawn ==
  ASSUME IInv, [Next]_vars, NEW id \in KeyId, fate[id] # "unused"
  PROVE  fate'[id] # "unused"
<1>0. fate \in [KeyId -> Fate]
  BY DEF IInv, TypeOK
<1>1. ASSUME NEW w \in Worker, Handle(w) PROVE fate'[id] # "unused"
  BY <1>0, <1>1 DEF Handle, Create, Delete, Revoke, Update, Authenticate
<1>2. ASSUME NEW w \in Worker, Continue(w) PROVE fate'[id] # "unused"
  <2>1. CASE Acknowledge(w)
    BY <2>1, AcknowledgeFate
  <2>2. CASE Fail(w)
    BY <2>2, FailFate
  <2> QED
    BY <1>2, <2>1, <2>2 DEF Continue, Undo, Panic
<1>3. CASE Restart
  BY <1>0, <1>3 DEF Restart
<1> QED
  BY <1>1, <1>2, <1>3 DEF Next, Save, LoopTick, Shutdown, vars

\* A step that leaves the operations alone.
LEMMA OperationKept ==
  ASSUME IInv, [Next]_vars, UNCHANGED op,
         \A w \in Worker : stage'[w] \in {"idle", "mark"} <=> stage[w] \in {"idle", "mark"}
  PROVE  InOperation'
BY StepDrawn DEF IInv, InOperation

\* Every step leaves handlers with what they need to answer and to roll back.
LEMMA StepOperation ==
  ASSUME IInv, [Next]_vars
  PROVE  InOperation'
<1>0. TypeOK /\ InOperation
  BY DEF IInv
<1>1. ASSUME NEW w \in Worker, NEW r \in Operation, op' = [op EXCEPT ![w] = r],
             stage' = [stage EXCEPT ![w] = "clear"], r.kind # "none",
             r.id \in KeyId, fate'[r.id] # "unused", r.kind = "revoke" => r.index >= 1,
             r.kind = "delete" => r.index >= 1 /\ Len(r.record) = 1 /\ r.record[1].id = r.id
      PROVE  InOperation'
  <2> SUFFICES ASSUME NEW v \in Worker
               PROVE  /\ op'[v].kind = "none" <=> stage'[v] \in {"idle", "mark"}
                      /\ op'[v].kind # "none" => op'[v].id \in KeyId /\ fate'[op'[v].id] # "unused"
                      /\ op'[v].kind = "revoke" => op'[v].index >= 1
                      /\ op'[v].kind = "delete" =>
                           /\ op'[v].index >= 1 /\ Len(op'[v].record) = 1
                           /\ op'[v].record[1].id = op'[v].id
    BY DEF InOperation
  <2>1. CASE v = w
    BY <1>0, <1>1, <2>1 DEF TypeOK, Process
  <2>2. CASE v # w
    BY <1>0, <1>1, <2>2, StepDrawn DEF TypeOK, Process, InOperation
  <2> QED
    BY <2>1, <2>2
<1>2. ASSUME NEW w \in Worker, NEW id \in KeyId, Create(w, id) PROVE InOperation'
  <2>1. PICK r : r = [kind |-> "create", id |-> id, index |-> 0, record |-> <<>>]
    OBVIOUS
  <2>2. r \in Operation /\ r.kind = "create" /\ r.id = id
    BY <2>1, Types DEF Operation
  <2>3. op' = [op EXCEPT ![w] = r] /\ stage' = [stage EXCEPT ![w] = "clear"] /\ fate'[id] = "creating"
    BY <1>0, <1>2, <2>1 DEF Create, Change, GoTo, TypeOK
  <2> QED
    BY <1>1, <2>2, <2>3
<1>3. ASSUME NEW w \in Worker, NEW i \in 1..Len(data), Delete(w, i) PROVE InOperation'
  <2>1. data[i] \in Key /\ data[i].id \in KeyId
    BY <1>3, DeleteData DEF Key
  <2>2. PICK r : r = [kind |-> "delete", id |-> data[i].id, index |-> i, record |-> <<data[i]>>]
    OBVIOUS
  <2>3. /\ r \in Operation /\ r.kind = "delete" /\ r.id = data[i].id /\ r.index >= 1
        /\ Len(r.record) = 1 /\ r.record[1] = data[i]
    <3>1. <<data[i]>> \in Seq(Key) /\ Len(<<data[i]>>) = 1 /\ <<data[i]>>[1] = data[i] /\ i \in Nat
      BY <2>1
    <3> QED
      BY <2>1, <2>2, <3>1 DEF Operation
  <2>4. op' = [op EXCEPT ![w] = r] /\ stage' = [stage EXCEPT ![w] = "clear"]
        /\ fate'[data[i].id] = "deleting"
    BY <1>0, <1>3, <2>1, <2>2 DEF Delete, Change, GoTo, TypeOK
  <2> QED
    BY <1>1, <2>1, <2>3, <2>4
<1>4. ASSUME NEW w \in Worker, NEW i \in 1..Len(data), NEW revoked \in BOOLEAN,
             Revoke(w, i) \/ Update(w, i, revoked)
      PROVE  InOperation'
  <2>1. data[i].id \in KeyId /\ data[i].id \in Ids(data)
    BY <1>4, FlagData DEF Key
  <2>2. PICK kind \in {"revoke", "update"} :
          /\ op' = [op EXCEPT ![w] =
                      [kind |-> kind, id |-> data[i].id, index |-> i, record |-> <<>>]]
          /\ stage' = [stage EXCEPT ![w] = "clear"]
    BY <1>4 DEF Revoke, Update, Change, GoTo
  <2> DEFINE r == [kind |-> kind, id |-> data[i].id, index |-> i, record |-> <<>>]
  <2>3. r \in Operation /\ r.kind \in {"revoke", "update"} /\ r.id = data[i].id /\ r.index >= 1
    BY <2>1, Types DEF Operation
  <2>4. fate[data[i].id] # "unused"
    BY <2>1 DEF IInv, Unrepeated
  <2> HIDE DEF r
  <2> QED
    BY <1>1, <2>1, <2>2, <2>3, <2>4, StepDrawn DEF r
<1>5. ASSUME NEW w \in Worker, NEW i \in 1..Len(data), Authenticate(w, i) PROVE InOperation'
  <2>1. UNCHANGED op /\ stage[w] = "idle" /\ stage' = [stage EXCEPT ![w] = "mark"]
    BY <1>5 DEF Authenticate, Ready, GoTo
  <2> QED
    BY <1>0, <2>1, OperationKept DEF TypeOK, Process
<1>6. ASSUME NEW w \in Worker, Continue(w) PROVE InOperation'
  <2>1. op' = [op EXCEPT ![w] = NoOp] /\ stage' = [stage EXCEPT ![w] = "idle"]
    BY <1>6 DEF Continue, Acknowledge, Undo, Panic, Fail, GoTo
  <2>2. op'[w].kind = "none" /\ stage'[w] = "idle"
    BY <1>0, <2>1 DEF TypeOK, Process, NoOp
  <2>3. \A v \in Worker : v # w => op'[v] = op[v] /\ stage'[v] = stage[v]
    BY <1>0, <2>1 DEF TypeOK, Process
  <2> QED
    BY <1>0, <2>2, <2>3, StepDrawn DEF InOperation
<1>7. ASSUME NEW p \in Process, PersistStep(p) \/ (Tick /\ p = Loop), UNCHANGED op PROVE InOperation'
  <2>1. /\ stage[p] # "idle" \/ p = Loop
        /\ stage[p] = "mark" => stage'[p] = "idle"
        /\ stage[p] # "mark" => stage'[p] \notin {"idle", "mark"} \/ p = Loop
        /\ \A q \in Process : q # p => stage'[q] = stage[q]
    BY <1>0, <1>7
    DEF PersistStep, MarkDirty, ClearDirty, Snapshot, WriteSucceeds, WriteFails, Tick, GoTo, TypeOK
  <2> QED
    BY <1>7, <2>1, OperationKept, LoopAssumption DEF Process
<1>8. CASE Restart
  BY <1>8 DEF Restart, Reload, InOperation, NoOp, Process
<1>9. CASE Shutdown \/ UNCHANGED vars
  BY <1>9, OperationKept DEF Shutdown, vars, persistVars
<1> QED
  BY <1>2, <1>3, <1>4, <1>5, <1>6, <1>7, <1>8, <1>9
  DEF Next, Handle, Save, LoopTick, Process

\* The parts of the invariant that are about keys.
KeysInv == Unrepeated /\ Deletions /\ DeletedIsGone /\ CreatedIsKept

\* Every step keeps ids apart, what was deleted gone and what was created in its places.
LEMMA StepKeys ==
  ASSUME IInv, [Next]_vars
  PROVE  KeysInv'
<1>0. TypeOK /\ KeysInv
  BY DEF IInv, KeysInv
<1>1. ASSUME NEW w \in Worker, NEW id \in KeyId, Create(w, id) PROVE KeysInv'
  <2>1. /\ Distinct(data') /\ Ids(data') = Ids(data) \cup {id}
        /\ UNCHANGED <<disk, writing, image, failed>>
        /\ fate[id] = "unused" /\ fate' = [fate EXCEPT ![id] = "creating"]
        /\ op'[w].kind = "create" /\ op'[w].id = id /\ stage'[w] = "clear"
        /\ \A v \in Worker : v # w => op'[v] = op[v] /\ stage'[v] = stage[v]
    BY <1>0, <1>1, CreateData DEF Create, Change, GoTo, TypeOK, Process
  <2>2. Unrepeated'
    BY <1>0, <2>1 DEF KeysInv, Unrepeated, NotWriting, TypeOK
  <2>3. Deletions'
    BY <1>0, <2>1 DEF KeysInv, Deletions, IInv, InOperation, NotWriting, Gone
  <2>4. DeletedIsGone'
    <3>1. ASSUME NEW k \in KeyId, fate'[k] = "deleted" PROVE fate[k] = "deleted" /\ k # id
      BY <1>0, <2>1, <3>1 DEF TypeOK
    <3> QED
      BY <1>0, <2>1, <3>1 DEF KeysInv, DeletedIsGone, NotWriting, Gone
  <2>5. CreatedIsKept'
    <3> SUFFICES ASSUME ~failed PROVE CreatedIsKept'
      BY <2>1 DEF CreatedIsKept
    <3>1. \A k \in KeyId : fate'[k] \in {"creating", "created"} => k \in Ids(data')
      BY <1>0, <2>1 DEF KeysInv, CreatedIsKept, TypeOK
    <3>2. \A k \in KeyId : fate'[k] = "created" => k \in Ids(disk') /\ Writing(k)'
      BY <1>0, <2>1 DEF KeysInv, CreatedIsKept, Writing, TypeOK
    <3>3. \A v \in Worker : op'[v].kind = "create" /\ fate'[op'[v].id] = "creating" =>
            /\ stage'[v] = "write" => Writing(op[v].id)'
            /\ stage'[v] = "saved" => op'[v].id \in Ids(disk') /\ Writing(op[v].id)'
      <4> SUFFICES ASSUME NEW v \in Worker, op'[v].kind = "create", fate'[op'[v].id] = "creating"
                   PROVE  /\ stage'[v] = "write" => Writing(op[v].id)'
                          /\ stage'[v] = "saved" => op'[v].id \in Ids(disk') /\ Writing(op[v].id)'
        OBVIOUS
      <4>1. CASE v = w
        BY <2>1, <4>1
      <4>2. CASE v # w
        <5>1. op'[v] = op[v] /\ stage'[v] = stage[v] /\ op[v].id \in KeyId /\ fate[op[v].id] # "unused"
          BY <2>1, <4>2 DEF IInv, InOperation
        <5>2. fate[op[v].id] = "creating"
          BY <1>0, <2>1, <5>1 DEF TypeOK
        <5> QED
          BY <1>0, <2>1, <5>1, <5>2 DEF KeysInv, CreatedIsKept, Writing
      <4> QED
        BY <4>1, <4>2
    <3> QED
      BY <3>1, <3>2, <3>3 DEF CreatedIsKept
  <2> QED
    BY <2>2, <2>3, <2>4, <2>5 DEF KeysInv
<1>2. ASSUME NEW w \in Worker, NEW i \in 1..Len(data), Delete(w, i) PROVE KeysInv'
  <2>0. PICK id \in KeyId : id = data[i].id
    BY <1>2, DeleteData DEF Key
  <2>1. /\ id \in Ids(data) /\ Distinct(data') /\ Ids(data') = Ids(data) \ {id}
        /\ UNCHANGED <<disk, writing, image, failed>>
        /\ fate' = [fate EXCEPT ![id] = "deleting"]
        /\ op'[w].kind = "delete" /\ op'[w].id = id /\ stage'[w] = "clear"
        /\ \A v \in Worker : v # w => op'[v] = op[v] /\ stage'[v] = stage[v]
    BY <1>0, <1>2, <2>0, DeleteData DEF Delete, Change, GoTo, TypeOK, Process
  <2>2. Unrepeated'
    BY <1>0, <2>1 DEF KeysInv, Unrepeated, NotWriting, TypeOK
  <2>3. Deletions'
    BY <1>0, <2>1 DEF KeysInv, Deletions, NotWriting, Gone
  <2>4. DeletedIsGone'
    BY <1>0, <2>1 DEF KeysInv, DeletedIsGone, NotWriting, Gone, TypeOK
  <2>5. CreatedIsKept'
    <3> SUFFICES ASSUME ~failed PROVE CreatedIsKept'
      BY <2>1 DEF CreatedIsKept
    <3>1. \A k \in KeyId : fate'[k] \in {"creating", "created"} => k \in Ids(data')
      BY <1>0, <2>1 DEF KeysInv, CreatedIsKept, TypeOK
    <3>2. \A k \in KeyId : fate'[k] = "created" => k \in Ids(disk') /\ Writing(k)'
      BY <1>0, <2>1 DEF KeysInv, CreatedIsKept, Writing, TypeOK
    <3>3. \A v \in Worker : op'[v].kind = "create" /\ fate'[op'[v].id] = "creating" =>
            /\ stage'[v] = "write" => Writing(op[v].id)'
            /\ stage'[v] = "saved" => op'[v].id \in Ids(disk') /\ Writing(op[v].id)'
      <4> SUFFICES ASSUME NEW v \in Worker, op'[v].kind = "create", fate'[op'[v].id] = "creating"
                   PROVE  /\ stage'[v] = "write" => Writing(op[v].id)'
                          /\ stage'[v] = "saved" => op'[v].id \in Ids(disk') /\ Writing(op[v].id)'
        OBVIOUS
      <4>1. CASE v = w
        BY <2>1, <4>1
      <4>2. CASE v # w
        <5>1. op'[v] = op[v] /\ stage'[v] = stage[v] /\ op[v].id \in KeyId /\ fate[op[v].id] # "unused"
          BY <2>1, <4>2 DEF IInv, InOperation
        <5>2. fate[op[v].id] = "creating"
          BY <1>0, <2>1, <5>1 DEF TypeOK
        <5> QED
          BY <1>0, <2>1, <5>1, <5>2 DEF KeysInv, CreatedIsKept, Writing
      <4> QED
        BY <4>1, <4>2
    <3> QED
      BY <3>1, <3>2, <3>3 DEF CreatedIsKept
  <2> QED
    BY <2>2, <2>3, <2>4, <2>5 DEF KeysInv
<1>3. ASSUME NEW w \in Worker, NEW i \in 1..Len(data), NEW revoked \in BOOLEAN,
             Revoke(w, i) \/ Update(w, i, revoked) \/ Authenticate(w, i)
      PROVE  KeysInv'
  <2>1. /\ Distinct(data') /\ Ids(data') = Ids(data)
        /\ UNCHANGED <<disk, writing, image, failed, fate>>
        /\ op'[w].kind \notin {"create", "delete"}
        /\ \A v \in Worker : v # w => op'[v] = op[v] /\ stage'[v] = stage[v]
    <3>1. Distinct(data') /\ Ids(data') = Ids(data)
      BY <1>3, FlagData
    <3>2. Authenticate(w, i) => op[w].kind = "none"
      BY DEF Authenticate, Ready, IInv, InOperation
    <3> QED
      BY <1>0, <1>3, <3>1, <3>2
      DEF Revoke, Update, Authenticate, Change, GoTo, TypeOK, Process
  <2>2. Unrepeated'
    BY <1>0, <2>1 DEF KeysInv, Unrepeated, NotWriting
  <2>3. Deletions'
    BY <1>0, <2>1 DEF KeysInv, Deletions, NotWriting, Gone
  <2>4. DeletedIsGone'
    BY <1>0, <2>1 DEF KeysInv, DeletedIsGone, NotWriting, Gone
  <2>5. CreatedIsKept'
    BY <1>0, <2>1 DEF KeysInv, CreatedIsKept, Writing
  <2> QED
    BY <2>2, <2>3, <2>4, <2>5 DEF KeysInv
<1>4. ASSUME NEW w \in Worker, Acknowledge(w) PROVE KeysInv'
  <2>1. /\ UNCHANGED <<data, disk, writing, image, failed>>
        /\ stage[w] = "saved" /\ op'[w].kind = "none"
        /\ \A v \in Worker : v # w => op'[v] = op[v] /\ stage'[v] = stage[v]
    BY <1>0, <1>4 DEF Acknowledge, GoTo, TypeOK, Process, NoOp
  <2>2. /\ op[w].id \in KeyId
        /\ \A id \in KeyId : id # op[w].id => fate'[id] = fate[id]
        /\ fate'[op[w].id] = CASE op[w].kind = "create" /\ fate[op[w].id] = "creating" -> "created"
                                [] op[w].kind = "delete" -> "deleted"
                                [] OTHER -> fate[op[w].id]
    BY <1>4, AcknowledgeFate
  <2>3. Unrepeated'
    BY <1>0, <2>1, <2>2 DEF KeysInv, Unrepeated, NotWriting
  <2>4. Deletions'
    BY <1>0, <2>1 DEF KeysInv, Deletions, NotWriting, Gone
  <2>5. DeletedIsGone'
    BY <1>0, <2>1, <2>2 DEF KeysInv, Deletions, DeletedIsGone, NotWriting, Gone
  <2>6. CreatedIsKept'
    <3> SUFFICES ASSUME ~failed PROVE CreatedIsKept'
      BY <2>1 DEF CreatedIsKept
    <3>1. \A k \in KeyId : fate'[k] \in {"creating", "created"} => k \in Ids(data')
      BY <1>0, <2>1, <2>2 DEF KeysInv, CreatedIsKept, TypeOK
    <3>2. \A k \in KeyId : fate'[k] = "created" => k \in Ids(disk') /\ Writing(k)'
      BY <1>0, <2>1, <2>2 DEF KeysInv, CreatedIsKept, Writing, TypeOK
    <3>3. \A v \in Worker : op'[v].kind = "create" /\ fate'[op'[v].id] = "creating" =>
            /\ stage'[v] = "write" => Writing(op[v].id)'
            /\ stage'[v] = "saved" => op'[v].id \in Ids(disk') /\ Writing(op[v].id)'
      <4> SUFFICES ASSUME NEW v \in Worker, op'[v].kind = "create", fate'[op'[v].id] = "creating"
                   PROVE  /\ stage'[v] = "write" => Writing(op[v].id)'
                          /\ stage'[v] = "saved" => op'[v].id \in Ids(disk') /\ Writing(op[v].id)'
        OBVIOUS
      <4>1. CASE v = w
        BY <2>1, <2>2, <4>1
      <4>2. CASE v # w
        <5>1. op'[v] = op[v] /\ stage'[v] = stage[v] /\ op[v].id \in KeyId /\ fate[op[v].id] # "unused"
          BY <2>1, <2>2, <4>2 DEF IInv, InOperation
        <5>2. fate[op[v].id] = "creating"
          BY <1>0, <2>1, <2>2, <5>1 DEF TypeOK
        <5> QED
          BY <1>0, <2>1, <2>2, <5>1, <5>2 DEF KeysInv, CreatedIsKept, Writing
      <4> QED
        BY <4>1, <4>2
    <3> QED
      BY <3>1, <3>2, <3>3 DEF CreatedIsKept
  <2> QED
    BY <2>3, <2>4, <2>5, <2>6 DEF KeysInv
<1>5. ASSUME NEW w \in Worker, Undo(w) \/ Panic(w) PROVE KeysInv'
  <2>1. /\ UNCHANGED <<disk, writing, image, failed>> /\ op'[w].kind = "none"
        /\ \A v \in Worker : v # w => op'[v] = op[v] /\ stage'[v] = stage[v]
    BY <1>0, <1>5 DEF Undo, Panic, Fail, GoTo, TypeOK, Process, NoOp
  <2>2. /\ failed /\ op[w].id \in KeyId /\ fate[op[w].id] # "unused"
        /\ \A id \in KeyId : id # op[w].id => fate'[id] = fate[id]
        /\ op[w].kind = "delete" => fate'[op[w].id] = "failed"
        /\ fate'[op[w].id] \in {"failed", fate[op[w].id]}
    BY <1>5, FailFate DEF Undo, Panic, IInv, InOperation
  <2>3. /\ Distinct(data')
        /\ Ids(data') \subseteq Ids(data) \cup (IF op[w].kind = "delete" THEN {op[w].id} ELSE {})
    BY <1>0, <1>5, UndoData DEF Panic, KeysInv, Unrepeated
  <2>4. Unrepeated'
    BY <1>0, <2>1, <2>2, <2>3 DEF KeysInv, Unrepeated, NotWriting
  <2>5. Deletions'
    BY <1>0, <2>1, <2>3 DEF KeysInv, Deletions, NotWriting, Gone
  <2>6. DeletedIsGone'
    BY <1>0, <2>1, <2>2, <2>3 DEF KeysInv, Deletions, DeletedIsGone, NotWriting, Gone
  <2>7. CreatedIsKept'
    BY <2>1, <2>2 DEF CreatedIsKept
  <2> QED
    BY <2>4, <2>5, <2>6, <2>7 DEF KeysInv
<1>6. ASSUME NEW p \in Process, MarkDirty(p) \/ ClearDirty(p) \/ (Tick /\ p = Loop),
             UNCHANGED <<op, fate>>
      PROVE  KeysInv'
  <2>1. /\ UNCHANGED <<data, disk, writing, image, failed>>
        /\ \A v \in Worker : stage'[v] \in {"write", "saved"} => stage'[v] = stage[v]
    BY <1>0, <1>6 DEF MarkDirty, ClearDirty, Tick, GoTo, TypeOK, Process
  <2> QED
    BY <1>0, <1>6, <2>1
    DEF KeysInv, Unrepeated, Deletions, DeletedIsGone, CreatedIsKept, NotWriting, Writing, Gone
<1>7. ASSUME NEW p \in Process, Snapshot(p), UNCHANGED <<op, fate>> PROVE KeysInv'
  <2>1. /\ UNCHANGED <<data, disk, failed>> /\ writing' = p /\ image'[p][1] = data
        /\ \A v \in Worker : stage'[v] # "saved" \/ stage[v] = "saved"
    BY <1>0, <1>7, Types DEF Snapshot, GoTo, TypeOK, Process
  <2>2. Unrepeated'
    BY <1>0, <1>7, <2>1 DEF KeysInv, Unrepeated, NotWriting
  <2>3. Deletions'
    BY <1>0, <1>7, <2>1 DEF KeysInv, Deletions, NotWriting, Gone
  <2>4. DeletedIsGone'
    BY <1>0, <1>7, <2>1 DEF KeysInv, DeletedIsGone, NotWriting, Gone
  <2>5. CreatedIsKept'
    BY <1>0, <1>7, <2>1 DEF KeysInv, CreatedIsKept, Writing, IInv, InOperation
  <2> QED
    BY <2>2, <2>3, <2>4, <2>5 DEF KeysInv
<1>8. ASSUME NEW p \in Process, WriteSucceeds(p) \/ WriteFails(p), UNCHANGED <<op, fate>>
      PROVE  KeysInv'
  <2>1. writing = p /\ p # Nobody
    BY <1>8, LoopAssumption DEF WriteSucceeds, WriteFails, IInv, OneWriter, Process
  <2>2. /\ UNCHANGED data /\ writing' = Nobody
        /\ \/ disk' = image[writing][1] /\ UNCHANGED failed
           \/ disk' = disk /\ failed'
        /\ failed => failed'
        /\ \A v \in Worker : stage'[v] # "write" /\ (stage'[v] = "saved" =>
             stage[v] = "saved" \/ (stage[v] = "write" /\ disk' = image[writing][1]))
    <3>1. \A v \in Worker : v # p => stage'[v] = stage[v] /\ stage[v] # "write"
      BY <1>0, <1>8, <2>1 DEF WriteSucceeds, WriteFails, GoTo, TypeOK, Process, IInv, OneWriter
    <3>2. stage[p] = "write" /\ stage'[p] # "write" /\ (stage'[p] = "saved" => disk' = image[p][1])
      BY <1>0, <1>8 DEF WriteSucceeds, WriteFails, GoTo, TypeOK
    <3> QED
      BY <1>8, <2>1, <3>1, <3>2 DEF WriteSucceeds, WriteFails
  <2>3. Unrepeated'
    BY <1>0, <1>8, <2>1, <2>2 DEF KeysInv, Unrepeated, NotWriting
  <2>4. Deletions'
    BY <1>0, <1>8, <2>1, <2>2 DEF KeysInv, Deletions, NotWriting, Gone
  <2>5. DeletedIsGone'
    BY <1>0, <1>8, <2>1, <2>2 DEF KeysInv, DeletedIsGone, NotWriting, Gone
  <2>6. CreatedIsKept'
    BY <1>0, <1>8, <2>1, <2>2 DEF KeysInv, CreatedIsKept, Writing
  <2> QED
    BY <2>3, <2>4, <2>5, <2>6 DEF KeysInv
<1>9. CASE Restart
  <2>1. /\ data' = disk /\ UNCHANGED <<disk, failed>> /\ writing' = Nobody
        /\ \A w \in Worker : op'[w].kind = "none"
        /\ \A id \in KeyId : fate'[id] =
             IF fate[id] \in {"creating", "deleting"} THEN "failed" ELSE fate[id]
    BY <1>9 DEF Restart, Reload, NoOp
  <2> QED
    BY <1>0, <2>1
    DEF KeysInv, Unrepeated, Deletions, DeletedIsGone, CreatedIsKept, NotWriting, Writing, Gone
<1>10. CASE Shutdown \/ UNCHANGED vars
  BY <1>0, <1>10
  DEF Shutdown, vars, persistVars, KeysInv, Unrepeated, Deletions, DeletedIsGone, CreatedIsKept,
      NotWriting, Writing, Gone
<1> QED
  BY <1>1, <1>2, <1>3, <1>4, <1>5, <1>6, <1>7, <1>8, <1>9, <1>10
  DEF Next, Handle, Continue, Save, PersistStep, LoopTick, Process

\* Every step that takes away what announces a change takes the change into a copy.
LEMMA StepForgotten ==
  ASSUME IInv, NothingForgotten, [Next]_vars
  PROVE  NothingForgotten'
<1>0. TypeOK /\ OneWriter
  BY DEF IInv
<1>1. ASSUME NEW w \in Worker, Handle(w) PROVE NothingForgotten'
  <2>1. w \in Process /\ stage'[w] \in {"clear", "mark"}
    BY <1>0, <1>1
    DEF Handle, Create, Delete, Revoke, Update, Authenticate, Change, GoTo, TypeOK, Process
  <2> QED
    BY <2>1 DEF NothingForgotten
<1>2. ASSUME NEW w \in Worker, Acknowledge(w) PROVE NothingForgotten'
  <2>1. UNCHANGED <<data, disk, dirty, writing, image, failed>> /\ stage[w] = "saved"
        /\ \A p \in Process : p # w => stage'[p] = stage[p]
    BY <1>0, <1>2 DEF Acknowledge, GoTo, TypeOK
  <2> QED
    BY <2>1 DEF NothingForgotten, Settled
<1>3. ASSUME NEW w \in Worker, Undo(w) \/ Panic(w) PROVE NothingForgotten'
  <2>1. failed'
    BY <1>3, FailFate DEF Undo, Panic
  <2> QED
    BY <2>1 DEF NothingForgotten
<1>4. ASSUME NEW p \in Process, MarkDirty(p) \/ ClearDirty(p) \/ (Tick /\ p = Loop)
      PROVE  NothingForgotten'
  <2>1. dirty' \/ stage'[p] = "acquire"
    BY <1>0, <1>4 DEF MarkDirty, ClearDirty, Tick, GoTo, TypeOK
  <2> QED
    BY <2>1 DEF NothingForgotten
<1>5. ASSUME NEW p \in Process, Snapshot(p) PROVE NothingForgotten'
  <2>1. data' = Settled'
    BY <1>0, <1>5, Types, LoopAssumption DEF Snapshot, Settled, TypeOK, Process
  <2> QED
    BY <2>1 DEF NothingForgotten
<1>6. ASSUME NEW p \in Process, WriteSucceeds(p) \/ WriteFails(p) PROVE NothingForgotten'
  <2>1. writing = p /\ p # Nobody
    BY <1>6, LoopAssumption DEF WriteSucceeds, WriteFails, IInv, OneWriter, Process
  <2>2. CASE WriteFails(p)
    BY <2>2 DEF WriteFails, NothingForgotten
  <2>3. CASE WriteSucceeds(p)
    <3>1. UNCHANGED <<data, dirty, failed>> /\ Settled' = Settled
      BY <2>1, <2>3 DEF WriteSucceeds, Settled
    <3>2. /\ stage[p] = "write" /\ \A q \in Process : q # p => stage'[q] = stage[q]
      BY <1>0, <2>3 DEF WriteSucceeds, GoTo, TypeOK
    <3> QED
      BY <3>1, <3>2 DEF NothingForgotten
  <2> QED
    BY <1>6, <2>2, <2>3
<1>7. CASE Restart
  BY <1>7 DEF Restart, Reload, NothingForgotten, Settled
<1>8. CASE Shutdown \/ UNCHANGED vars
  BY <1>8 DEF Shutdown, vars, persistVars, NothingForgotten, Settled
<1> QED
  BY <1>1, <1>2, <1>3, <1>4, <1>5, <1>6, <1>7, <1>8
  DEF Next, Continue, Save, PersistStep, LoopTick, Process

\* The induction.
LEMMA Invariance == Spec => []IInv
<1>1. IInv /\ [Next]_vars => IInv'
  BY StepType, StepWriter, StepOperation, StepKeys DEF IInv, KeysInv
<1> QED
  BY <1>1, InitInv, PTL DEF Spec

-----------------------------------------------------------------------------
\* Lists, files, copies and operations are always what their types say.
THEOREM TypeCorrect == Spec => []TypeOK
<1>1. IInv => TypeOK
  BY DEF IInv
<1> QED
  BY <1>1, Invariance, PTL

\* A change of the list is always on its way to the file, or announced, until a write fails.
THEOREM ChangesAreAnnounced == Spec => []NothingForgotten
<1>1. Init => NothingForgotten
  BY DEF Init, PersistInit, NothingForgotten, Settled
<1>2. IInv /\ NothingForgotten /\ [Next]_vars => NothingForgotten'
  BY StepForgotten
<1> QED
  BY <1>1, <1>2, Invariance, PTL DEF Spec

\* A key whose deletion was reported never comes back, for any handlers, keys and failures.
THEOREM DeletionIsFinal == Spec => []DeletedForever
<1>1. IInv => DeletedForever
  BY DEF IInv, DeletedIsGone, Gone, DeletedForever
<1> QED
  BY <1>1, Invariance, PTL

\* A key whose creation was reported is in the file as long as no write has failed.
THEOREM CreationIsDurable == Spec => []CreatedIsSaved
<1>1. IInv => CreatedIsSaved
  BY DEF IInv, CreatedIsKept, CreatedIsSaved
<1> QED
  BY <1>1, Invariance, PTL
=============================================================================
