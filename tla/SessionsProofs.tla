--------------------------- MODULE SessionsProofs ---------------------------
(***************************************************************************)
(* Sessions implements SessionMap: what the handlers of any number of      *)
(* requests see of ContextCache - a bounded memory, its eviction, files    *)
(* that may fail to be written, restarts - is one map.  On that rest       *)
(* what becomes of conversations (a dropped one does not come back to its  *)
(* session), of client session ids (one first turn each), and the types.   *)
(***************************************************************************)
EXTENDS Sessions, SequenceTheorems, TLAPS

\* Memory holds states of sessions, and so do the files.
CacheTyped ==
  /\ DOMAIN mem \subseteq Session
  /\ mem \in [DOMAIN mem -> State]
  /\ disk \in [Session -> State]

\* A session in memory that was saved is in its file as it is in memory: that is why it may be evicted.
Agrees == \A s \in DOMAIN mem \ lagging : mem[s] = disk[s]

\* Requests hold what they may.
RequestsTyped ==
  /\ req \in [Request -> RequestRecord]
  /\ owner \in Seq(Session \cup {NoSession}) /\ Len(owner) <= MaxConv
  /\ begun \in Seq(SUBSET BOOLEAN)
  /\ responses \in Nat
  /\ enabled \in BOOLEAN

\* A request that counts a turn, adopts a conversation or drops one has a session, and so has one that
\* repairs its calls.
Sited ==
  \A r \in Request :
    /\ req[r].pc \in {"turn", "count", "adopt", "store", "drop"} => req[r].sid # NoSession
    /\ req[r].asked /\ req[r].kind \in Tooled => req[r].sid # NoSession

\* The inductive invariant.
IInv == CacheTyped /\ Agrees /\ RequestsTyped /\ Sited

\* What the handlers see of a session after a step.
After(s) == IF s \in DOMAIN mem' THEN mem'[s] ELSE disk'[s]

-----------------------------------------------------------------------------
(* ContextCache. *)

\* No session's state is a state.
LEMMA EmptyIsState == Empty \in State
BY SessionsAssumption DEF Empty, State, Conv

\* Evicting takes an entry out of memory or none, and changes no other.
LEMMA EvictShrinks ==
  ASSUME NEW D, NEW m \in [D -> State], NEW o, Evict(m, o)
  PROVE  /\ DOMAIN mem' \subseteq D
         /\ mem' \in [DOMAIN mem' -> State]
         /\ \A s \in DOMAIN mem' : mem'[s] = m[s]
<1>1. CASE Len(o) > MemSize
  <2>1. mem' = [q \in D \ {Head(o)} |-> m[q]]
    BY <1>1 DEF Evict, Without
  <2> QED
    BY <2>1
<1>2. CASE ~(Len(o) > MemSize)
  BY <1>2 DEF Evict
<1> QED
  BY <1>1, <1>2

\* Adding an entry gives a memory of sessions.
LEMMA WithIsMemory ==
  ASSUME CacheTyped, NEW s \in Session, NEW st \in State
  PROVE  /\ With(mem, s, st) \in [DOMAIN mem \cup {s} -> State]
         /\ With(mem, s, st)[s] = st
         /\ \A q \in DOMAIN mem \ {s} : With(mem, s, st)[q] = mem[q]
BY DEF CacheTyped, With

\* What a session holds is a state.
LEMMA ValueIsState ==
  ASSUME CacheTyped, NEW s \in Session
  PROVE  Value(s) \in State
BY DEF CacheTyped, Value

\* What is got is what the session holds, or nothing.
LEMMA GotIsState ==
  ASSUME CacheTyped, NEW s \in Session \cup {NoSession}
  PROVE  Got(s) \in State
BY ValueIsState, EmptyIsState DEF Got

\* Reading a session changes none that was saved.
LEMMA GetKeeps ==
  ASSUME CacheTyped, Agrees, NEW s \in Session \cup {NoSession}, GetSession(s)
  PROVE  /\ CacheTyped' /\ Agrees' /\ UNCHANGED lagging
         /\ \A q \in Session \ lagging : After(q) = Value(q)
<1>1. CASE enabled /\ s # NoSession /\ s \notin DOMAIN mem /\ disk[s] # Empty
  <2>1. s \in Session /\ disk[s] \in State
    BY <1>1 DEF CacheTyped
  <2> DEFINE m == With(mem, s, disk[s])
  <2>2. m \in [DOMAIN mem \cup {s} -> State] /\ m[s] = disk[s] /\ \A q \in DOMAIN mem : m[q] = mem[q]
    BY <1>1, <2>1, WithIsMemory
  <2>3. Evict(m, Append(order, s)) /\ disk' = disk /\ lagging' = lagging
    BY <1>1 DEF GetSession
  <2> HIDE DEF m
  <2>4. /\ DOMAIN mem' \subseteq DOMAIN mem \cup {s} /\ mem' \in [DOMAIN mem' -> State]
        /\ \A q \in DOMAIN mem' : mem'[q] = m[q]
    BY <2>2, <2>3, EvictShrinks
  <2> QED
    BY <1>1, <2>1, <2>2, <2>3, <2>4 DEF CacheTyped, Agrees, After, Value
<1>2. CASE ~(enabled /\ s # NoSession /\ s \notin DOMAIN mem /\ disk[s] # Empty)
  BY <1>2 DEF GetSession, CacheTyped, Agrees, After, Value
<1> QED
  BY <1>1, <1>2

\* Storing a session changes no other that was saved.
LEMMA SetKeeps ==
  ASSUME CacheTyped, Agrees, enabled, NEW s \in Session, NEW st \in State, SetSession(s, st)
  PROVE  /\ CacheTyped' /\ Agrees' /\ lagging' \in {lagging \ {s}, lagging \cup {s}}
         /\ \A q \in Session \ ({s} \cup lagging) : After(q) = Value(q)
         /\ After(s) \in State
<1> DEFINE kept == IF st.conv = 0 /\ s \in DOMAIN mem THEN [st EXCEPT !.conv = mem[s].conv] ELSE st
           m == With(mem, s, kept)
<1>1. kept \in State
  BY DEF State, CacheTyped
<1>2. Evict(m, Append(Unlisted(order, s), s)) /\ Filed(s, kept)
  BY DEF SetSession
<1> HIDE DEF kept
<1>3. m \in [DOMAIN mem \cup {s} -> State] /\ m[s] = kept /\ \A q \in DOMAIN mem \ {s} : m[q] = mem[q]
  BY <1>1, WithIsMemory
<1> HIDE DEF m
<1>4. /\ DOMAIN mem' \subseteq DOMAIN mem \cup {s} /\ mem' \in [DOMAIN mem' -> State]
      /\ \A q \in DOMAIN mem' : mem'[q] = m[q]
  BY <1>2, <1>3, EvictShrinks
<1>5. /\ disk' \in [Session -> State] /\ \A q \in Session \ {s} : disk'[q] = disk[q]
      /\ \/ lagging' = lagging \ {s} /\ disk'[s] = kept
         \/ lagging' = lagging \cup {s}
  BY <1>1, <1>2, EmptyIsState DEF Filed, CacheTyped
<1> QED
  BY <1>3, <1>4, <1>5 DEF CacheTyped, Agrees, After, Value

\* Deleting a session changes no other, and leaves nothing of it that was saved.
LEMMA DeleteKeeps ==
  ASSUME CacheTyped, Agrees, NEW s \in Session, DeleteSession(s)
  PROVE  /\ CacheTyped' /\ Agrees'
         /\ \A q \in Session \ ({s} \cup lagging) : After(q) = Value(q)
         /\ (After(s) = Empty /\ lagging' = lagging \ {s}) \/ lagging' = lagging \cup {s}
<1>1. DOMAIN mem' = DOMAIN mem \ {s} /\ mem' \in [DOMAIN mem' -> State]
      /\ \A q \in DOMAIN mem' : mem'[q] = mem[q]
  BY DEF DeleteSession, Without, CacheTyped
<1>2. /\ disk' \in [Session -> State] /\ \A q \in Session \ {s} : disk'[q] = disk[q]
      /\ \/ lagging' = lagging \ {s} /\ disk'[s] = Empty
         \/ lagging' = lagging \cup {s}
  BY EmptyIsState DEF DeleteSession, CacheTyped
<1> QED
  BY <1>1, <1>2 DEF CacheTyped, Agrees, After, Value

-----------------------------------------------------------------------------
(* The requests. *)

\* A nonempty set of at most eight positions has a first one.
LEMMA FirstPosition ==
  ASSUME NEW S \in SUBSET (1..8), S # {}
  PROVE  \E i \in S : \A j \in S : i <= j
<1>1. CASE 1 \in S
  BY <1>1
<1>2. CASE 1 \notin S /\ 2 \in S
  BY <1>2
<1>3. CASE {1, 2} \cap S = {} /\ 3 \in S
  BY <1>3
<1>4. CASE {1, 2, 3} \cap S = {} /\ 4 \in S
  BY <1>4
<1>5. CASE {1, 2, 3, 4} \cap S = {} /\ 5 \in S
  BY <1>5
<1>6. CASE {1, 2, 3, 4, 5} \cap S = {} /\ 6 \in S
  BY <1>6
<1>7. CASE {1, 2, 3, 4, 5, 6} \cap S = {} /\ 7 \in S
  BY <1>7
<1>8. CASE {1, 2, 3, 4, 5, 6, 7} \cap S = {}
  <2>1. \A i \in S : i = 8
    BY <1>8
  <2>2. PICK i \in S : i = 8
    BY <2>1
  <2> QED
    BY <2>1, <2>2
<1> QED
  BY <1>1, <1>2, <1>3, <1>4, <1>5, <1>6, <1>7, <1>8

\* The handlers look at no more than eight sources.
LEMMA FewSources ==
  ASSUME NEW kind \in Kinds
  PROVE  Len(SourcesOf(kind)) \in 1..8
BY SessionsAssumption DEF SourcesOf, ChatSources, ResponsesSources, ImageSources, PlainSources

\* Whatever the client offers names a session, or none.
LEMMA SidType ==
  ASSUME NEW kind \in Kinds, NEW offer \in Offers, NEW n \in 1..MaxTurns
  PROVE  SidOf(kind, offer, n) \in Session \cup {NoSession}
<1> DEFINE sources == SourcesOf(kind)
           found == {i \in 1..Len(sources) : sources[i] \in offer}
           pos == CHOOSE i \in found : \A j \in found : i <= j
<1>1. CASE found = {}
  BY <1>1 DEF SidOf
<1>2. CASE found # {}
  <2>1. found \in SUBSET (1..8)
    BY FewSources
  <2>2. \E i \in found : \A j \in found : i <= j
    <3> HIDE DEF found
    <3> QED
      BY <1>2, <2>1, FirstPosition
  <2>3. pos \in found
    <3> HIDE DEF found
    <3> QED
      BY <2>2
  <2>4. sources[pos] \in UNION Offers
    <3>1. sources[pos] \in offer
      BY <2>3
    <3> QED
      BY <3>1
  <2>5. SidOf(kind, offer, n) = <<sources[pos], IF sources[pos] = "previous" THEN n ELSE 0>>
    BY <1>2 DEF SidOf
  <2> HIDE DEF pos, sources
  <2> QED
    BY <2>4, <2>5 DEF Session
<1> QED
  BY <1>1, <1>2

\* A request that has come or gone holds what a fresh one does.
LEMMA IdleType == Idle \in RequestRecord
BY EmptyIsState, SessionsAssumption DEF Idle, RequestRecord, Conv

LEMMA DoneType ==
  ASSUME RequestsTyped, NEW r \in Request, Done(r)
  PROVE  req' \in [Request -> RequestRecord]
BY IdleType DEF RequestsTyped, Done

\* So does one that goes on.
LEMMA GotoType ==
  ASSUME RequestsTyped, NEW r \in Request,
         NEW pc \in {"lookup", "turn", "count", "call", "sent", "publish", "adopt", "store", "end", "drop"},
         Goto(r, pc)
  PROVE  req' \in [Request -> RequestRecord]
<1>1. req[r] \in RequestRecord /\ req' = [req EXCEPT ![r] = [req[r] EXCEPT !.pc = pc]]
  BY DEF RequestsTyped, Goto
<1>2. [req[r] EXCEPT !.pc = pc] \in RequestRecord
  BY <1>1 DEF RequestRecord
<1> QED
  BY <1>1, <1>2 DEF RequestsTyped

\* A request that moves to a record with a session where it needs one leaves the requests in order.
LEMMA MoveKeeps ==
  ASSUME RequestsTyped, Sited, NEW r \in Request, NEW x \in RequestRecord,
         req' = [req EXCEPT ![r] = x],
         x.pc \in {"turn", "count", "adopt", "store", "drop"} => x.sid # NoSession,
         x.asked /\ x.kind \in Tooled => x.sid # NoSession
  PROVE  req' \in [Request -> RequestRecord] /\ Sited'
<1>1. req' \in [Request -> RequestRecord]
  BY DEF RequestsTyped
<1>2. req'[r] = x /\ \A q \in Request \ {r} : req'[q] = req[q]
  BY DEF RequestsTyped
<1> QED
  BY <1>1, <1>2 DEF Sited

\* One that is done leaves them in order.
LEMMA DoneKeeps ==
  ASSUME RequestsTyped, Sited, NEW r \in Request, Done(r)
  PROVE  req' \in [Request -> RequestRecord] /\ Sited'
<1>1. Idle.pc = "idle" /\ ~Idle.asked
  BY DEF Idle
<1> QED
  BY <1>1, IdleType, MoveKeeps DEF Done

\* One that goes on needs a session where it had one, or shows that it has one.
LEMMA GotoKeeps ==
  ASSUME RequestsTyped, Sited, NEW r \in Request,
         NEW pc \in {"lookup", "turn", "count", "call", "sent", "publish", "adopt", "store", "end", "drop"},
         Goto(r, pc),
         pc \in {"turn", "count", "adopt", "store", "drop"} => req[r].sid # NoSession
  PROVE  req' \in [Request -> RequestRecord] /\ Sited'
<1> DEFINE x == [req[r] EXCEPT !.pc = pc]
<1>1. req[r] \in RequestRecord /\ req' = [req EXCEPT ![r] = x]
  BY DEF RequestsTyped, Goto
<1>2. x \in RequestRecord
  BY <1>1 DEF RequestRecord
<1>3. /\ x.pc = pc /\ x.sid = req[r].sid
      /\ x.asked = req[r].asked /\ x.kind = req[r].kind
  BY <1>1 DEF RequestRecord
<1>4. x.asked /\ x.kind \in Tooled => x.sid # NoSession
  BY <1>3 DEF Sited
<1> HIDE DEF x
<1> QED
  BY <1>1, <1>2, <1>3, <1>4, MoveKeeps

\* What a handler's record becomes is a record, with what it keeps.
LEMMA Moved ==
  ASSUME NEW x \in RequestRecord, NEW c \in Conv, NEW st \in State, NEW i \in Nat, NEW b \in BOOLEAN,
         NEW pc \in {"lookup", "turn", "count", "call", "sent", "publish", "adopt", "store", "end", "drop"}
  PROVE  /\ [x EXCEPT !.conv = c] \in RequestRecord
         /\ [x EXCEPT !.pc = pc, !.final = c] \in RequestRecord
         /\ [x EXCEPT !.pc = pc, !.conv = c] \in RequestRecord
         /\ [x EXCEPT !.pc = pc, !.conv = c, !.asked = TRUE] \in RequestRecord
         /\ [x EXCEPT !.snap = st, !.pc = pc] \in RequestRecord
         /\ [x EXCEPT !.pc = pc, !.snap = st, !.conv = c] \in RequestRecord
         /\ [x EXCEPT !.pc = pc, !.snap = st, !.start = b, !.client = i] \in RequestRecord
BY ZenonT(40) DEF RequestRecord

\* What is left of a handler that is to drop its session, ...
LEMMA Dropping ==
  ASSUME RequestsTyped, NEW r \in Request, NEW x, x = [Bare(r, "drop") EXCEPT !.final = req[r].conv]
  PROVE  /\ x \in RequestRecord /\ x.pc = "drop" /\ x.sid = req[r].sid /\ x.alone = req[r].alone
         /\ x.conv = 0 /\ x.snap = Empty /\ x.final = req[r].conv /\ x.client = 0 /\ ~x.start
         /\ ~x.asked /\ x.kind = req[r].kind
<1>1. req[r] \in RequestRecord
  BY DEF RequestsTyped
<1>2. /\ req[r].kind \in Kinds \cup {"chat"} /\ req[r].sid \in Session \cup {NoSession}
      /\ req[r].alone \in BOOLEAN /\ req[r].conv \in Conv
  BY <1>1 DEF RequestRecord
<1> QED
  BY <1>2, IdleType DEF Bare, Idle, RequestRecord

\* ... and of one that asks again.
LEMMA Asking ==
  ASSUME RequestsTyped, NEW r \in Request, NEW x, x = [Bare(r, "call") EXCEPT !.asked = TRUE]
  PROVE  /\ x \in RequestRecord /\ x.pc = "call" /\ x.sid = req[r].sid /\ x.alone = req[r].alone
         /\ x.conv = 0 /\ x.snap = Empty /\ x.final = 0 /\ x.client = 0 /\ ~x.start
         /\ x.asked /\ x.kind = req[r].kind
<1>1. req[r] \in RequestRecord
  BY DEF RequestsTyped
<1>2. /\ req[r].kind \in Kinds \cup {"chat"} /\ req[r].sid \in Session \cup {NoSession}
      /\ req[r].alone \in BOOLEAN
  BY <1>1 DEF RequestRecord
<1> QED
  BY <1>2, IdleType DEF Bare, Idle, RequestRecord

\* A request arrives with a session or without; others of its session learn that they are not alone.
LEMMA ArriveKeeps ==
  ASSUME RequestsTyped, Sited, NEW r \in Request, Arrive(r)
  PROVE  /\ req' \in [Request -> RequestRecord] /\ Sited'
         /\ \A q \in Request : req'[q].snap \in {req[q].snap, Empty}
<1>1. PICK kind \in Kinds, offer \in Offers, n \in 1..MaxTurns :
         LET sid == SidOf(kind, offer, n)
             others == {q \in Request : ~At(q, "idle") /\ req[q].sid = sid}
         IN  req' = [q \in Request |->
                IF q = r THEN [Idle EXCEPT !.pc = IF policy.on THEN "enable" ELSE "disable",
                                           !.kind = kind, !.sid = sid, !.alone = others = {}]
                ELSE [req[q] EXCEPT !.alone = @ /\ q \notin others]]
  BY DEF Arrive
<1> DEFINE sid == SidOf(kind, offer, n)
           others == {q \in Request : ~At(q, "idle") /\ req[q].sid = sid}
           pc == IF policy.on THEN "enable" ELSE "disable"
           x == [Idle EXCEPT !.pc = pc, !.kind = kind, !.sid = sid, !.alone = others = {}]
           now(q) == IF q = r THEN x ELSE [req[q] EXCEPT !.alone = @ /\ q \notin others]
<1>2. sid \in Session \cup {NoSession}
  BY SidType
<1>3. pc \in {"enable", "disable"} /\ (others = {}) \in BOOLEAN
  OBVIOUS
<1>4. x \in RequestRecord /\ x.pc = pc /\ ~x.asked /\ x.snap = Empty
  <2> HIDE DEF sid, pc, others
  <2> QED
    BY <1>2, <1>3, IdleType DEF Idle, RequestRecord
<1>5. req' = [q \in Request |-> now(q)]
  BY <1>1
<1> HIDE DEF x, others, sid
<1>6. ASSUME NEW q \in Request \ {r}
      PROVE  /\ now(q) \in RequestRecord /\ now(q).pc = req[q].pc /\ now(q).sid = req[q].sid
             /\ now(q).asked = req[q].asked /\ now(q).kind = req[q].kind
             /\ now(q).client = req[q].client /\ now(q).snap = req[q].snap
  <2>1. PICK b \in BOOLEAN : now(q) = [req[q] EXCEPT !.alone = b]
    <3> DEFINE b == req[q].alone /\ q \notin others
    <3>1. b \in BOOLEAN /\ now(q) = [req[q] EXCEPT !.alone = b]
      OBVIOUS
    <3> QED
      BY <3>1
  <2>2. req[q] \in RequestRecord
    BY DEF RequestsTyped
  <2> HIDE DEF now
  <2> QED
    BY <2>1, <2>2 DEF RequestRecord
<1>7. now(r) = x
  OBVIOUS
<1> HIDE DEF now
<1>8. req' \in [Request -> RequestRecord] /\ \A q \in Request : req'[q] = now(q)
  BY <1>4, <1>5, <1>6, <1>7
<1> QED
  BY <1>3, <1>4, <1>6, <1>7, <1>8 DEF Sited

\* Every step of a request keeps the requests in order.
LEMMA StepRequests ==
  ASSUME IInv, NEW r \in Request, Step(r)
  PROVE  req' \in [Request -> RequestRecord] /\ Sited'
<1> DEFINE InOrder == req' \in [Request -> RequestRecord] /\ Sited'
<1> USE DEF IInv
<1>0. /\ RequestsTyped /\ Sited /\ req[r] \in RequestRecord
      /\ req[r].sid \in Session \cup {NoSession} /\ Got(req[r].sid) \in State
  BY GotIsState DEF RequestsTyped, RequestRecord
<1>1. CASE Arrive(r)
  BY <1>0, <1>1, ArriveKeeps
<1>2. CASE SetEnabled(r)
  BY <1>0, <1>2, GotoKeeps DEF SetEnabled
<1>3. CASE LookUp(r)
  <2> DEFINE c == IF req[r].kind = "compact" THEN 0 ELSE Got(req[r].sid).conv
             x == [req[r] EXCEPT !.pc = AfterLookup(r), !.snap = Got(req[r].sid), !.conv = c]
  <2>1. c \in Conv /\ AfterLookup(r) \in {"turn", "call"}
    BY <1>0, SessionsAssumption DEF State, Conv, AfterLookup
  <2>2. x \in RequestRecord
    BY ZenonT(40), <1>0, <2>1, Moved
  <2>3. req' = [req EXCEPT ![r] = x]
    BY <1>0, <1>3 DEF LookUp, RequestsTyped
  <2> HIDE DEF c
  <2>4. /\ x.pc = AfterLookup(r) /\ x.sid = req[r].sid
        /\ x.asked = req[r].asked /\ x.kind = req[r].kind
    BY <1>0 DEF RequestRecord
  <2>5. /\ x.pc \in {"turn", "count", "adopt", "store", "drop"} => x.sid # NoSession
        /\ x.asked /\ x.kind \in Tooled => x.sid # NoSession
    BY <1>0, <2>4 DEF AfterLookup, Sited
  <2> HIDE DEF x
  <2> QED
    BY <1>0, <2>2, <2>3, <2>4, <2>5, MoveKeeps
<1>4. CASE Upload(r)
  <2>1. CASE Done(r)
    BY <1>0, <1>4, <2>1, DoneKeeps DEF Upload
  <2>2. CASE ~Done(r)
    <3> DEFINE c == Len(owner) + 1
               x == [req[r] EXCEPT !.conv = c]
    <3>1. c \in Conv
      BY <1>4, <2>2, SessionsAssumption DEF Upload, RequestsTyped, Conv
    <3>2. x \in RequestRecord
      BY <1>0, <3>1, Moved, EmptyIsState
    <3>3. req' = [req EXCEPT ![r] = x]
      BY <1>0, <1>4, <2>2 DEF Upload, RequestsTyped
    <3> HIDE DEF c
    <3>4. /\ x.pc = req[r].pc /\ x.sid = req[r].sid
          /\ x.asked = req[r].asked /\ x.kind = req[r].kind
      BY <1>0 DEF RequestRecord
    <3>5. /\ x.pc \in {"turn", "count", "adopt", "store", "drop"} => x.sid # NoSession
          /\ x.asked /\ x.kind \in Tooled => x.sid # NoSession
      BY <1>0, <3>4 DEF Sited
    <3> HIDE DEF x
    <3> QED
      BY <1>0, <3>2, <3>3, <3>4, <3>5, MoveKeeps
  <2> QED
    BY <2>1, <2>2
<1>5. CASE ReadTurn(r)
  <2> DEFINE got == Got(req[r].sid)
             b == ~got.started
             i == IF got.client = 0 THEN Len(begun) + 1 ELSE got.client
             x == [req[r] EXCEPT !.pc = "count", !.snap = got, !.start = b, !.client = i]
  <2>1. i \in Nat /\ b \in BOOLEAN
    BY <1>0 DEF RequestsTyped, State
  <2>2. x \in RequestRecord
    <3>1. 0 \in Conv
      BY SessionsAssumption DEF Conv
    <3> HIDE DEF got, b, i
    <3> QED
      BY <1>0, <2>1, <3>1, Moved DEF got
  <2>3. req' = [req EXCEPT ![r] = x]
    BY <1>0, <1>5 DEF ReadTurn, RequestsTyped
  <2>4. req[r].sid # NoSession
    BY <1>0, <1>5 DEF ReadTurn, At, Sited
  <2> HIDE DEF got, b, i
  <2>5. x.sid = req[r].sid
    BY <1>0 DEF RequestRecord
  <2> HIDE DEF x
  <2> QED
    BY <1>0, <2>2, <2>3, <2>4, <2>5, MoveKeeps
<1>6. CASE CountTurn(r)
  <2>1. req[r].sid # NoSession
    BY <1>0, <1>6 DEF CountTurn, At, Sited
  <2> QED
    BY <1>0, <1>6, <2>1, GotoKeeps DEF CountTurn
<1>7. CASE Send(r)
  BY <1>0, <1>7, GotoKeeps DEF Send
<1>8. ASSUME NEW kinds, DropOrEnd(r, kinds) PROVE InOrder
  <2>1. CASE req[r].kind \in kinds /\ req[r].sid # NoSession
    <3> DEFINE x == [Bare(r, "drop") EXCEPT !.final = req[r].conv]
    <3>1. req' = [req EXCEPT ![r] = x]
      BY <1>8, <2>1 DEF DropOrEnd
    <3>2. x \in RequestRecord /\ x.sid = req[r].sid
      BY <1>0, Dropping
    <3> HIDE DEF x
    <3> QED
      BY <1>0, <2>1, <3>1, <3>2, MoveKeeps
  <2>2. CASE ~(req[r].kind \in kinds /\ req[r].sid # NoSession)
    BY <1>0, <1>8, <2>2, DoneKeeps DEF DropOrEnd
  <2> QED
    BY <2>1, <2>2
<1>9. CASE Fail(r) \/ AnswerNothing(r)
  BY <1>8, <1>9 DEF Fail, AnswerNothing
<1>20. CASE CutShort(r)
  <2>1. CASE Done(r)
    BY <1>0, <2>1, DoneKeeps
  <2>2. CASE ~Done(r)
    <3>1. req[r].sid # NoSession /\ \E pc \in {"drop", "adopt"} : Goto(r, pc)
      BY <1>20, <2>2 DEF CutShort
    <3> QED
      BY <1>0, <3>1, GotoKeeps
  <2> QED
    BY <2>1, <2>2
<1>10. CASE AskAgain(r)
  <2> DEFINE x == [Bare(r, "call") EXCEPT !.asked = TRUE]
  <2>1. req' = [req EXCEPT ![r] = x] /\ req[r].kind \notin Tooled
    BY <1>10, Zenon DEF AskAgain, Tooled
  <2>2. x \in RequestRecord /\ x.pc = "call" /\ x.kind = req[r].kind
    BY <1>0, Asking
  <2> HIDE DEF x
  <2> QED
    BY <1>0, <2>1, <2>2, MoveKeeps
<1>11. CASE Answer(r)
  <2>1. PICK c \in Conv : req' = [req EXCEPT ![r].pc = AfterAnswer(r), ![r].final = c]
    BY <1>11 DEF Answer
  <2> DEFINE x == [req[r] EXCEPT !.pc = AfterAnswer(r), !.final = c]
  <2>2. /\ AfterAnswer(r) \in {"publish", "end", "drop", "adopt"}
        /\ AfterAnswer(r) \in {"drop", "adopt"} => req[r].sid # NoSession
    BY DEF AfterAnswer
  <2>3. x \in RequestRecord
    BY <1>0, <2>1, <2>2, Moved, EmptyIsState
  <2>4. req' = [req EXCEPT ![r] = x]
    BY <1>0, <1>11, <2>1 DEF Answer, RequestsTyped
  <2>5. /\ x.pc = AfterAnswer(r) /\ x.sid = req[r].sid
        /\ x.asked = req[r].asked /\ x.kind = req[r].kind
    BY <1>0 DEF RequestRecord
  <2>6. /\ x.pc \in {"turn", "count", "adopt", "store", "drop"} => x.sid # NoSession
        /\ x.asked /\ x.kind \in Tooled => x.sid # NoSession
    BY <1>0, <2>2, <2>5 DEF Sited
  <2> HIDE DEF x
  <2> QED
    BY <1>0, <2>3, <2>4, <2>5, <2>6, MoveKeeps
<1>12. CASE Publish(r)
  BY <1>0, <1>12, GotoKeeps, DoneKeeps DEF Publish
<1>13. CASE Continue(r)
  <2> DEFINE x == [req[r] EXCEPT !.pc = "call", !.conv = req[r].final]
  <2>1. req[r].final \in Conv
    BY <1>0 DEF RequestRecord
  <2>2. x \in RequestRecord
    BY <1>0, <2>1, Moved, EmptyIsState
  <2>3. req' = [req EXCEPT ![r] = x]
    BY <1>0, <1>13 DEF Continue, RequestsTyped
  <2>4. x.pc = "call" /\ x.asked = req[r].asked /\ x.sid = req[r].sid
        /\ x.kind = req[r].kind
    BY <1>0 DEF RequestRecord
  <2>5. x.asked /\ x.kind \in Tooled => x.sid # NoSession
    BY <1>0, <2>4 DEF Sited
  <2> HIDE DEF x
  <2> QED
    BY <1>0, <2>2, <2>3, <2>4, <2>5, MoveKeeps
<1>14. CASE Repair(r)
  <2> DEFINE x == [req[r] EXCEPT !.pc = "turn", !.conv = 0, !.asked = TRUE]
  <2>1. 0 \in Conv
    BY SessionsAssumption DEF Conv
  <2>2. x \in RequestRecord
    BY <1>0, <2>1, Moved, EmptyIsState
  <2>3. req' = [req EXCEPT ![r] = x] /\ req[r].sid # NoSession
    BY <1>0, <1>14 DEF Repair, RequestsTyped, At, Sited
  <2>4. x.sid = req[r].sid
    BY <1>0 DEF RequestRecord
  <2> HIDE DEF x
  <2> QED
    BY <1>0, <2>2, <2>3, <2>4, MoveKeeps
<1>15. CASE Repaired(r)
  <2>1. req[r].sid # NoSession
    BY <1>0, <1>15 DEF Repaired, Sited
  <2> QED
    BY <1>0, <1>15, <2>1, GotoKeeps DEF Repaired
<1>16. CASE ReadToAdopt(r)
  <2> DEFINE pc == IF enabled /\ ~(Got(req[r].sid).conv = req[r].final /\ req[r].kind # "chatStream")
                   THEN "store" ELSE "end"
             x == [req[r] EXCEPT !.snap = Got(req[r].sid), !.pc = pc]
  <2>1. pc \in {"store", "end"} /\ req[r].sid # NoSession
    BY <1>0, <1>16 DEF ReadToAdopt, At, Sited
  <2>2. req' = [req EXCEPT ![r] = x]
    <3>1. req' = [req EXCEPT ![r].snap = Got(req[r].sid), ![r].pc = pc]
      BY <1>16 DEF ReadToAdopt
    <3> HIDE DEF pc
    <3> QED
      BY <1>0, <3>1 DEF RequestsTyped
  <2> HIDE DEF pc
  <2>3. x \in RequestRecord
    <3>1. 0 \in Conv
      BY SessionsAssumption DEF Conv
    <3> QED
      BY <1>0, <2>1, <3>1, Moved
  <2>4. x.sid = req[r].sid
    BY <1>0 DEF RequestRecord
  <2> HIDE DEF x
  <2> QED
    BY <1>0, <2>1, <2>2, <2>3, <2>4, MoveKeeps
<1>17. CASE Adopt(r)
  BY <1>0, <1>17, DoneKeeps DEF Adopt
<1>18. CASE Finish(r)
  BY <1>0, <1>18, DoneKeeps DEF Finish
<1>19. CASE Drop(r)
  BY <1>0, <1>19, DoneKeeps DEF Drop
<1> QED
  BY <1>1, <1>2, <1>3, <1>4, <1>5, <1>6, <1>7, <1>8, <1>9, <1>10, <1>11, <1>12, <1>13, <1>14, <1>15,
     <1>16, <1>17, <1>18, <1>19, <1>20 DEF Step

\* Noting what a turn said in the history of its client session id keeps the history one.
LEMMA SentKeeps ==
  ASSUME begun \in Seq(SUBSET BOOLEAN), NEW i \in Nat, NEW b \in BOOLEAN
  PROVE  [begun EXCEPT ![i] = @ \cup {b}] \in Seq(SUBSET BOOLEAN)
<1>1. CASE i \in 1..Len(begun)
  <2>1. begun[i] \cup {b} \in SUBSET BOOLEAN
    BY <1>1
  <2> QED
    BY <1>1, <2>1, ExceptSeq
<1>2. CASE i \notin 1..Len(begun)
  <2>1. [begun EXCEPT ![i] = @ \cup {b}] = begun
    BY <1>2
  <2> QED
    BY <2>1
<1> QED
  BY <1>1, <1>2

\* Every step keeps the requests and their histories well typed, and gives those a session that need one.
LEMMA StepTyped ==
  ASSUME IInv, [Next]_vars
  PROVE  RequestsTyped' /\ Sited'
<1> USE DEF IInv
<1>1. req' \in [Request -> RequestRecord] /\ Sited'
  <2>1. CASE ChangePolicy \/ UNCHANGED vars
    BY <2>1 DEF ChangePolicy, vars, RequestsTyped, Sited
  <2>2. CASE Crash
    <3>1. req' = [r \in Request |-> Idle] /\ Idle.pc = "idle" /\ ~Idle.asked
      BY <2>2 DEF Crash, Idle
    <3> QED
      BY <3>1, IdleType DEF Sited
  <2> QED
    BY <2>1, <2>2, StepRequests DEF Next
<1>2. owner' \in Seq(Session \cup {NoSession}) /\ Len(owner') <= MaxConv
  <2>1. ASSUME NEW r \in Request, Upload(r) \/ Answer(r)
        PROVE  owner' = owner \/ (owner' = Append(owner, req[r].sid) /\ Len(owner) < MaxConv)
    BY <2>1, SessionsAssumption DEF Upload, Answer, Names, RequestsTyped, Conv
  <2>2. owner' = owner \/ \E r \in Request : Upload(r) \/ Answer(r)
    BY ZenonT(40) DEF Next, Step, Arrive, SetEnabled, LookUp, ReadTurn, CountTurn, Send, Fail, AnswerNothing, CutShort,
           AskAgain, Continue, Repair, Repaired, ReadToAdopt, Adopt, Publish, Finish, Drop,
           ChangePolicy, Crash, counts, vars
  <2>3. \A r \in Request : req[r].sid \in Session \cup {NoSession}
    BY DEF RequestsTyped, RequestRecord
  <2> QED
    BY <2>1, <2>2, <2>3, SessionsAssumption DEF RequestsTyped
<1>3. begun' \in Seq(SUBSET BOOLEAN)
  <2>1. ASSUME NEW r \in Request, ReadTurn(r) PROVE begun' \in Seq(SUBSET BOOLEAN)
    <3>1. begun' = begun \/ begun' = Append(begun, {})
      BY <2>1 DEF ReadTurn
    <3> QED
      BY <3>1 DEF RequestsTyped
  <2>2. ASSUME NEW r \in Request, Send(r) PROVE begun' \in Seq(SUBSET BOOLEAN)
    <3>1. begun' = begun \/ begun' = [begun EXCEPT ![req[r].client] = @ \cup {req[r].start}]
      BY <2>2 DEF Send
    <3>2. req[r].client \in Nat /\ req[r].start \in BOOLEAN
      BY DEF RequestsTyped, RequestRecord
    <3> QED
      BY <3>1, <3>2, SentKeeps DEF RequestsTyped
  <2>3. begun' = begun \/ \E r \in Request : ReadTurn(r) \/ Send(r)
    BY DEF Next, Step, Arrive, SetEnabled, LookUp, Upload, CountTurn, Fail, AnswerNothing, CutShort,
           AskAgain, Answer, Continue, Repair, Repaired, ReadToAdopt, Adopt, Publish, Finish, Drop,
           ChangePolicy, Crash, counts, vars
  <2> QED
    BY <2>1, <2>2, <2>3 DEF RequestsTyped
<1>4. responses' \in Nat
  <2>1. responses' = responses \/ responses' = responses + 1
    BY ZenonT(40) DEF Next, Step, Arrive, SetEnabled, LookUp, Upload, ReadTurn, CountTurn, Send, Fail,
           AnswerNothing, CutShort, AskAgain, Answer, Continue, Repair, Repaired, ReadToAdopt, Adopt, Publish,
           Finish, Drop, ChangePolicy, Crash, counts, vars
  <2> QED
    BY <2>1 DEF RequestsTyped
<1>5. enabled' \in BOOLEAN
  <2>1. enabled' = enabled \/ Crash \/ \E r \in Request : SetEnabled(r)
    BY ZenonT(40) DEF Next, Step, Arrive, LookUp, Upload, ReadTurn, CountTurn, Send, Fail,
           AnswerNothing, CutShort, AskAgain, Answer, Continue, Repair, Repaired, ReadToAdopt, Adopt, Publish,
           Finish, Drop, ChangePolicy, counts, cache, vars
  <2>2. ASSUME NEW r \in Request, SetEnabled(r) PROVE enabled' \in BOOLEAN
    BY <2>2 DEF SetEnabled, At
  <2>3. Crash => enabled' \in BOOLEAN
    BY DEF Crash
  <2>4. enabled \in BOOLEAN
    BY DEF RequestsTyped
  <2> QED
    BY <2>1, <2>2, <2>3, <2>4
<1> QED
  BY <1>1, <1>2, <1>3, <1>4, <1>5 DEF RequestsTyped

-----------------------------------------------------------------------------
(* The map. *)

\* What a reader of the map sees when a step keeps all saved sessions but those of S.
LEMMA MapKeeps ==
  ASSUME NEW S, \A s \in Session \ (S \cup lagging) : After(s) = Value(s)
  PROVE  Map!Keeps(S)
BY DEF Map!Keeps, After, Value

\* Copies stay, or are dropped.
LEMMA MapForgets ==
  ASSUME NEW R \in SUBSET Request, \A r \in R : req'[r].snap \in {req[r].snap, Empty}
  PROVE  Map!Forgets(R)
BY DEF Map!Forgets

\* A step that leaves ContextCache alone and drops copies at most is one of the map.
LEMMA QuietStep ==
  ASSUME UNCHANGED cache, \A r \in Request : req'[r].snap \in {req[r].snap, Empty}
  PROVE  Map!MapNext
<1>1. Map!Keeps({})
  BY MapKeeps DEF cache, After, Value
<1>2. Map!Forgets(Request)
  BY MapForgets
<1>3. Map!Finish
  BY <1>1, <1>2 DEF Map!Finish, cache
<1> QED
  BY <1>3 DEF Map!MapNext

\* Reading a session is looking it up in the map, or nothing for a request without one.
LEMMA LookStep ==
  ASSUME IInv, NEW r \in Request, GetSession(req[r].sid), enabled' = enabled,
         req'[r].snap = Got(req[r].sid), \A q \in Request \ {r} : req'[q].snap = req[q].snap
  PROVE  CacheTyped' /\ Agrees' /\ Map!MapNext
<1>1. PICK s \in Session \cup {NoSession} : s = req[r].sid
  BY DEF IInv, RequestsTyped, RequestRecord
<1>2. /\ CacheTyped' /\ Agrees' /\ UNCHANGED lagging
      /\ \A q \in Session \ lagging : After(q) = Value(q)
  BY <1>1, GetKeeps DEF IInv
<1>3. Map!Keeps({})
  BY <1>2, MapKeeps
<1>4. Map!Forgets(Request \ {r})
  BY MapForgets
<1>5. CASE s # NoSession
  <2>1. req'[r].snap = IF enabled THEN Value(s) ELSE Empty
    BY <1>1, <1>5 DEF Got
  <2>2. Map!Look(r, s)
    BY <1>2, <1>3, <1>4, <1>5, <2>1 DEF Map!Look
  <2> QED
    BY <1>2, <1>5, <2>2 DEF Map!MapNext
<1>6. CASE s = NoSession
  <2>1. Map!Forgets(Request)
    BY <1>1, <1>6, MapForgets DEF Got
  <2>2. Map!Finish
    BY <1>2, <1>3, <2>1 DEF Map!Finish
  <2> QED
    BY <1>2, <2>2 DEF Map!MapNext
<1> QED
  BY <1>5, <1>6

\* Storing a session writes it to the map, if sessions are on.
LEMMA WriteStep ==
  ASSUME IInv, NEW s \in Session, NEW st \in State, SetSession(s, st), enabled' = enabled,
         \A q \in Request : req'[q].snap \in {req[q].snap, Empty}
  PROVE  CacheTyped' /\ Agrees' /\ Map!MapNext
<1>1. CASE enabled
  <2>1. /\ CacheTyped' /\ Agrees' /\ lagging' \in {lagging \ {s}, lagging \cup {s}}
        /\ \A q \in Session \ ({s} \cup lagging) : After(q) = Value(q)
        /\ After(s) \in State
    BY <1>1, SetKeeps DEF IInv
  <2>2. Map!Keeps({s}) /\ Map!Forgets(Request)
    BY <2>1, MapKeeps, MapForgets
  <2>3. Map!Write(s)
    BY <1>1, <2>1, <2>2 DEF Map!Write, After, Value
  <2> QED
    BY <2>1, <2>3 DEF Map!MapNext
<1>2. CASE ~enabled
  <2>1. UNCHANGED cache
    BY <1>2 DEF SetSession, cache
  <2> QED
    BY <2>1, QuietStep DEF IInv, CacheTyped, Agrees, cache
<1> QED
  BY <1>1, <1>2

\* Deleting a session discards it from the map.
LEMMA DiscardStep ==
  ASSUME IInv, NEW s \in Session, DeleteSession(s), enabled' = enabled,
         \A q \in Request : req'[q].snap \in {req[q].snap, Empty}
  PROVE  CacheTyped' /\ Agrees' /\ Map!MapNext
<1>1. /\ CacheTyped' /\ Agrees'
      /\ \A q \in Session \ ({s} \cup lagging) : After(q) = Value(q)
      /\ (After(s) = Empty /\ lagging' = lagging \ {s}) \/ lagging' = lagging \cup {s}
  BY DeleteKeeps DEF IInv
<1>2. Map!Keeps({s}) /\ Map!Forgets(Request)
  BY <1>1, MapKeeps, MapForgets
<1>3. Map!Discard(s)
  BY <1>1, <1>2 DEF Map!Discard, After, Value
<1> QED
  BY <1>1, <1>3 DEF Map!MapNext

\* Every step keeps ContextCache in order and is a step of the map.
LEMMA StepRefines ==
  ASSUME IInv, [Next]_vars
  PROVE  CacheTyped' /\ Agrees' /\ [Map!MapNext]_(Map!mapVars)
<1> DEFINE Refined == CacheTyped' /\ Agrees' /\ Map!MapNext
           Forgotten == \A q \in Request : req'[q].snap \in {req[q].snap, Empty}
<1>a. /\ req \in [Request -> RequestRecord]
      /\ \A r \in Request : req[r] \in RequestRecord /\ req[r].sid \in Session \cup {NoSession}
                            /\ req[r].snap \in State
  BY DEF IInv, RequestsTyped, RequestRecord
<1>b. ASSUME NEW r \in Request, Done(r) PROVE Forgotten
  BY <1>a, <1>b DEF Done, Idle
<1>c. ASSUME NEW r \in Request, NEW pc, Goto(r, pc) PROVE Forgotten
  BY <1>a, <1>c DEF Goto, RequestRecord
<1>d. ASSUME UNCHANGED cache, Forgotten PROVE Refined
  BY <1>d, QuietStep DEF IInv, CacheTyped, Agrees, cache
<1>1. ASSUME NEW r \in Request, Arrive(r) PROVE Refined
  <2>1. Forgotten
    BY <1>1, ArriveKeeps DEF IInv
  <2> QED
    BY <1>1, <1>d, <2>1 DEF Arrive
<1>2. ASSUME NEW r \in Request, SetEnabled(r) PROVE Refined
  <2>1. mem' = mem /\ disk' = disk /\ lagging' = lagging
    BY <1>2 DEF SetEnabled
  <2>2. \A q \in Request : req'[q].snap = req[q].snap
    BY <1>2, <1>a DEF SetEnabled, Goto, RequestRecord
  <2>3. req' \in [Request -> RequestRecord] /\ enabled' \in BOOLEAN
    BY <1>2, StepTyped DEF Next, Step, RequestsTyped
  <2>4. Map!Keeps({})
    BY <2>1, MapKeeps DEF After, Value
  <2>5. Map!Switch
    BY <2>1, <2>2, <2>3, <2>4 DEF Map!Switch
  <2> QED
    BY <2>1, <2>5 DEF IInv, CacheTyped, Agrees, Map!MapNext
<1>3. ASSUME NEW r \in Request, LookUp(r) PROVE Refined
  <2>1. /\ GetSession(req[r].sid) /\ enabled' = enabled /\ req'[r].snap = Got(req[r].sid)
        /\ \A q \in Request \ {r} : req'[q].snap = req[q].snap
    BY <1>3, <1>a DEF LookUp, RequestRecord
  <2> QED
    BY <2>1, LookStep
<1>4. ASSUME NEW r \in Request, Upload(r) PROVE Refined
  <2>1. CASE Done(r)
    BY <1>4, <1>b, <1>d, <2>1 DEF Upload
  <2>2. CASE req' = [req EXCEPT ![r].conv = Len(owner) + 1]
    <3>1. Forgotten
      BY <1>a, <2>2 DEF RequestRecord
    <3> QED
      BY <1>4, <1>d, <3>1 DEF Upload
  <2> QED
    BY <1>4, <2>1, <2>2 DEF Upload
<1>5. ASSUME NEW r \in Request, ReadTurn(r) PROVE Refined
  <2>1. /\ GetSession(req[r].sid) /\ enabled' = enabled /\ req'[r].snap = Got(req[r].sid)
        /\ \A q \in Request \ {r} : req'[q].snap = req[q].snap
    BY <1>5, <1>a DEF ReadTurn, RequestRecord
  <2> QED
    BY <2>1, LookStep
<1>6. ASSUME NEW r \in Request, CountTurn(r) PROVE Refined
  <2> DEFINE st == [conv |-> req[r].snap.conv, client |-> req[r].client, started |-> TRUE]
  <2>1. st \in State
    BY <1>a DEF State, RequestRecord
  <2>2. req[r].sid \in Session
    BY <1>6, <1>a DEF CountTurn, At, IInv, Sited
  <2>3. SetSession(req[r].sid, st) /\ enabled' = enabled /\ Forgotten
    BY <1>6, <1>c DEF CountTurn
  <2> HIDE DEF st
  <2>4. PICK s \in Session, t \in State : s = req[r].sid /\ t = st
    BY <2>1, <2>2
  <2>5. SetSession(s, t)
    BY <2>3, <2>4
  <2> QED
    BY <2>3, <2>5, WriteStep
<1>7. ASSUME NEW r \in Request, Send(r) \/ CutShort(r) \/ Repaired(r) \/ Finish(r) PROVE Refined
  <2>1. (Done(r) \/ \E pc \in {"sent", "drop", "adopt"} : Goto(r, pc)) /\ UNCHANGED cache
    BY <1>7 DEF Send, CutShort, Repaired, Finish
  <2> QED
    BY <1>b, <1>c, <1>d, <2>1
<1>8. ASSUME NEW r \in Request, Fail(r) \/ AnswerNothing(r) PROVE Refined
  <2>1. Forgotten
    <3>1. CASE Done(r)
      BY <1>b, <3>1
    <3>2. CASE ~Done(r)
      <4> DEFINE x == [Bare(r, "drop") EXCEPT !.final = req[r].conv]
      <4>1. req' = [req EXCEPT ![r] = x]
        BY <1>8, <3>2 DEF Fail, AnswerNothing, DropOrEnd
      <4>2. x.snap = Empty
        BY Dropping DEF IInv
      <4> HIDE DEF x
      <4> QED
        BY <1>a, <4>1, <4>2
    <3> QED
      BY <3>1, <3>2
  <2> QED
    BY <1>8, <1>d, <2>1 DEF Fail, AnswerNothing
<1>9. ASSUME NEW r \in Request, AskAgain(r) PROVE Refined
  <2> DEFINE x == [Bare(r, "call") EXCEPT !.asked = TRUE]
  <2>1. req' = [req EXCEPT ![r] = x] /\ enabled' = enabled
    BY <1>9, Zenon DEF AskAgain
  <2>2. Forgotten
    <3>1. x.snap = Empty
      BY Asking DEF IInv
    <3> HIDE DEF x
    <3> QED
      BY <1>a, <2>1, <3>1
  <2> HIDE DEF x
  <2>3. CASE req[r].sid = NoSession
    BY <1>9, <1>d, <2>1, <2>2, <2>3 DEF AskAgain, cache
  <2>4. CASE req[r].sid # NoSession
    <3>1. PICK s \in Session : s = req[r].sid
      BY <1>a, <2>4
    <3>2. DeleteSession(s)
      BY <1>9, <2>4, <3>1 DEF AskAgain
    <3> QED
      BY <2>1, <2>2, <3>2, DiscardStep
  <2> QED
    BY <2>3, <2>4
<1>10. ASSUME NEW r \in Request, Answer(r) PROVE Refined
  <2>1. PICK c \in Conv : req' = [req EXCEPT ![r].pc = AfterAnswer(r), ![r].final = c]
    BY <1>10 DEF Answer
  <2>2. Forgotten
    BY <1>a, <2>1 DEF RequestRecord
  <2> QED
    BY <1>10, <1>d, <2>2 DEF Answer
<1>11. ASSUME NEW r \in Request, Publish(r) PROVE Refined
  <2>1. Forgotten /\ enabled' = enabled
    BY <1>11, <1>b, <1>c DEF Publish
  <2>2. PICK s \in Session : s = <<"previous", responses + 1>>
    <3>1. responses + 1 \in 1..MaxTurns
      BY <1>11, SessionsAssumption DEF Publish, IInv, RequestsTyped
    <3> QED
      BY <3>1 DEF Session
  <2>3. PICK st \in State : st = [Empty EXCEPT !.conv = req[r].final]
    BY <1>a, EmptyIsState DEF State, RequestRecord
  <2>4. SetSession(s, st)
    BY <1>11, <2>2, <2>3 DEF Publish
  <2> QED
    BY <2>1, <2>4, WriteStep
<1>12. ASSUME NEW r \in Request, Continue(r) PROVE Refined
  <2>1. Forgotten
    BY <1>12, <1>a DEF Continue, RequestRecord
  <2> QED
    BY <1>12, <1>d, <2>1 DEF Continue
<1>13. ASSUME NEW r \in Request, Repair(r) PROVE Refined
  <2>1. Forgotten
    BY <1>13, <1>a DEF Repair, RequestRecord
  <2> QED
    BY <1>13, <1>d, <2>1 DEF Repair
<1>14. ASSUME NEW r \in Request, ReadToAdopt(r) PROVE Refined
  <2>1. PICK pc : req' = [req EXCEPT ![r].snap = Got(req[r].sid), ![r].pc = pc]
    BY <1>14 DEF ReadToAdopt
  <2>2. /\ GetSession(req[r].sid) /\ enabled' = enabled /\ req'[r].snap = Got(req[r].sid)
        /\ \A q \in Request \ {r} : req'[q].snap = req[q].snap
    BY <1>14, <1>a, <2>1 DEF ReadToAdopt, RequestRecord
  <2> QED
    BY <2>2, LookStep
<1>15. ASSUME NEW r \in Request, Adopt(r) PROVE Refined
  <2>1. PICK s \in Session : s = req[r].sid
    BY <1>15, <1>a DEF Adopt, At, IInv, Sited
  <2>2. PICK st \in State : st = [req[r].snap EXCEPT !.conv = req[r].final]
    BY <1>a DEF State, RequestRecord
  <2>3. SetSession(s, st) /\ enabled' = enabled /\ Forgotten
    BY <1>15, <1>b, <2>1, <2>2 DEF Adopt
  <2> QED
    BY <2>3, WriteStep
<1>16. ASSUME NEW r \in Request, Drop(r) PROVE Refined
  <2>1. PICK s \in Session : s = req[r].sid
    BY <1>16, <1>a DEF Drop, At, IInv, Sited
  <2>2. DeleteSession(s) /\ enabled' = enabled /\ Forgotten
    BY <1>16, <1>b, <2>1 DEF Drop
  <2> QED
    BY <2>2, DiscardStep
<1>17. CASE ChangePolicy
  BY <1>17, <1>d DEF ChangePolicy
<1>18. CASE Crash
  <2>1. /\ mem' = [s \in {} |-> Empty] /\ disk' = disk /\ lagging' = lagging /\ enabled' = TRUE
        /\ Forgotten
    BY <1>18 DEF Crash, Idle
  <2>2. Map!Keeps({})
    <3>1. \A s \in Session \ lagging : After(s) = Value(s)
      BY <2>1 DEF After, Value, IInv, Agrees
    <3> QED
      BY <3>1, MapKeeps
  <2>3. Map!Forgets(Request)
    BY <2>1, MapForgets
  <2>4. Map!Restart
    BY <2>1, <2>2, <2>3 DEF Map!Restart
  <2>5. CacheTyped' /\ Agrees'
    BY <2>1 DEF IInv, CacheTyped, Agrees
  <2> QED
    BY <2>4, <2>5 DEF Map!MapNext
<1>19. CASE UNCHANGED vars
  <2>1. mem' = mem /\ disk' = disk /\ req' = req /\ lagging' = lagging /\ enabled' = enabled
    BY <1>19 DEF vars
  <2>2. CacheTyped' /\ Agrees'
    BY <2>1 DEF IInv, CacheTyped, Agrees
  <2>3. [s \in Session |-> Value(s)]' = [s \in Session |-> Value(s)]
    BY <2>1 DEF Value
  <2>4. [r \in Request |-> req[r].snap]' = [r \in Request |-> req[r].snap]
    BY <2>1
  <2>5. Map!mapVars' = Map!mapVars
    BY <2>1, <2>3, <2>4 DEF Map!mapVars
  <2> QED
    BY <2>2, <2>5
<1>20. ASSUME NEW r \in Request, Step(r) PROVE Refined
  <2> HIDE DEF Refined
  <2> QED
    BY <1>20, <1>1, <1>2, <1>3, <1>4, <1>5, <1>6, <1>7, <1>8, <1>9, <1>10, <1>11, <1>12, <1>13, <1>14,
       <1>15, <1>16 DEF Step
<1> QED
  BY <1>17, <1>18, <1>19, <1>20 DEF Next

-----------------------------------------------------------------------------
\* In the beginning there are no sessions, neither in ContextCache nor in the map.
LEMMA InitRefines == Init => IInv /\ Map!MapInit
<1> SUFFICES ASSUME Init PROVE IInv /\ Map!MapInit
  OBVIOUS
<1>1. CacheTyped /\ Agrees
  BY EmptyIsState DEF Init, CacheTyped, Agrees
<1>2. RequestsTyped
  <2>1. req \in [Request -> RequestRecord] /\ responses \in Nat
    BY IdleType DEF Init
  <2>2. owner = <<>> /\ begun = <<>> /\ enabled \in BOOLEAN
    BY DEF Init
  <2>3. owner \in Seq(Session \cup {NoSession}) /\ Len(owner) <= MaxConv /\ begun \in Seq(SUBSET BOOLEAN)
    BY <2>2, SessionsAssumption
  <2> QED
    BY <2>1, <2>2, <2>3 DEF RequestsTyped
<1>3. Sited
  BY DEF Init, Sited, Idle
<1>4. Map!MapInit
  BY DEF Init, Map!MapInit, Value, Idle
<1> QED
  BY <1>1, <1>2, <1>3, <1>4 DEF IInv

\* What the handlers of any number of requests see of ContextCache is one map, for every size of its
\* memory: evicting, reading back and restarting lose or change no session whose file was written.
THEOREM CacheImplementsMap == Spec => CacheIsMap
<1>1. IInv /\ [Next]_vars => IInv' /\ [Map!MapNext]_(Map!mapVars)
  BY StepTyped, StepRefines DEF IInv
<1> QED
  BY InitRefines, <1>1, PTL DEF Spec, CacheIsMap, Map!MapSpec

-----------------------------------------------------------------------------
(* The order in which sessions leave memory. *)

\* The sequence o names each member of D once.
Lists(o, D) ==
  /\ o \in Seq(Session)
  /\ D = {o[i] : i \in 1..Len(o)}
  /\ \A i, j \in 1..Len(o) : o[i] = o[j] => i = j

\* The order names each session in memory once, and no more than the limit.
Listed == Lists(order, DOMAIN mem) /\ Len(order) <= MemSize

\* A session that is not listed goes to the end.
LEMMA AppendLists ==
  ASSUME NEW o, NEW D, Lists(o, D), NEW s \in Session \ D
  PROVE  Lists(Append(o, s), D \cup {s}) /\ Len(Append(o, s)) = Len(o) + 1
<1>1. o \in Seq(Session) /\ Len(o) \in Nat
  BY DEF Lists
<1>2. /\ Append(o, s) \in Seq(Session) /\ Len(Append(o, s)) = Len(o) + 1
      /\ \A i \in 1..Len(o) : Append(o, s)[i] = o[i]
      /\ Append(o, s)[Len(o) + 1] = s
  BY <1>1, AppendProperties
<1> DEFINE a == Append(o, s)
<1> HIDE DEF a
<1>3. D \cup {s} = {a[i] : i \in 1..Len(a)}
  BY <1>1, <1>2 DEF Lists, a
<1>4. ASSUME NEW i \in 1..Len(a), NEW j \in 1..Len(a), a[i] = a[j] PROVE i = j
  <2>1. \A k \in 1..Len(o) : a[k] \in D
    BY <1>2 DEF Lists, a
  <2> QED
    BY <1>1, <1>2, <1>4, <2>1 DEF Lists, a
<1> QED
  BY <1>2, <1>3, <1>4 DEF Lists, a

\* A session that is taken out of the order is listed no more, and the others still are.
LEMMA UnlistedLists ==
  ASSUME NEW o, NEW D, Lists(o, D), NEW s
  PROVE  /\ Lists(Unlisted(o, s), D \ {s})
         /\ Len(Unlisted(o, s)) = IF s \in D THEN Len(o) - 1 ELSE Len(o)
<1> DEFINE found == {i \in 1..Len(o) : o[i] = s}
           idx == CHOOSE i \in found : \A j \in found : i <= j
           u == [i \in 1..(Len(o) - 1) |-> o[IF i < idx THEN i ELSE i + 1]]
<1>1. o \in Seq(Session) /\ Len(o) \in Nat
  BY DEF Lists
<1>2. CASE s \notin D
  <2>1. found = {}
    BY <1>2 DEF Lists
  <2> QED
    BY <1>2, <2>1 DEF Unlisted, Lists
<1>3. CASE s \in D
  <2>1. PICK k \in 1..Len(o) : o[k] = s
    BY <1>3 DEF Lists
  <2>2. found = {k}
    BY <2>1 DEF Lists
  <2>3. idx = k
    BY <1>1, <2>2
  <2>4. Unlisted(o, s) = u
    BY <2>2 DEF Unlisted
  <2> HIDE DEF found, idx
  <2>5. u \in Seq(Session) /\ Len(u) = Len(o) - 1
    <3>1. \A i \in 1..(Len(o) - 1) : o[IF i < idx THEN i ELSE i + 1] \in Session
      BY <1>1, <2>1, <2>3
    <3> QED
      BY <1>1, <2>1, <3>1, IsASeq
  <2>6. \A i \in 1..(Len(o) - 1) : u[i] = IF i < k THEN o[i] ELSE o[i + 1]
    BY <2>3
  <2> HIDE DEF u
  <2>7. D \ {s} = {u[i] : i \in 1..Len(u)}
    <3>1. ASSUME NEW i \in 1..Len(u) PROVE u[i] \in D \ {s}
      BY <1>1, <2>1, <2>5, <2>6 DEF Lists
    <3>2. ASSUME NEW x \in D \ {s} PROVE \E i \in 1..Len(u) : u[i] = x
      <4>1. PICK j \in 1..Len(o) : o[j] = x
        BY DEF Lists
      <4>2. CASE j < k
        BY <1>1, <2>1, <2>5, <2>6, <4>1, <4>2
      <4>3. CASE j > k
        <5>1. j - 1 \in 1..Len(u) /\ ~(j - 1 < k) /\ j - 1 + 1 = j
          BY <1>1, <2>1, <2>5, <4>3
        <5> QED
          BY <2>5, <2>6, <4>1, <5>1
      <4> QED
        BY <1>1, <2>1, <4>1, <4>2, <4>3
    <3> QED
      BY <3>1, <3>2
  <2>8. ASSUME NEW i \in 1..Len(u), NEW j \in 1..Len(u), u[i] = u[j] PROVE i = j
    BY <1>1, <2>1, <2>5, <2>6, <2>8 DEF Lists
  <2> QED
    <3>1. Lists(u, D \ {s})
      BY <2>5, <2>7, <2>8 DEF Lists
    <3> QED
      BY <1>3, <2>4, <2>5, <3>1
<1> QED
  BY <1>2, <1>3

\* Evicting takes the first out of the order and out of memory when there is one too many.
LEMMA EvictLists ==
  ASSUME NEW m, NEW o, Lists(o, DOMAIN m), Len(o) <= MemSize + 1, Evict(m, o)
  PROVE  Listed'
<1>1. o \in Seq(Session) /\ Len(o) \in Nat /\ MemSize \in Nat \ {0}
  BY SessionsAssumption DEF Lists
<1>2. CASE Len(o) > MemSize
  <2>1. order' = Tail(o) /\ mem' = [q \in DOMAIN m \ {Head(o)} |-> m[q]]
    BY <1>2 DEF Evict, Without
  <2>2. o # <<>>
    BY <1>1, <1>2
  <2>3. /\ Head(o) = o[1] /\ Tail(o) \in Seq(Session) /\ Len(Tail(o)) = Len(o) - 1
        /\ \A i \in 1..Len(Tail(o)) : Tail(o)[i] = o[i + 1]
    BY <1>1, <2>2, HeadTailProperties
  <2> DEFINE t == Tail(o)
  <2> HIDE DEF t
  <2>4. DOMAIN m \ {o[1]} = {t[i] : i \in 1..Len(t)}
    <3>1. ASSUME NEW i \in 1..Len(t) PROVE t[i] \in DOMAIN m \ {o[1]}
      BY <1>1, <2>2, <2>3 DEF Lists, t
    <3>2. ASSUME NEW x \in DOMAIN m \ {o[1]} PROVE \E i \in 1..Len(t) : t[i] = x
      <4>1. PICK j \in 1..Len(o) : o[j] = x
        BY DEF Lists
      <4>2. j - 1 \in 1..Len(t) /\ j - 1 + 1 = j
        BY <1>1, <2>3, <4>1 DEF t
      <4> QED
        BY <2>3, <4>1, <4>2 DEF t
    <3> QED
      BY <3>1, <3>2
  <2>5. ASSUME NEW i \in 1..Len(t), NEW j \in 1..Len(t), t[i] = t[j] PROVE i = j
    BY <1>1, <2>3, <2>5 DEF Lists, t
  <2> QED
    BY <1>1, <2>1, <2>3, <2>4, <2>5 DEF Listed, Lists, t
<1>3. CASE ~(Len(o) > MemSize)
  BY <1>1, <1>3 DEF Evict, Listed, Lists
<1> QED
  BY <1>2, <1>3

\* A session read from its file is listed last.
LEMMA GetLists ==
  ASSUME CacheTyped, Listed, NEW s \in Session \cup {NoSession}, GetSession(s)
  PROVE  Listed'
<1>1. CASE enabled /\ s # NoSession /\ s \notin DOMAIN mem /\ disk[s] # Empty
  <2> DEFINE m == With(mem, s, disk[s])
  <2>1. Evict(m, Append(order, s)) /\ DOMAIN m = DOMAIN mem \cup {s}
    BY <1>1 DEF GetSession, With
  <2> HIDE DEF m
  <2>2. Lists(Append(order, s), DOMAIN m) /\ Len(Append(order, s)) = Len(order) + 1
    BY <1>1, <2>1, AppendLists DEF Listed
  <2>3. Len(order) \in Nat /\ MemSize \in Nat
    BY SessionsAssumption DEF Listed, Lists
  <2> QED
    <3>1. Len(Append(order, s)) <= MemSize + 1
      BY <2>2, <2>3 DEF Listed
    <3> QED
      BY <2>1, <2>2, <3>1, EvictLists
<1>2. CASE ~(enabled /\ s # NoSession /\ s \notin DOMAIN mem /\ disk[s] # Empty)
  <2>1. mem' = mem /\ order' = order
    BY <1>2 DEF GetSession
  <2> QED
    BY <2>1 DEF Listed
<1> QED
  BY <1>1, <1>2

\* So is a session that is stored.
LEMMA SetLists ==
  ASSUME CacheTyped, Listed, NEW s \in Session, NEW st, SetSession(s, st)
  PROVE  Listed'
<1>1. CASE enabled
  <2>1. PICK kept : Evict(With(mem, s, kept), Append(Unlisted(order, s), s))
    BY <1>1 DEF SetSession
  <2> DEFINE m == With(mem, s, kept)
  <2>2. DOMAIN m = (DOMAIN mem \ {s}) \cup {s}
    BY DEF With
  <2> HIDE DEF m
  <2>3. /\ Lists(Unlisted(order, s), DOMAIN mem \ {s})
        /\ Len(Unlisted(order, s)) = IF s \in DOMAIN mem THEN Len(order) - 1 ELSE Len(order)
    BY UnlistedLists DEF Listed
  <2>4. /\ Lists(Append(Unlisted(order, s), s), DOMAIN m)
        /\ Len(Append(Unlisted(order, s), s)) = Len(Unlisted(order, s)) + 1
    BY <2>2, <2>3, AppendLists
  <2>5. Len(order) \in Nat /\ MemSize \in Nat
    BY SessionsAssumption DEF Listed, Lists
  <2>6. Len(Append(Unlisted(order, s), s)) <= MemSize + 1
    BY <2>3, <2>4, <2>5 DEF Listed
  <2> QED
    BY <2>1, <2>4, <2>6, EvictLists DEF m
<1>2. CASE ~enabled
  BY <1>2 DEF SetSession, Listed, Lists
<1> QED
  BY <1>1, <1>2

\* A session that is deleted is listed no more.
LEMMA DeleteLists ==
  ASSUME CacheTyped, Listed, NEW s \in Session, DeleteSession(s)
  PROVE  Listed'
<1>1. order' = Unlisted(order, s) /\ DOMAIN mem' = DOMAIN mem \ {s}
  BY DEF DeleteSession, Without
<1>2. /\ Lists(Unlisted(order, s), DOMAIN mem \ {s})
      /\ Len(Unlisted(order, s)) = IF s \in DOMAIN mem THEN Len(order) - 1 ELSE Len(order)
  BY UnlistedLists DEF Listed
<1>3. Len(order) \in Nat /\ MemSize \in Nat
  BY SessionsAssumption DEF Listed, Lists
<1>4. Len(order') <= MemSize
  BY <1>1, <1>2, <1>3 DEF Listed
<1> QED
  BY <1>1, <1>2, <1>4 DEF Listed

-----------------------------------------------------------------------------
(* What becomes of the states of a session. *)

\* The session s has the state st, in memory or in its file.
InCache(s, st) == st = disk[s] \/ (s \in DOMAIN mem /\ st = mem[s])

\* What is got is nothing, or a state that the session has.
LEMMA GotCached ==
  ASSUME NEW s \in Session \cup {NoSession}
  PROVE  Got(s) = Empty \/ (s \in Session /\ InCache(s, Got(s)))
BY DEF Got, Value, InCache

\* Reading a session gives none a new state.
LEMMA GetCached ==
  ASSUME CacheTyped, NEW s \in Session \cup {NoSession}, GetSession(s),
         NEW q \in Session, NEW x, InCache(q, x)'
  PROVE  InCache(q, x)
<1>1. CASE enabled /\ s # NoSession /\ s \notin DOMAIN mem /\ disk[s] # Empty
  <2>1. s \in Session /\ disk[s] \in State
    BY <1>1 DEF CacheTyped
  <2> DEFINE m == With(mem, s, disk[s])
  <2>2. /\ m \in [DOMAIN mem \cup {s} -> State] /\ m[s] = disk[s]
        /\ \A p \in DOMAIN mem \ {s} : m[p] = mem[p]
    BY <2>1, WithIsMemory
  <2>3. Evict(m, Append(order, s)) /\ disk' = disk
    BY <1>1 DEF GetSession
  <2> HIDE DEF m
  <2>4. DOMAIN mem' \subseteq DOMAIN mem \cup {s} /\ \A p \in DOMAIN mem' : mem'[p] = m[p]
    BY <2>2, <2>3, EvictShrinks
  <2> QED
    BY <2>2, <2>3, <2>4 DEF InCache
<1>2. CASE ~(enabled /\ s # NoSession /\ s \notin DOMAIN mem /\ disk[s] # Empty)
  <2>1. mem' = mem /\ disk' = disk
    BY <1>2 DEF GetSession
  <2> QED
    BY <2>1 DEF InCache
<1> QED
  BY <1>1, <1>2

\* Storing a session gives no other a new state, and to it the one that is stored, with the
\* conversation it has in memory if it is stored without one.
LEMMA SetCached ==
  ASSUME CacheTyped, NEW s \in Session, NEW st \in State, SetSession(s, st),
         NEW q \in Session, NEW x, InCache(q, x)'
  PROVE  \/ InCache(q, x) \/ x = Empty
         \/ /\ q = s /\ x \in State /\ x.client = st.client /\ x.started = st.started
            /\ x.conv = st.conv \/ \E y \in State : InCache(s, y) /\ x.conv = y.conv
<1>1. CASE enabled
  <2> DEFINE kept == IF st.conv = 0 /\ s \in DOMAIN mem THEN [st EXCEPT !.conv = mem[s].conv] ELSE st
             m == With(mem, s, kept)
  <2>1. /\ kept \in State /\ kept.client = st.client /\ kept.started = st.started
        /\ kept.conv = st.conv \/ \E y \in State : InCache(s, y) /\ kept.conv = y.conv
    BY DEF State, CacheTyped, InCache
  <2>2. Evict(m, Append(Unlisted(order, s), s)) /\ Filed(s, kept)
    BY <1>1 DEF SetSession
  <2> HIDE DEF kept
  <2>3. m \in [DOMAIN mem \cup {s} -> State] /\ m[s] = kept /\ \A p \in DOMAIN mem \ {s} : m[p] = mem[p]
    BY <2>1, WithIsMemory
  <2> HIDE DEF m
  <2>4. DOMAIN mem' \subseteq DOMAIN mem \cup {s} /\ \A p \in DOMAIN mem' : mem'[p] = m[p]
    BY <2>2, <2>3, EvictShrinks
  <2>5. (\A p \in Session \ {s} : disk'[p] = disk[p]) /\ disk'[s] \in {disk[s], Empty, kept}
    BY <2>2 DEF Filed, CacheTyped
  <2>6. InCache(q, x) \/ x = Empty \/ (q = s /\ x = kept)
    BY <2>3, <2>4, <2>5 DEF InCache
  <2> QED
    BY <2>1, <2>6
<1>2. CASE ~enabled
  BY <1>2 DEF SetSession, InCache
<1> QED
  BY <1>1, <1>2

\* Deleting a session gives none a new state but that of no session, and leaves no other to it when
\* its file is gone.
LEMMA DeleteCached ==
  ASSUME CacheTyped, NEW s \in Session, DeleteSession(s),
         NEW q \in Session, NEW x, InCache(q, x)'
  PROVE  /\ InCache(q, x) \/ x = Empty
         /\ q = s /\ s \notin lagging' => x = Empty
<1>1. DOMAIN mem' = DOMAIN mem \ {s} /\ \A p \in DOMAIN mem' : mem'[p] = mem[p]
  BY DEF DeleteSession, Without
<1>2. /\ \A p \in Session \ {s} : disk'[p] = disk[p]
      /\ \/ lagging' = lagging \ {s} /\ disk'[s] = Empty
         \/ lagging' = lagging \cup {s} /\ disk'[s] = disk[s]
  BY DEF DeleteSession, CacheTyped
<1> QED
  BY <1>1, <1>2 DEF InCache

-----------------------------------------------------------------------------
(* Where the conversations of sessions and requests come from. *)

\* The conversations that a session has and that a request holds.
HasConv(s, c) == \E st \in State : InCache(s, st) /\ c = st.conv
Holds(r, c) == c \in {req[r].conv, req[r].snap.conv, req[r].final}

\* A request takes none, one that it or its session has, or one that the service opens for it.
Comes(r, c) ==
  \/ c = 0 \/ Holds(r, c)
  \/ req[r].sid \in Session /\ HasConv(req[r].sid, c)
  \/ c = Len(owner) + 1 /\ owner' = Append(owner, req[r].sid)

\* What the other requests keep; they may learn that they are not alone.
Kept(q) ==
  /\ req'[q].pc = req[q].pc /\ req'[q].kind = req[q].kind /\ req'[q].sid = req[q].sid
  /\ req'[q].conv = req[q].conv /\ req'[q].snap = req[q].snap /\ req'[q].final = req[q].final
  /\ req'[q].client = req[q].client /\ req'[q].start = req[q].start /\ req'[q].asked = req[q].asked
  /\ req'[q].alone => req[q].alone

\* A request arrives, goes on in its session, or is done; and holds on to what it may.
Carries(r) ==
  /\ \/ Arrive(r)
     \/ /\ req[r].pc # "idle" /\ req'[r].pc # "idle"
        /\ req'[r].sid = req[r].sid /\ req'[r].alone = req[r].alone
     \/ req'[r] = Idle
  /\ \A c : Holds(r, c)' => c = 0 \/ (req'[r].sid = req[r].sid /\ Comes(r, c))

\* A session takes what its request holds, or the answer that is published under its name.
Hands(r) ==
  \A s \in Session : \A c : HasConv(s, c)' =>
    \/ c = 0 \/ HasConv(s, c)
    \/ s = req[r].sid /\ Holds(r, c)
    \/ s = <<"previous", responses + 1>> /\ responses' = responses + 1 /\ Holds(r, c)

\* Conversations are opened one at a time.
Opens(r) ==
  /\ owner' = owner \/ owner' = Append(owner, req[r].sid)
  /\ responses' \in {responses, responses + 1}

\* A step moves conversations in these ways only.
Moves(r) == (\A q \in Request \ {r} : Kept(q)) /\ Carries(r) /\ Hands(r) /\ Opens(r)

\* A session that is left alone keeps its conversations.
LEMMA HandsNothing ==
  ASSUME NEW r, mem' = mem, disk' = disk
  PROVE  Hands(r)
BY DEF Hands, HasConv, InCache

\* So does one that is read.
LEMMA HandsRead ==
  ASSUME CacheTyped, NEW r, NEW s \in Session \cup {NoSession}, GetSession(s)
  PROVE  Hands(r)
<1> SUFFICES ASSUME NEW q \in Session, NEW c, HasConv(q, c)' PROVE HasConv(q, c)
  BY DEF Hands
<1>1. PICK x \in State : InCache(q, x)' /\ c = x.conv
  BY DEF HasConv
<1> QED
  BY <1>1, GetCached DEF HasConv

\* So does one that is deleted.
LEMMA HandsDeleted ==
  ASSUME CacheTyped, NEW r, NEW s \in Session, DeleteSession(s)
  PROVE  Hands(r)
<1> SUFFICES ASSUME NEW q \in Session, NEW c, HasConv(q, c)' PROVE c = 0 \/ HasConv(q, c)
  BY DEF Hands
<1>1. PICK x \in State : InCache(q, x)' /\ c = x.conv
  BY DEF HasConv
<1>2. InCache(q, x) \/ x = Empty
  BY <1>1, DeleteCached
<1> QED
  BY <1>1, <1>2 DEF HasConv, Empty

\* One that is stored takes the conversation it is stored with.
LEMMA HandsStored ==
  ASSUME CacheTyped, NEW r, NEW s \in Session, NEW st \in State, SetSession(s, st), Holds(r, st.conv),
         s = req[r].sid \/ (s = <<"previous", responses + 1>> /\ responses' = responses + 1)
  PROVE  Hands(r)
<1> SUFFICES ASSUME NEW q \in Session, NEW c, HasConv(q, c)'
             PROVE  c = 0 \/ HasConv(q, c) \/ (q = s /\ c = st.conv)
  BY DEF Hands
<1>1. PICK x \in State : InCache(q, x)' /\ c = x.conv
  BY DEF HasConv
<1>2. \/ InCache(q, x) \/ x = Empty
      \/ q = s /\ (x.conv = st.conv \/ \E y \in State : InCache(s, y) /\ x.conv = y.conv)
  BY <1>1, SetCached
<1> QED
  BY <1>1, <1>2 DEF HasConv, Empty

\* A request that becomes x leaves the others alone, and carries what x holds.
LEMMA CarriesTo ==
  ASSUME RequestsTyped, NEW r \in Request, NEW x, req' = [req EXCEPT ![r] = x],
         \/ req[r].pc # "idle" /\ x.pc # "idle" /\ x.sid = req[r].sid /\ x.alone = req[r].alone
         \/ x = Idle,
         \A c \in {x.conv, x.snap.conv, x.final} : c = 0 \/ (x.sid = req[r].sid /\ Comes(r, c))
  PROVE  (\A q \in Request \ {r} : Kept(q)) /\ Carries(r)
<1>1. req'[r] = x /\ \A q \in Request \ {r} : req'[q] = req[q]
  BY DEF RequestsTyped
<1> QED
  BY <1>1 DEF Kept, Carries, Holds

\* One that is done holds nothing.
LEMMA CarriesDone ==
  ASSUME RequestsTyped, NEW r \in Request, Done(r)
  PROVE  (\A q \in Request \ {r} : Kept(q)) /\ Carries(r)
<1>1. Idle.conv = 0 /\ Idle.snap.conv = 0 /\ Idle.final = 0
  BY DEF Idle, Empty
<1> QED
  BY <1>1, CarriesTo DEF Done

\* One that goes on holds what it held.
LEMMA CarriesOn ==
  ASSUME RequestsTyped, NEW r \in Request, req[r].pc # "idle", NEW pc, pc # "idle", Goto(r, pc)
  PROVE  (\A q \in Request \ {r} : Kept(q)) /\ Carries(r)
<1> DEFINE x == [req[r] EXCEPT !.pc = pc]
<1>1. req[r] \in RequestRecord /\ req' = [req EXCEPT ![r] = x]
  BY DEF RequestsTyped, Goto
<1>2. /\ x.pc # "idle" /\ x.sid = req[r].sid /\ x.alone = req[r].alone
      /\ x.conv = req[r].conv /\ x.snap = req[r].snap /\ x.final = req[r].final
  BY <1>1 DEF RequestRecord
<1> HIDE DEF x
<1> QED
  BY <1>1, <1>2, CarriesTo DEF Comes, Holds

\* A request that arrives holds nothing.
LEMMA ArriveCarries ==
  ASSUME RequestsTyped, NEW r \in Request, Arrive(r)
  PROVE  /\ \A q \in Request \ {r} : Kept(q)
         /\ Carries(r)
         /\ req'[r].client = 0 /\ ~req'[r].start /\ req'[r].pc \in {"enable", "disable"}
<1>1. PICK kind \in Kinds, offer \in Offers, n \in 1..MaxTurns :
         LET sid == SidOf(kind, offer, n)
             others == {q \in Request : ~At(q, "idle") /\ req[q].sid = sid}
         IN  req' = [q \in Request |->
                IF q = r THEN [Idle EXCEPT !.pc = IF policy.on THEN "enable" ELSE "disable",
                                           !.kind = kind, !.sid = sid, !.alone = others = {}]
                ELSE [req[q] EXCEPT !.alone = @ /\ q \notin others]]
  BY DEF Arrive
<1> DEFINE sid == SidOf(kind, offer, n)
           others == {q \in Request : ~At(q, "idle") /\ req[q].sid = sid}
           x == [Idle EXCEPT !.pc = IF policy.on THEN "enable" ELSE "disable",
                             !.kind = kind, !.sid = sid, !.alone = others = {}]
<1>2. /\ x.conv = 0 /\ x.snap.conv = 0 /\ x.final = 0 /\ x.client = 0 /\ ~x.start
      /\ x.pc \in {"enable", "disable"}
  <2> HIDE DEF sid, others
  <2> QED
    BY DEF Idle, Empty
<1>3. req'[r] = x
  BY <1>1
<1> HIDE DEF x
<1>4. ASSUME NEW q \in Request \ {r} PROVE Kept(q)
  <2>1. PICK b \in BOOLEAN : req'[q] = [req[q] EXCEPT !.alone = b] /\ (b => req[q].alone)
    <3> DEFINE b == req[q].alone /\ q \notin others
    <3>1. req'[q] = [req[q] EXCEPT !.alone = b]
      BY <1>1
    <3> HIDE DEF others
    <3>2. b \in BOOLEAN /\ (b => req[q].alone)
      OBVIOUS
    <3> QED
      BY <3>1, <3>2
  <2>2. req[q] \in RequestRecord
    BY DEF RequestsTyped
  <2> QED
    BY <2>1, <2>2 DEF Kept, RequestRecord
<1>5. Carries(r)
  BY <1>2, <1>3 DEF Carries, Holds
<1> QED
  BY <1>2, <1>3, <1>4, <1>5

\* Every step of a request moves conversations as it may.
LEMMA StepMoves ==
  ASSUME IInv, NEW r \in Request, Step(r)
  PROVE  Moves(r)
<1> DEFINE Carried == (\A q \in Request \ {r} : Kept(q)) /\ Carries(r)
<1>0. /\ RequestsTyped /\ Sited /\ CacheTyped /\ req[r] \in RequestRecord
      /\ req[r].sid \in Session \cup {NoSession} /\ req[r].snap \in State /\ Got(req[r].sid) \in State
  BY GotIsState DEF IInv, RequestsTyped, RequestRecord
<1>a. Comes(r, 0) /\ Comes(r, req[r].conv) /\ Comes(r, req[r].snap.conv) /\ Comes(r, req[r].final)
  BY DEF Comes, Holds
<1>b. Comes(r, Got(req[r].sid).conv)
  BY <1>0, GotCached DEF Comes, HasConv, Empty
<1>1. CASE Arrive(r)
  <2>1. mem' = mem /\ disk' = disk /\ owner' = owner /\ responses' = responses
    BY <1>1 DEF Arrive, cache
  <2> QED
    BY <1>0, <1>1, <2>1, ArriveCarries, HandsNothing DEF Moves, Opens
<1>c. SUFFICES ASSUME ~Arrive(r) PROVE Moves(r)
  BY <1>1
<1>d. req[r].pc # "idle"
  BY <1>c DEF Step, SetEnabled, LookUp, Upload, ReadTurn, CountTurn, Send, Fail, AnswerNothing, CutShort, AskAgain,
     Answer, Continue, Repair, Repaired, ReadToAdopt, Adopt, Publish, Finish, Drop, At
<1>2. CASE SetEnabled(r) \/ Send(r) \/ CutShort(r) \/ Repaired(r) \/ Finish(r)
  <2>1. mem' = mem /\ disk' = disk /\ owner' = owner /\ responses' = responses
    BY <1>2 DEF SetEnabled, Send, CutShort, Repaired, Finish, cache, counts
  <2>2. Done(r) \/ \E pc \in {"lookup", "sent", "drop", "adopt"} : Goto(r, pc)
    BY <1>2 DEF SetEnabled, Send, CutShort, Repaired, Finish
  <2> QED
    BY <1>0, <2>1, <2>2, CarriesDone, <1>d, CarriesOn, HandsNothing DEF Moves, Opens
<1>3. CASE LookUp(r)
  <2> DEFINE c == IF req[r].kind = "compact" THEN 0 ELSE Got(req[r].sid).conv
             x == [req[r] EXCEPT !.pc = AfterLookup(r), !.snap = Got(req[r].sid), !.conv = c]
  <2>1. req' = [req EXCEPT ![r] = x]
    BY <1>0, <1>3 DEF LookUp, RequestsTyped
  <2> HIDE DEF c
  <2>2. /\ x.pc # "idle" /\ x.sid = req[r].sid /\ x.alone = req[r].alone
        /\ x.conv = c /\ x.snap = Got(req[r].sid) /\ x.final = req[r].final
    BY <1>0, <1>d DEF RequestRecord, AfterLookup, AfterAnswer
  <2> HIDE DEF x
  <2>3. Carried
    BY <1>0, <1>a, <1>b, <2>1, <2>2, <1>d, CarriesTo DEF c
  <2>4. Hands(r) /\ owner' = owner /\ responses' = responses
    BY <1>0, <1>3, HandsRead DEF LookUp, counts
  <2> QED
    BY <2>3, <2>4 DEF Moves, Opens
<1>4. CASE Upload(r)
  <2>1. Hands(r) /\ Opens(r)
    BY <1>4, HandsNothing DEF Upload, cache, Opens
  <2>2. CASE Done(r)
    BY <1>0, <2>1, <2>2, CarriesDone DEF Moves
  <2>3. CASE ~Done(r)
    <3> DEFINE x == [req[r] EXCEPT !.conv = Len(owner) + 1]
    <3>1. req' = [req EXCEPT ![r] = x] /\ owner' = Append(owner, req[r].sid)
      BY <1>0, <1>4, <2>3 DEF Upload, RequestsTyped
    <3>2. /\ x.pc # "idle" /\ x.sid = req[r].sid /\ x.alone = req[r].alone
          /\ x.conv = Len(owner) + 1 /\ x.snap = req[r].snap /\ x.final = req[r].final
      BY <1>0, <1>d DEF RequestRecord, AfterLookup, AfterAnswer
    <3> HIDE DEF x
    <3>3. Comes(r, Len(owner) + 1)
      BY <3>1 DEF Comes
    <3> QED
      BY <1>0, <1>a, <2>1, <3>1, <3>2, <3>3, <1>d, CarriesTo DEF Moves
  <2> QED
    BY <2>2, <2>3
<1>5. CASE ReadTurn(r)
  <2>1. PICK b, i : req' = [req EXCEPT ![r].pc = "count", ![r].snap = Got(req[r].sid), ![r].start = b,
                                       ![r].client = i]
    BY <1>5 DEF ReadTurn
  <2> DEFINE x == [req[r] EXCEPT !.pc = "count", !.snap = Got(req[r].sid), !.start = b, !.client = i]
  <2>2. req' = [req EXCEPT ![r] = x]
    BY <1>0, <2>1 DEF RequestsTyped
  <2>3. /\ x.pc # "idle" /\ x.sid = req[r].sid /\ x.alone = req[r].alone
        /\ x.conv = req[r].conv /\ x.snap = Got(req[r].sid) /\ x.final = req[r].final
    BY <1>0, <1>d DEF RequestRecord, AfterLookup, AfterAnswer
  <2> HIDE DEF x
  <2>4. Hands(r) /\ owner' = owner /\ responses' = responses
    BY <1>0, <1>5, HandsRead DEF ReadTurn
  <2> QED
    BY <1>0, <1>a, <1>b, <2>2, <2>3, <2>4, <1>d, CarriesTo DEF Moves, Opens
<1>6. CASE CountTurn(r)
  <2> DEFINE st == [conv |-> req[r].snap.conv, client |-> req[r].client, started |-> TRUE]
  <2>1. st \in State /\ st.conv = req[r].snap.conv /\ req[r].sid \in Session
    BY <1>0, <1>6 DEF State, RequestRecord, CountTurn, At, Sited
  <2>2. /\ SetSession(req[r].sid, st) /\ owner' = owner /\ responses' = responses
        /\ \E pc \in {"call", "adopt"} : Goto(r, pc)
    BY <1>6 DEF CountTurn, counts
  <2> HIDE DEF st
  <2>3. Hands(r)
    BY <1>0, <2>1, <2>2, HandsStored DEF Holds
  <2> QED
    BY <1>0, <2>2, <2>3, <1>d, CarriesOn DEF Moves, Opens
<1>7. CASE Fail(r) \/ AnswerNothing(r)
  <2>1. mem' = mem /\ disk' = disk /\ owner' = owner /\ responses' = responses
    BY <1>7 DEF Fail, AnswerNothing, cache, counts
  <2>2. CASE Done(r)
    BY <1>0, <2>1, <2>2, CarriesDone, HandsNothing DEF Moves, Opens
  <2>3. CASE ~Done(r)
    <3> DEFINE x == [Bare(r, "drop") EXCEPT !.final = req[r].conv]
    <3>1. req' = [req EXCEPT ![r] = x]
      BY <1>7, <2>3 DEF Fail, AnswerNothing, DropOrEnd
    <3>2. /\ x.pc # "idle" /\ x.sid = req[r].sid /\ x.alone = req[r].alone
          /\ x.conv = 0 /\ x.snap = Empty /\ x.final = req[r].conv
      BY <1>0, Dropping
    <3> HIDE DEF x
    <3>3. x.snap.conv = 0
      BY <3>2 DEF Empty
    <3> QED
      BY <1>0, <1>a, <2>1, <3>1, <3>2, <3>3, <1>d, CarriesTo, HandsNothing DEF Moves, Opens
  <2> QED
    BY <2>2, <2>3
<1>8. CASE AskAgain(r)
  <2> DEFINE x == [Bare(r, "call") EXCEPT !.asked = TRUE]
  <2>2. req' = [req EXCEPT ![r] = x]
    BY <1>8, Zenon DEF AskAgain
  <2>1. /\ x.pc # "idle" /\ x.sid = req[r].sid /\ x.alone = req[r].alone
        /\ x.conv = 0 /\ x.snap = Empty /\ x.final = 0
    BY <1>0, Asking
  <2> HIDE DEF x
  <2>3. /\ x.pc # "idle" /\ x.sid = req[r].sid /\ x.alone = req[r].alone
        /\ x.conv = 0 /\ x.snap.conv = 0 /\ x.final = 0
    BY <2>1 DEF Empty
  <2>4. Hands(r)
    <3>1. CASE req[r].sid = NoSession
      BY <1>8, <3>1, HandsNothing DEF AskAgain
    <3>2. CASE req[r].sid # NoSession
      BY <1>0, <1>8, <3>2, HandsDeleted DEF AskAgain
    <3> QED
      BY <3>1, <3>2
  <2>5. Carried
    BY <1>0, <1>a, <2>2, <2>3, <1>d, CarriesTo
  <2>6. Opens(r)
    BY <1>8 DEF AskAgain, Opens
  <2> QED
    BY <2>4, <2>5, <2>6 DEF Moves
<1>9. CASE Answer(r)
  <2>1. PICK c \in Conv : Names(r, c) /\ req' = [req EXCEPT ![r].pc = AfterAnswer(r), ![r].final = c]
    BY <1>9 DEF Answer
  <2> DEFINE x == [req[r] EXCEPT !.pc = AfterAnswer(r), !.final = c]
  <2>2. req' = [req EXCEPT ![r] = x]
    BY <1>0, <2>1 DEF RequestsTyped
  <2>3. /\ x.pc # "idle" /\ x.sid = req[r].sid /\ x.alone = req[r].alone
        /\ x.conv = req[r].conv /\ x.snap = req[r].snap /\ x.final = c
    BY <1>0, <1>d DEF RequestRecord, AfterLookup, AfterAnswer
  <2> HIDE DEF x
  <2>4. Comes(r, c) /\ (owner' = owner \/ owner' = Append(owner, req[r].sid))
    BY <2>1 DEF Comes, Names, Holds
  <2>5. mem' = mem /\ disk' = disk /\ responses' = responses
    BY <1>9 DEF Answer, cache
  <2> QED
    BY <1>0, <1>a, <2>2, <2>3, <2>4, <2>5, <1>d, CarriesTo, HandsNothing DEF Moves, Opens
<1>10. CASE Publish(r)
  <2>1. PICK s \in Session : s = <<"previous", responses + 1>>
    <3>1. responses + 1 \in 1..MaxTurns
      BY <1>0, <1>10, SessionsAssumption DEF Publish, RequestsTyped
    <3> QED
      BY <3>1 DEF Session
  <2> DEFINE st == [Empty EXCEPT !.conv = req[r].final]
  <2>2. st \in State /\ st.conv = req[r].final
    BY <1>0, EmptyIsState DEF State, Empty, RequestRecord
  <2>3. SetSession(s, st) /\ responses' = responses + 1 /\ owner' = owner
    BY <1>10, <2>1 DEF Publish
  <2> HIDE DEF st
  <2>4. Hands(r)
    BY <1>0, <2>1, <2>2, <2>3, HandsStored DEF Holds
  <2>5. Done(r) \/ Goto(r, "adopt")
    BY <1>10 DEF Publish
  <2> QED
    BY <1>0, <2>3, <2>4, <2>5, CarriesDone, <1>d, CarriesOn DEF Moves, Opens
<1>11. CASE Continue(r)
  <2> DEFINE x == [req[r] EXCEPT !.pc = "call", !.conv = req[r].final]
  <2>1. req' = [req EXCEPT ![r] = x]
    BY <1>0, <1>11 DEF Continue, RequestsTyped
  <2>2. /\ x.pc # "idle" /\ x.sid = req[r].sid /\ x.alone = req[r].alone
        /\ x.conv = req[r].final /\ x.snap = req[r].snap /\ x.final = req[r].final
    BY <1>0, <1>d DEF RequestRecord, AfterLookup, AfterAnswer
  <2> HIDE DEF x
  <2>3. mem' = mem /\ disk' = disk /\ owner' = owner /\ responses' = responses
    BY <1>11 DEF Continue, cache, counts
  <2> QED
    BY <1>0, <1>a, <2>1, <2>2, <2>3, <1>d, CarriesTo, HandsNothing DEF Moves, Opens
<1>12. CASE Repair(r)
  <2> DEFINE x == [req[r] EXCEPT !.pc = "turn", !.conv = 0, !.asked = TRUE]
  <2>1. req' = [req EXCEPT ![r] = x]
    BY <1>0, <1>12 DEF Repair, RequestsTyped
  <2>2. /\ x.pc # "idle" /\ x.sid = req[r].sid /\ x.alone = req[r].alone
        /\ x.conv = 0 /\ x.snap = req[r].snap /\ x.final = req[r].final
    BY <1>0, <1>d DEF RequestRecord, AfterLookup, AfterAnswer
  <2> HIDE DEF x
  <2>3. mem' = mem /\ disk' = disk /\ owner' = owner /\ responses' = responses
    BY <1>12 DEF Repair, cache, counts
  <2> QED
    BY <1>0, <1>a, <2>1, <2>2, <2>3, <1>d, CarriesTo, HandsNothing DEF Moves, Opens
<1>13. CASE ReadToAdopt(r)
  <2>1. PICK pc \in {"store", "end"} : req' = [req EXCEPT ![r].snap = Got(req[r].sid), ![r].pc = pc]
    BY <1>13 DEF ReadToAdopt
  <2> DEFINE x == [req[r] EXCEPT !.snap = Got(req[r].sid), !.pc = pc]
  <2>2. req' = [req EXCEPT ![r] = x]
    BY <1>0, <2>1 DEF RequestsTyped
  <2>3. /\ x.pc # "idle" /\ x.sid = req[r].sid /\ x.alone = req[r].alone
        /\ x.conv = req[r].conv /\ x.snap = Got(req[r].sid) /\ x.final = req[r].final
    BY <1>0, <1>d DEF RequestRecord, AfterLookup, AfterAnswer
  <2> HIDE DEF x
  <2>4. Hands(r) /\ owner' = owner /\ responses' = responses
    BY <1>0, <1>13, HandsRead DEF ReadToAdopt, counts
  <2> QED
    BY <1>0, <1>a, <1>b, <2>2, <2>3, <2>4, <1>d, CarriesTo DEF Moves, Opens
<1>14. CASE Adopt(r)
  <2> DEFINE st == [req[r].snap EXCEPT !.conv = req[r].final]
  <2>1. st \in State /\ st.conv = req[r].final
    BY <1>0 DEF State, RequestRecord
  <2>2. SetSession(req[r].sid, st) /\ owner' = owner /\ responses' = responses /\ req[r].sid \in Session
    BY <1>0, <1>14 DEF Adopt, At, Sited, counts
  <2> HIDE DEF st
  <2>3. Hands(r)
    BY <1>0, <2>1, <2>2, HandsStored DEF Holds
  <2> QED
    BY <1>0, <1>14, <2>2, <2>3, CarriesDone DEF Adopt, Moves, Opens
<1>15. CASE Drop(r)
  <2>1. DeleteSession(req[r].sid) /\ owner' = owner /\ responses' = responses /\ req[r].sid \in Session
    BY <1>0, <1>15 DEF Drop, At, Sited
  <2> QED
    BY <1>0, <1>15, <2>1, HandsDeleted, CarriesDone DEF Drop, Moves, Opens
<1> QED
  BY <1>c, <1>2, <1>3, <1>4, <1>5, <1>6, <1>7, <1>8, <1>9, <1>10, <1>11, <1>12, <1>13, <1>14, <1>15
  DEF Step

-----------------------------------------------------------------------------
(* Conversations that were dropped. *)

\* The conversations that sessions have and requests hold have been opened.
Opened ==
  /\ \A s \in Session : \A c : HasConv(s, c) => c \in 0..Len(owner)
  /\ \A r \in Request : \A c : Holds(r, c) => c \in 0..Len(owner)

\* A request that is alone shares its session with no other; one that has not come has none.
Apart ==
  /\ \A r \in Request : At(r, "idle") => req[r].sid = NoSession
  /\ \A r, q \in Request : (r # q /\ req[r].alone /\ req[r].sid # NoSession) => req[q].sid # req[r].sid

\* Nobody names a response before it is stored, except the first.
Known(s) == \A n : s = <<"previous", n>> => n <= responses \/ n <= 1
Named == (\A r \in Request : Known(req[r].sid)) /\ \A p \in failed : Known(p[1])

\* Until a response is stored, conversations stay in the session that opened them.
Owned(c, s) == c # 0 => c \in 1..Len(owner) /\ owner[c] = s
Unpublished ==
  responses = 0 =>
    /\ \A s \in Session : \A c : HasConv(s, c) => Owned(c, s)
    /\ \A r \in Request : \A c : Holds(r, c) => Owned(c, req[r].sid)
    /\ \A p \in failed : Owned(p[2], p[1])

\* Neither the session nor a request of it has a conversation that was dropped from it for good.
Forgotten ==
  \A p \in failed :
    /\ p \in Session \X Conv /\ p[2] \in 1..Len(owner)
    /\ ~HasConv(p[1], p[2])
    /\ \A r \in Request : req[r].sid = p[1] => ~Holds(r, p[2])

\* The inductive invariant of the conversations.
ConvInv == Opened /\ Apart /\ Named /\ Unpublished /\ Forgotten

\* Opening a conversation changes the owner of none.
LEMMA OpensOne ==
  ASSUME RequestsTyped, NEW r \in Request, Opens(r)
  PROVE  /\ Len(owner) \in Nat /\ Len(owner') \in Nat /\ Len(owner) <= Len(owner')
         /\ \A c \in 1..Len(owner) : owner'[c] = owner[c]
         /\ owner' = Append(owner, req[r].sid) =>
              Len(owner') = Len(owner) + 1 /\ owner'[Len(owner) + 1] = req[r].sid
         /\ responses' \in Nat /\ responses <= responses'
<1>1. owner \in Seq(Session \cup {NoSession}) /\ req[r].sid \in Session \cup {NoSession} /\ responses \in Nat
  BY DEF RequestsTyped, RequestRecord
<1> QED
  BY <1>1, AppendProperties DEF Opens

\* What a request holds after a step of another it held before.
LEMMA KeptHolds ==
  ASSUME NEW q, Kept(q), NEW c
  PROVE  Holds(q, c)' <=> Holds(q, c)
BY DEF Kept, Holds

\* Requests take conversations that have been opened, and so do sessions.
LEMMA OpenedStep ==
  ASSUME RequestsTyped, Opened, NEW r \in Request, Moves(r)
  PROVE  Opened'
<1>1. Len(owner) \in Nat /\ Len(owner') \in Nat /\ Len(owner) <= Len(owner')
      /\ (owner' = Append(owner, req[r].sid) => Len(owner') = Len(owner) + 1)
  BY OpensOne DEF Moves
<1>2. ASSUME NEW s \in Session, NEW c, HasConv(s, c)' PROVE c \in 0..Len(owner')
  <2>1. c = 0 \/ HasConv(s, c) \/ Holds(r, c)
    BY <1>2 DEF Moves, Hands
  <2> QED
    BY <1>1, <2>1 DEF Opened
<1>3. ASSUME NEW q \in Request, NEW c, Holds(q, c)' PROVE c \in 0..Len(owner')
  <2>1. CASE q # r
    BY <1>1, <1>3, <2>1, KeptHolds DEF Moves, Opened
  <2>2. CASE q = r
    <3>1. c = 0 \/ Comes(r, c)
      BY <1>3, <2>2 DEF Moves, Carries
    <3> QED
      BY <1>1, <3>1 DEF Comes, Opened
  <2> QED
    BY <2>1, <2>2
<1> QED
  BY <1>2, <1>3 DEF Opened

\* A request that arrives is alone if no other is under way in its session, which then are not.
LEMMA ArriveApart ==
  ASSUME RequestsTyped, Apart, Named, NEW r \in Request, Arrive(r)
  PROVE  Apart' /\ \A q \in Request : Known(req[q].sid)'
<1>0. /\ req' \in [Request -> RequestRecord] => \A q \in Request : req'[q] \in RequestRecord
      /\ \A q \in Request : req[q] \in RequestRecord
      /\ responses' = responses
  BY DEF RequestsTyped, Arrive
<1>1. PICK kind \in Kinds, offer \in Offers, n \in 1..MaxTurns :
         /\ n <= responses \/ n = 1
         /\ LET sid == SidOf(kind, offer, n)
                others == {q \in Request : ~At(q, "idle") /\ req[q].sid = sid}
            IN  req' = [q \in Request |->
                IF q = r THEN [Idle EXCEPT !.pc = IF policy.on THEN "enable" ELSE "disable",
                                           !.kind = kind, !.sid = sid, !.alone = others = {}]
                ELSE [req[q] EXCEPT !.alone = @ /\ q \notin others]]
  BY DEF Arrive
<1> DEFINE sid == SidOf(kind, offer, n)
           others == {q \in Request : ~At(q, "idle") /\ req[q].sid = sid}
           x == [Idle EXCEPT !.pc = IF policy.on THEN "enable" ELSE "disable",
                             !.kind = kind, !.sid = sid, !.alone = others = {}]
           y(q) == [req[q] EXCEPT !.alone = @ /\ q \notin others]
<1>2. /\ x.sid = sid /\ x.pc # "idle" /\ (x.alone => others = {})
  <2> HIDE DEF sid, others
  <2> QED
    BY DEF Idle
<1>3. req'[r] = x /\ \A q \in Request \ {r} : req'[q] = y(q)
  BY <1>1
<1> HIDE DEF x
<1>4. ASSUME NEW q \in Request \ {r}
      PROVE  /\ y(q).pc = req[q].pc /\ y(q).sid = req[q].sid
             /\ y(q).alone => req[q].alone /\ q \notin others
  <2> HIDE DEF others
  <2> QED
    BY <1>0 DEF RequestRecord
<1> HIDE DEF y
<1>5. \A m : sid = <<"previous", m>> => m = n \/ m = 0
  BY DEF SidOf, NoSession
<1>6. Known(sid)
  <2>1. n <= responses \/ n = 1
    BY <1>1
  <2> HIDE DEF sid
  <2> QED
    BY <1>5, <2>1 DEF Known
<1> HIDE DEF sid
<1>7. \A q \in Request : Known(req[q].sid)'
  BY <1>0, <1>2, <1>3, <1>4, <1>6 DEF Known, Named
<1>8. \A q \in Request : At(q, "idle")' => req'[q].sid = NoSession
  BY <1>2, <1>3, <1>4 DEF Apart, At
<1>9. ASSUME NEW p \in Request, NEW q \in Request, p # q, req'[p].alone, req'[p].sid # NoSession
      PROVE  req'[q].sid # req'[p].sid
  <2>1. CASE p = r
    BY <1>2, <1>3, <1>4, <1>9, <2>1 DEF Apart
  <2>2. CASE q = r
    <3>1. p \notin others /\ ~At(p, "idle")
      BY <1>3, <1>4, <1>9, <2>2 DEF Apart
    <3> QED
      BY <1>2, <1>3, <1>4, <1>9, <2>2, <3>1
  <2>3. CASE p # r /\ q # r
    BY <1>3, <1>4, <1>9, <2>3 DEF Apart
  <2> QED
    BY <2>1, <2>2, <2>3
<1> QED
  BY <1>7, <1>8, <1>9 DEF Apart

\* A request that goes on or is done is in no other session than before.
LEMMA ApartStep ==
  ASSUME RequestsTyped, Apart, Named, NEW r \in Request, Moves(r)
  PROVE  Apart' /\ \A q \in Request : Known(req[q].sid)'
<1>1. CASE Arrive(r)
  BY <1>1, ArriveApart
<1>2. CASE ~Arrive(r)
  <2>1. \/ /\ req[r].pc # "idle" /\ req'[r].pc # "idle"
           /\ req'[r].sid = req[r].sid /\ req'[r].alone = req[r].alone
        \/ req'[r].sid = NoSession
    BY <1>2 DEF Moves, Carries, Idle
  <2>2. \A q \in Request \ {r} : /\ req'[q].pc = req[q].pc /\ req'[q].sid = req[q].sid
                                 /\ req'[q].alone => req[q].alone
    BY DEF Moves, Kept
  <2>3. Apart'
    BY <2>1, <2>2 DEF Apart, At
  <2>4. responses \in Nat /\ responses' \in Nat /\ responses <= responses'
    BY OpensOne DEF Moves, RequestsTyped
  <2>5. ASSUME NEW q \in Request PROVE Known(req[q].sid)'
    <3>1. req'[q].sid = req[q].sid \/ req'[q].sid = NoSession
      BY <2>1, <2>2
    <3>2. ASSUME NEW n, req'[q].sid = <<"previous", n>> PROVE n <= responses' \/ n <= 1
      <4>1. req[q].sid = <<"previous", n>> /\ req[q].sid \in Session \cup {NoSession}
        BY <3>1, <3>2 DEF NoSession, RequestsTyped, RequestRecord
      <4>2. n \in Nat
        BY <4>1, SessionsAssumption DEF Session, NoSession
      <4> QED
        BY <2>4, <4>1, <4>2 DEF Named, Known
    <3> QED
      BY <3>2 DEF Known
  <2> QED
    BY <2>3, <2>5
<1> QED
  BY <1>1, <1>2

\* What has been owned stays so.
LEMMA OwnedStays ==
  ASSUME RequestsTyped, NEW r \in Request, Opens(r), NEW c, NEW s, Owned(c, s)
  PROVE  Owned(c, s)'
BY OpensOne DEF Owned

\* What a request takes is its session's, as long as no response is stored.
LEMMA ComesOwned ==
  ASSUME RequestsTyped, Unpublished, responses = 0, NEW r \in Request, Opens(r), NEW c, Comes(r, c),
         NEW s, s = req[r].sid
  PROVE  Owned(c, s)'
<1>1. CASE c = Len(owner) + 1 /\ owner' = Append(owner, req[r].sid)
  <2>1. Len(owner) \in Nat /\ Len(owner') = Len(owner) + 1 /\ owner'[Len(owner) + 1] = req[r].sid
    BY <1>1, OpensOne
  <2> QED
    BY <1>1, <2>1 DEF Owned
<1>2. CASE ~(c = Len(owner) + 1 /\ owner' = Append(owner, req[r].sid))
  <2>1. Owned(c, s)
    BY <1>2 DEF Comes, Owned, Unpublished
  <2> QED
    BY <2>1, OwnedStays
<1> QED
  BY <1>1, <1>2

\* Until a response is stored, a step leaves conversations in the session that opened them.
LEMMA UnpublishedStep ==
  ASSUME RequestsTyped, Unpublished, NEW r \in Request, Moves(r), responses' = 0
  PROVE  /\ \A s \in Session : \A c : HasConv(s, c)' => Owned(c, s)'
         /\ \A q \in Request : \A c : Holds(q, c)' => \A s : s = req'[q].sid => Owned(c, s)'
<1>1. responses = 0 /\ responses' # responses + 1 /\ Opens(r)
  BY OpensOne DEF Moves, RequestsTyped
<1>2. ASSUME NEW s \in Session, NEW c, HasConv(s, c)' PROVE Owned(c, s)'
  <2>1. c = 0 \/ HasConv(s, c) \/ (s = req[r].sid /\ Holds(r, c))
    BY <1>1, <1>2 DEF Moves, Hands
  <2>2. Owned(c, s)
    BY <1>1, <2>1 DEF Unpublished, Owned
  <2> QED
    BY <1>1, <2>2, OwnedStays
<1>3. ASSUME NEW q \in Request, NEW c, Holds(q, c)', NEW s, s = req'[q].sid PROVE Owned(c, s)'
  <2>1. CASE q # r
    <3>1. Holds(q, c) /\ s = req[q].sid
      BY <1>3, <2>1, KeptHolds DEF Moves, Kept
    <3>2. Owned(c, s)
      BY <1>1, <3>1 DEF Unpublished
    <3> QED
      BY <1>1, <3>2, OwnedStays
  <2>2. CASE q = r
    <3>1. c = 0 \/ (s = req[r].sid /\ Comes(r, c))
      BY <1>3, <2>2 DEF Moves, Carries
    <3>2. CASE c = 0
      BY <3>2 DEF Owned
    <3>3. CASE s = req[r].sid /\ Comes(r, c)
      BY <1>1, <3>3, ComesOwned
    <3> QED
      BY <3>1, <3>2, <3>3
  <2> QED
    BY <2>1, <2>2
<1> QED
  BY <1>2, <1>3

\* A conversation that was dropped from a session does not come back to it.
LEMMA ForgottenStep ==
  ASSUME RequestsTyped, ConvInv, NEW r \in Request, Moves(r), NEW p \in failed
  PROVE  /\ p \in Session \X Conv /\ p[2] \in 1..Len(owner')
         /\ ~HasConv(p[1], p[2])'
         /\ \A q \in Request : req'[q].sid = p[1] => ~Holds(q, p[2])'
<1>1. /\ p \in Session \X Conv /\ p[1] \in Session /\ p[2] \in 1..Len(owner)
      /\ ~HasConv(p[1], p[2])
      /\ \A q \in Request : req[q].sid = p[1] => ~Holds(q, p[2])
  BY DEF ConvInv, Forgotten
<1>2. Len(owner) \in Nat /\ Len(owner') \in Nat /\ Len(owner) <= Len(owner') /\ responses \in Nat
  BY OpensOne DEF Moves, RequestsTyped
<1>3. ~HasConv(p[1], p[2])'
  <2> SUFFICES ASSUME HasConv(p[1], p[2])' PROVE FALSE
    OBVIOUS
  <2>1. p[1] = <<"previous", responses + 1>> /\ Holds(r, p[2])
    BY <1>1 DEF Moves, Hands
  <2>2. responses + 1 <= responses \/ responses + 1 <= 1
    BY <2>1 DEF ConvInv, Named, Known
  <2>3. responses = 0
    BY <1>2, <2>2
  <2>4. Owned(p[2], p[1]) /\ Owned(p[2], req[r].sid)
    BY <2>1, <2>3 DEF ConvInv, Unpublished
  <2>5. req[r].sid = p[1]
    BY <1>1, <2>4 DEF Owned
  <2> QED
    BY <1>1, <2>1, <2>5
<1>4. ASSUME NEW q \in Request, req'[q].sid = p[1] PROVE ~Holds(q, p[2])'
  <2>1. CASE q # r
    BY <1>1, <1>4, <2>1, KeptHolds DEF Moves, Kept
  <2>2. CASE q = r
    <3> SUFFICES ASSUME Holds(r, p[2])' PROVE FALSE
      BY <2>2
    <3>1. req[r].sid = p[1] /\ Comes(r, p[2])
      BY <1>1, <1>4, <2>2 DEF Moves, Carries
    <3> QED
      BY <1>1, <1>2, <3>1 DEF Comes
  <2> QED
    BY <2>1, <2>2
<1> QED
  BY <1>1, <1>2, <1>3, <1>4

\* A conversation is dropped for good with its session, of a request that is alone in it and forgets it.
LEMMA FailedGrows ==
  ASSUME IInv, NEW r \in Request, Step(r)
  PROVE  \/ failed' = failed
         \/ /\ req[r].sid \in Session /\ req[r].sid # NoSession /\ req[r].alone
            /\ DeleteSession(req[r].sid) /\ req[r].sid \notin lagging'
            /\ req'[r].conv = 0 /\ req'[r].snap = Empty /\ req'[r].final = 0
            /\ \A q \in Request \ {r} : req'[q].sid = req[q].sid
            /\ responses' = responses /\ owner' = owner
            /\ \E c \in Conv : c # 0 /\ Holds(r, c) /\ failed' = failed \cup {<<req[r].sid, c>>}
<1>0. /\ RequestsTyped /\ req[r] \in RequestRecord /\ req[r].conv \in Conv /\ req[r].final \in Conv
      /\ req[r].sid \in Session \cup {NoSession}
  BY DEF IInv, RequestsTyped, RequestRecord
<1>a. ASSUME NEW c \in Conv, failed' = failed \cup Dropped(r, c), failed' # failed
      PROVE  /\ req[r].alone /\ req[r].sid \notin lagging' /\ req[r].sid # NoSession /\ c # 0
             /\ failed' = failed \cup {<<req[r].sid, c>>}
  BY <1>a DEF Dropped
<1>1. CASE Drop(r)
  <2>1. /\ DeleteSession(req[r].sid) /\ failed' = failed \cup Dropped(r, req[r].final) /\ Done(r)
        /\ responses' = responses /\ owner' = owner
    BY <1>1 DEF Drop
  <2>2. /\ req'[r].conv = 0 /\ req'[r].snap = Empty /\ req'[r].final = 0
        /\ \A q \in Request \ {r} : req'[q].sid = req[q].sid
    BY <1>0, <2>1 DEF Done, Idle, RequestsTyped
  <2>3. Holds(r, req[r].final)
    BY DEF Holds
  <2> QED
    BY <1>0, <1>a, <2>1, <2>2, <2>3
<1>2. CASE AskAgain(r)
  <2> DEFINE x == [Bare(r, "call") EXCEPT !.asked = TRUE]
  <2>1. /\ req[r].sid # NoSession => DeleteSession(req[r].sid)
        /\ failed' = failed \cup Dropped(r, req[r].conv) /\ req' = [req EXCEPT ![r] = x]
        /\ responses' = responses /\ owner' = owner
    BY <1>2, Zenon DEF AskAgain
  <2>2. x.conv = 0 /\ x.snap = Empty /\ x.final = 0
    BY <1>0, Asking
  <2> HIDE DEF x
  <2>3. /\ req'[r].conv = 0 /\ req'[r].snap = Empty /\ req'[r].final = 0
        /\ \A q \in Request \ {r} : req'[q].sid = req[q].sid
    BY <1>0, <2>1, <2>2 DEF RequestsTyped
  <2>4. Holds(r, req[r].conv)
    BY DEF Holds
  <2> QED
    BY <1>0, <1>a, <2>1, <2>3, <2>4
<1>3. CASE ~Drop(r) /\ ~AskAgain(r)
  BY <1>3 DEF Step, Arrive, SetEnabled, LookUp, Upload, ReadTurn, CountTurn, Send, Fail, AnswerNothing,
     CutShort, Answer, Continue, Repair, Repaired, ReadToAdopt, Adopt, Publish, Finish, counts
<1> QED
  BY <1>1, <1>2, <1>3

\* Every step of a request keeps the invariant of the conversations.
LEMMA StepConv ==
  ASSUME IInv, ConvInv, NEW r \in Request, Step(r)
  PROVE  ConvInv'
<1>1. RequestsTyped /\ CacheTyped /\ Moves(r) /\ Opens(r) /\ responses \in Nat
  BY StepMoves DEF IInv, Moves, RequestsTyped
<1>2. Opened' /\ Apart' /\ \A q \in Request : Known(req[q].sid)'
  BY <1>1, OpenedStep, ApartStep DEF ConvInv
<1>3. CASE failed' = failed
  <2>1. Forgotten'
    BY <1>1, <1>3, ForgottenStep DEF Forgotten
  <2>2. Named'
    <3>1. responses' \in Nat /\ responses <= responses'
      BY <1>1, OpensOne
    <3>2. ASSUME NEW p \in failed, NEW n, p[1] = <<"previous", n>> PROVE n <= responses' \/ n <= 1
      <4>1. n \in Nat
        BY <3>2, SessionsAssumption DEF Session, ConvInv, Forgotten
      <4> QED
        BY <1>1, <3>1, <3>2, <4>1 DEF ConvInv, Named, Known
    <3> QED
      BY <1>2, <1>3, <3>2 DEF Named, Known
  <2>3. Unpublished'
    <3> SUFFICES ASSUME responses' = 0 PROVE Unpublished'
      BY DEF Unpublished
    <3>1. /\ \A s \in Session : \A c : HasConv(s, c)' => Owned(c, s)'
          /\ \A q \in Request : \A c : Holds(q, c)' => \A s : s = req'[q].sid => Owned(c, s)'
      BY <1>1, UnpublishedStep DEF ConvInv
    <3>2. responses = 0
      BY <1>1, OpensOne
    <3>3. \A p \in failed : Owned(p[2], p[1])'
      BY <1>1, <3>2, OwnedStays DEF ConvInv, Unpublished
    <3> QED
      BY <1>3, <3>1, <3>3 DEF Unpublished, Owned
  <2> QED
    BY <1>2, <2>1, <2>2, <2>3 DEF ConvInv
<1>4. CASE failed' # failed
  <2>1. /\ req[r].sid \in Session /\ req[r].sid # NoSession /\ req[r].alone
        /\ DeleteSession(req[r].sid) /\ req[r].sid \notin lagging'
        /\ req'[r].conv = 0 /\ req'[r].snap = Empty /\ req'[r].final = 0
        /\ \A q \in Request \ {r} : req'[q].sid = req[q].sid
        /\ responses' = responses /\ owner' = owner
        /\ \E c \in Conv : c # 0 /\ Holds(r, c) /\ failed' = failed \cup {<<req[r].sid, c>>}
    BY <1>4, FailedGrows
  <2>2. PICK s \in Session, c \in Conv :
          s = req[r].sid /\ c # 0 /\ Holds(r, c) /\ failed' = failed \cup {<<s, c>>}
    BY <2>1
  <2>3. Holds(r, c) /\ c \in 1..Len(owner)
    BY <1>1, <2>2, OpensOne DEF ConvInv, Opened
  <2>4. ~HasConv(s, c)'
    <3>1. \A x : InCache(s, x)' => x = Empty
      BY <1>1, <2>1, <2>2, DeleteCached
    <3> QED
      BY <2>1, <2>2, <3>1 DEF HasConv, Empty
  <2>5. \A q \in Request : req'[q].sid = s => ~Holds(q, c)'
    <3>1. \A q \in Request \ {r} : req'[q].sid # s
      BY <2>1, <2>2 DEF ConvInv, Apart
    <3>2. ~Holds(r, c)'
      BY <2>1, <2>2 DEF Holds, Empty
    <3> QED
      BY <3>1, <3>2
  <2> DEFINE new == <<s, c>>
  <2>6. failed' = failed \cup {new}
    BY <2>1, <2>2
  <2>7. Forgotten'
    <3>1. /\ new \in Session \X Conv /\ new[2] \in 1..Len(owner') /\ ~HasConv(new[1], new[2])'
          /\ \A q \in Request : req'[q].sid = new[1] => ~Holds(q, new[2])'
      BY <2>1, <2>3, <2>4, <2>5
    <3> HIDE DEF new
    <3>2. \A p \in failed : /\ p \in Session \X Conv /\ p[2] \in 1..Len(owner')
                             /\ ~HasConv(p[1], p[2])'
                             /\ \A q \in Request : req'[q].sid = p[1] => ~Holds(q, p[2])'
      BY <1>1, ForgottenStep
    <3> QED
      BY <2>6, <3>1, <3>2 DEF Forgotten
  <2>8. Named'
    BY <1>2, <2>1, <2>2, <2>6 DEF ConvInv, Named, Known
  <2>9. Unpublished'
    <3> SUFFICES ASSUME responses' = 0 PROVE Unpublished'
      BY DEF Unpublished
    <3>1. /\ \A x \in Session : \A d : HasConv(x, d)' => Owned(d, x)'
          /\ \A q \in Request : \A d : Holds(q, d)' => \A x : x = req'[q].sid => Owned(d, x)'
      BY <1>1, UnpublishedStep DEF ConvInv
    <3>2. \A p \in failed \cup {new} : Owned(p[2], p[1])
      BY <2>1, <2>2, <2>3 DEF ConvInv, Unpublished
    <3> HIDE DEF new
    <3> QED
      BY <2>1, <2>6, <3>1, <3>2 DEF Unpublished, Owned
  <2> QED
    BY <1>2, <2>7, <2>8, <2>9 DEF ConvInv
<1> QED
  BY <1>3, <1>4

\* So does every other step.
LEMMA NextConv ==
  ASSUME IInv, ConvInv, [Next]_vars
  PROVE  ConvInv'
<1>1. CASE ChangePolicy \/ UNCHANGED vars
  <2>1. /\ mem' = mem /\ disk' = disk /\ req' = req /\ owner' = owner /\ responses' = responses
        /\ failed' = failed
    BY <1>1 DEF ChangePolicy, cache, vars
  <2> QED
    BY <2>1 DEF ConvInv, Opened, Apart, At, Named, Known, Unpublished, Owned, Forgotten, HasConv, Holds,
       InCache
<1>2. CASE Crash
  <2>1. /\ mem' = [s \in {} |-> Empty] /\ disk' = disk /\ owner' = owner /\ responses' = responses
        /\ failed' = failed /\ req' = [r \in Request |-> Idle]
    BY <1>2 DEF Crash, counts
  <2>2. \A s, c : HasConv(s, c)' => HasConv(s, c)
    BY <2>1 DEF HasConv, InCache
  <2>3. \A r \in Request : req'[r].sid = NoSession /\ \A c : Holds(r, c)' => c = 0
    BY <2>1 DEF Holds, Idle, Empty
  <2>4. Opened'
    <3>1. Len(owner) \in Nat
      BY DEF IInv, RequestsTyped
    <3> QED
      BY <2>1, <2>2, <2>3, <3>1 DEF ConvInv, Opened
  <2>5. Apart'
    BY <2>3 DEF Apart
  <2>6. Named'
    BY <2>1, <2>3 DEF ConvInv, Named, Known, NoSession
  <2>7. Unpublished'
    BY <2>1, <2>2, <2>3 DEF ConvInv, Unpublished, Owned
  <2>8. Forgotten'
    BY <2>1, <2>2, <2>3 DEF ConvInv, Forgotten
  <2> QED
    BY <2>4, <2>5, <2>6, <2>7, <2>8 DEF ConvInv
<1>3. CASE \E r \in Request : Step(r)
  BY <1>3, StepConv
<1> QED
  BY <1>1, <1>2, <1>3 DEF Next

\* In the beginning there is no conversation.
LEMMA InitConv == Init => ConvInv
<1> SUFFICES ASSUME Init PROVE ConvInv
  OBVIOUS
<1>1. /\ mem = [s \in {} |-> Empty] /\ disk = [s \in Session |-> Empty] /\ failed = {}
      /\ req = [r \in Request |-> Idle] /\ owner = <<>>
  BY DEF Init
<1>2. \A s \in Session : \A c : HasConv(s, c) => c = 0
  BY <1>1 DEF HasConv, InCache, Empty
<1>3. \A r \in Request : /\ req[r].sid = NoSession
                         /\ \A c : Holds(r, c) => c = 0
  BY <1>1 DEF Holds, Idle, Empty
<1>4. Len(owner) \in Nat
  BY <1>1
<1> QED
  BY <1>1, <1>2, <1>3, <1>4 DEF ConvInv, Opened, Apart, Named, Known, Unpublished, Owned, Forgotten, NoSession

\* The invariant that the files, the memory and the requests keep together.
LEMMA Invariant == Spec => []IInv
<1>1. IInv /\ [Next]_vars => IInv'
  BY StepTyped, StepRefines DEF IInv
<1> QED
  BY InitRefines, <1>1, PTL DEF Spec

\* A conversation that was dropped because its turn failed, came back empty or had to be asked again is
\* never continued in its session, however many requests there are and whatever becomes of memory and of files.
THEOREM DropsAreFinal == Spec => []DroppedForGood
<1>1. ConvInv => DroppedForGood
  <2> SUFFICES ASSUME ConvInv, NEW r \in Request PROVE <<req[r].sid, req[r].conv>> \notin failed
    BY DEF DroppedForGood
  <2> QED
    BY DEF ConvInv, Forgotten, Holds
<1>2. IInv /\ ConvInv /\ [Next]_vars => ConvInv'
  BY NextConv
<1> QED
  BY Invariant, InitConv, <1>1, <1>2, PTL DEF Spec

-----------------------------------------------------------------------------
(* Client session ids, and the first turns sent with them. *)

\* A session with a client session id has started.
Started(st) == st.client \in 0..Len(begun) /\ (st.client # 0 => st.started)

Clients ==
  /\ \A s \in Session : \A st \in State : InCache(s, st) => Started(st)
  /\ \A r \in Request : Started(req[r].snap) /\ req[r].client \in 0..Len(begun)

\* Who takes no turn has no client session id.
Responding == {"responses", "responsesStream"}
Turnless ==
  \A r \in Request :
    /\ (req[r].pc \in {"enable", "disable", "lookup"} \/ req[r].kind \in Responding) => req[r].client = 0
    /\ req[r].pc = "turn" => req[r].kind \in CountsTurns

\* A request that is to say that it starts a session has minted its client session id, and nobody has
\* said so before.
Minted ==
  /\ \A r, q \in Request :
       (r # q /\ req[r].start /\ req[q].start /\ req[r].client # 0) => req[q].client # req[r].client
  /\ \A r \in Request :
       (/\ req[r].pc \in {"count", "call"} /\ req[r].client # 0 /\ req[r].start
        /\ req[r].kind # "toolLoop") => TRUE \notin begun[req[r].client]

\* The inductive invariant of the client session ids.
ClientInv == Clients /\ Turnless /\ Minted

\* The states that a session may come to have in a step of a request.
Stores(r) ==
  \A s \in Session : \A x \in State : InCache(s, x)' =>
    \/ InCache(s, x) \/ x.client = 0
    \/ x.client = req[r].client /\ x.started
    \/ x.client = req[r].snap.client /\ x.started = req[r].snap.started

\* A request comes, goes or forgets its turn, ...
ComesOrGoes(r) ==
  /\ req'[r].client = 0 /\ ~req'[r].start /\ req'[r].snap = Empty
  /\ req'[r].pc \notin {"turn", "count"}
  /\ begun' = begun

\* ... goes on with its client session id, ...
GoesOn(r) ==
  /\ req'[r].kind = req[r].kind /\ req'[r].client = req[r].client /\ req'[r].start = req[r].start
  /\ req'[r].snap \in {req[r].snap, Got(req[r].sid)}
  /\ req'[r].pc = "turn" => req[r].pc = "turn" \/ req[r].kind \in CountsTurns
  /\ req'[r].pc \in {"count", "call"} =>
       req[r].pc \in {"count", "call", "lookup"} \/ req[r].kind \in Responding \cup {"toolLoop"}
  /\ req'[r].pc \in {"enable", "disable", "lookup"} => req[r].pc \in {"enable", "disable"}
  /\ begun' = begun

\* ... takes the one of its session, or a new one, ...
TakesTurn(r) ==
  /\ req[r].pc = "turn" /\ req'[r].pc = "count" /\ req'[r].kind = req[r].kind
  /\ req'[r].snap = Got(req[r].sid) /\ req'[r].start = ~req'[r].snap.started
  /\ \/ req'[r].client = req'[r].snap.client /\ req'[r].client # 0 /\ begun' = begun
     \/ req'[r].client = Len(begun) + 1 /\ begun' = Append(begun, {})

\* ... or sends its turn.
Sends(r) ==
  /\ req[r].pc = "call" /\ req'[r].pc = "sent" /\ req'[r].kind = req[r].kind
  /\ req'[r].client = req[r].client /\ req'[r].start = req[r].start /\ req'[r].snap = req[r].snap
  /\ begun' = IF req[r].client = 0 THEN begun ELSE [begun EXCEPT ![req[r].client] = @ \cup {req[r].start}]

\* A session keeps its states when nothing is stored.
LEMMA StoresNothing ==
  ASSUME NEW r, mem' = mem, disk' = disk
  PROVE  Stores(r)
BY DEF Stores, InCache

LEMMA StoresRead ==
  ASSUME CacheTyped, NEW r, NEW s \in Session \cup {NoSession}, GetSession(s)
  PROVE  Stores(r)
BY GetCached DEF Stores

LEMMA StoresDeleted ==
  ASSUME CacheTyped, NEW r, NEW s \in Session, DeleteSession(s)
  PROVE  Stores(r)
BY DeleteCached DEF Stores, Empty

LEMMA StoresSet ==
  ASSUME CacheTyped, NEW r, NEW s \in Session, NEW st \in State, SetSession(s, st),
         \/ st.client = 0
         \/ st.client = req[r].client /\ st.started
         \/ st.client = req[r].snap.client /\ st.started = req[r].snap.started
  PROVE  Stores(r)
BY SetCached DEF Stores, Empty

\* What a step of a request does to client session ids.
LEMMA StepClients ==
  ASSUME IInv, NEW r \in Request, Step(r)
  PROVE  Stores(r) /\ (ComesOrGoes(r) \/ GoesOn(r) \/ TakesTurn(r) \/ Sends(r))
<1> DEFINE Changes == ComesOrGoes(r) \/ GoesOn(r) \/ TakesTurn(r) \/ Sends(r)
<1>0. /\ RequestsTyped /\ Sited /\ CacheTyped /\ req \in [Request -> RequestRecord]
      /\ req[r] \in RequestRecord
      /\ req[r].sid \in Session \cup {NoSession} /\ req[r].snap \in State /\ Got(req[r].sid) \in State
  BY GotIsState DEF IInv, RequestsTyped, RequestRecord
<1>a. ASSUME Done(r), begun' = begun PROVE ComesOrGoes(r)
  BY <1>0, <1>a DEF Done, ComesOrGoes, Idle
<1>b. ASSUME NEW pc, Goto(r, pc)
      PROVE  /\ req'[r].pc = pc /\ req'[r].kind = req[r].kind /\ req'[r].client = req[r].client
             /\ req'[r].start = req[r].start /\ req'[r].snap = req[r].snap
  BY <1>0, <1>b DEF Goto, RequestRecord
<1>1. CASE Arrive(r)
  <2>1. begun' = begun /\ mem' = mem /\ disk' = disk
    BY <1>1 DEF Arrive, cache
  <2>2. req'[r].snap = Empty
    BY <1>1 DEF Arrive, Idle
  <2> QED
    BY <1>0, <1>1, <2>1, <2>2, ArriveCarries, StoresNothing DEF ComesOrGoes
<1>2. CASE SetEnabled(r)
  <2>1. /\ begun' = begun /\ mem' = mem /\ disk' = disk
        /\ Goto(r, "lookup") /\ req[r].pc \in {"enable", "disable"}
    BY <1>2 DEF SetEnabled, counts
  <2> QED
    BY <1>b, <2>1, StoresNothing DEF GoesOn
<1>3. CASE Send(r)
  <2>1. mem' = mem /\ disk' = disk /\ Goto(r, "sent") /\ req[r].pc = "call"
    BY <1>3 DEF Send, cache, At
  <2> QED
    BY <1>3, <1>b, <2>1, StoresNothing DEF Send, Sends
<1>4. CASE CutShort(r) \/ Repaired(r) \/ Finish(r)
  <2>1. begun' = begun /\ mem' = mem /\ disk' = disk
    BY <1>4 DEF CutShort, Repaired, Finish, cache, counts
  <2>2. Done(r) \/ Goto(r, "drop") \/ Goto(r, "adopt")
    BY <1>4 DEF CutShort, Repaired, Finish
  <2> QED
    BY <1>a, <1>b, <2>1, <2>2, StoresNothing DEF GoesOn
<1>5. CASE LookUp(r)
  <2>1. Stores(r) /\ begun' = begun /\ req[r].pc = "lookup"
    BY <1>0, <1>5, StoresRead DEF LookUp, counts, At
  <2>2. /\ req'[r].pc = AfterLookup(r) /\ req'[r].kind = req[r].kind /\ req'[r].client = req[r].client
        /\ req'[r].start = req[r].start /\ req'[r].snap = Got(req[r].sid)
    BY <1>0, <1>5 DEF LookUp, RequestRecord
  <2> QED
    BY <2>1, <2>2 DEF GoesOn, AfterLookup
<1>6. CASE Upload(r)
  <2>1. begun' = begun /\ mem' = mem /\ disk' = disk /\ req[r].pc \in {"turn", "call"}
    BY <1>6 DEF Upload, cache
  <2>2. CASE Done(r)
    BY <1>a, <2>1, <2>2, StoresNothing
  <2>3. CASE req' = [req EXCEPT ![r].conv = Len(owner) + 1]
    <3>1. /\ req'[r].pc = req[r].pc /\ req'[r].kind = req[r].kind /\ req'[r].client = req[r].client
          /\ req'[r].start = req[r].start /\ req'[r].snap = req[r].snap
      BY <1>0, <2>3 DEF RequestRecord
    <3> QED
      BY <2>1, <3>1, StoresNothing DEF GoesOn
  <2> QED
    BY <1>6, <2>2, <2>3 DEF Upload
<1>7. CASE ReadTurn(r)
  <2> DEFINE got == Got(req[r].sid)
  <2>1. Stores(r) /\ req[r].pc = "turn"
    BY <1>0, <1>7, StoresRead DEF ReadTurn, At
  <2>2. /\ req' = [req EXCEPT ![r].pc = "count", ![r].snap = got, ![r].start = ~got.started,
                              ![r].client = IF got.client = 0 THEN Len(begun) + 1 ELSE got.client]
        /\ begun' = IF got.client = 0 THEN Append(begun, {}) ELSE begun
    BY <1>7 DEF ReadTurn
  <2> HIDE DEF got
  <2>3. /\ req'[r].pc = "count" /\ req'[r].kind = req[r].kind /\ req'[r].snap = got
        /\ req'[r].start = ~got.started
        /\ req'[r].client = IF got.client = 0 THEN Len(begun) + 1 ELSE got.client
    BY <1>0, <2>2 DEF RequestRecord
  <2> QED
    BY <2>1, <2>2, <2>3 DEF TakesTurn, got
<1>8. CASE CountTurn(r)
  <2> DEFINE st == [conv |-> req[r].snap.conv, client |-> req[r].client, started |-> TRUE]
  <2>1. st \in State /\ st.client = req[r].client /\ st.started /\ req[r].sid \in Session
        /\ req[r].pc = "count"
    BY <1>0, <1>8 DEF State, RequestRecord, CountTurn, At, Sited
  <2>2. SetSession(req[r].sid, st) /\ begun' = begun /\ (Goto(r, "call") \/ Goto(r, "adopt"))
    BY <1>8 DEF CountTurn, counts
  <2> HIDE DEF st
  <2>3. Stores(r)
    BY <1>0, <2>1, <2>2, StoresSet
  <2> QED
    BY <1>b, <2>1, <2>2, <2>3 DEF GoesOn
<1>9. CASE Fail(r) \/ AnswerNothing(r)
  <2>1. begun' = begun /\ mem' = mem /\ disk' = disk
    BY <1>9 DEF Fail, AnswerNothing, cache, counts
  <2>2. CASE Done(r)
    BY <1>a, <2>1, <2>2, StoresNothing
  <2>3. CASE ~Done(r)
    <3> DEFINE x == [Bare(r, "drop") EXCEPT !.final = req[r].conv]
    <3>1. req' = [req EXCEPT ![r] = x]
      BY <1>9, <2>3 DEF Fail, AnswerNothing, DropOrEnd
    <3>2. x.pc = "drop" /\ x.client = 0 /\ ~x.start /\ x.snap = Empty
      BY <1>0, Dropping
    <3> HIDE DEF x
    <3> QED
      BY <1>0, <2>1, <3>1, <3>2, StoresNothing DEF ComesOrGoes
  <2> QED
    BY <2>2, <2>3
<1>10. CASE AskAgain(r)
  <2> DEFINE x == [Bare(r, "call") EXCEPT !.asked = TRUE]
  <2>1. req' = [req EXCEPT ![r] = x]
    BY <1>10, Zenon DEF AskAgain
  <2>2. x.pc = "call" /\ x.client = 0 /\ ~x.start /\ x.snap = Empty
    BY <1>0, Asking
  <2> HIDE DEF x
  <2>3. Stores(r)
    <3>1. CASE req[r].sid = NoSession
      BY <1>10, <3>1, StoresNothing DEF AskAgain
    <3>2. CASE req[r].sid # NoSession
      BY <1>0, <1>10, <3>2, StoresDeleted DEF AskAgain
    <3> QED
      BY <3>1, <3>2
  <2>4. begun' = begun
    BY <1>10 DEF AskAgain
  <2> QED
    BY <1>0, <2>1, <2>2, <2>3, <2>4 DEF ComesOrGoes
<1>11. CASE Answer(r)
  <2>1. PICK c : req' = [req EXCEPT ![r].pc = AfterAnswer(r), ![r].final = c]
    BY <1>11 DEF Answer
  <2>2. /\ req'[r].pc = AfterAnswer(r) /\ req'[r].kind = req[r].kind /\ req'[r].client = req[r].client
        /\ req'[r].start = req[r].start /\ req'[r].snap = req[r].snap
    BY <1>0, <2>1 DEF RequestRecord
  <2>3. begun' = begun /\ mem' = mem /\ disk' = disk
    BY <1>11 DEF Answer, cache
  <2> QED
    BY <2>2, <2>3, StoresNothing DEF GoesOn, AfterAnswer
<1>12. CASE Publish(r)
  <2>1. <<"previous", responses + 1>> \in Session
    <3>1. responses + 1 \in 1..MaxTurns
      BY <1>0, <1>12, SessionsAssumption DEF Publish, RequestsTyped
    <3> QED
      BY <3>1 DEF Session
  <2> DEFINE st == [Empty EXCEPT !.conv = req[r].final]
  <2>2. st \in State /\ st.client = 0
    BY <1>0, EmptyIsState DEF State, Empty, RequestRecord
  <2>3. SetSession(<<"previous", responses + 1>>, st) /\ begun' = begun
    BY <1>12 DEF Publish
  <2> HIDE DEF st
  <2>4. Stores(r)
    BY <1>0, <2>1, <2>2, <2>3, StoresSet
  <2>5. Done(r) \/ Goto(r, "adopt")
    BY <1>12 DEF Publish
  <2> QED
    BY <1>a, <1>b, <2>3, <2>4, <2>5 DEF GoesOn
<1>13. CASE Continue(r)
  <2>1. begun' = begun /\ mem' = mem /\ disk' = disk /\ req[r].kind = "toolLoop"
    BY <1>13 DEF Continue, cache, counts
  <2>2. /\ req'[r].pc = "call" /\ req'[r].kind = req[r].kind /\ req'[r].client = req[r].client
        /\ req'[r].start = req[r].start /\ req'[r].snap = req[r].snap
    BY <1>0, <1>13 DEF Continue, RequestRecord
  <2> QED
    BY <2>1, <2>2, StoresNothing DEF GoesOn
<1>14. CASE Repair(r)
  <2>1. begun' = begun /\ mem' = mem /\ disk' = disk /\ req[r].kind \in CountsTurns
    BY <1>14 DEF Repair, cache, counts, Tooled, CountsTurns
  <2>2. /\ req'[r].pc = "turn" /\ req'[r].kind = req[r].kind /\ req'[r].client = req[r].client
        /\ req'[r].start = req[r].start /\ req'[r].snap = req[r].snap
    BY <1>0, <1>14 DEF Repair, RequestRecord
  <2> QED
    BY <2>1, <2>2, StoresNothing DEF GoesOn
<1>15. CASE ReadToAdopt(r)
  <2>1. PICK pc \in {"store", "end"} : req' = [req EXCEPT ![r].snap = Got(req[r].sid), ![r].pc = pc]
    BY <1>15 DEF ReadToAdopt
  <2>2. /\ req'[r].pc = pc /\ req'[r].kind = req[r].kind /\ req'[r].client = req[r].client
        /\ req'[r].start = req[r].start /\ req'[r].snap = Got(req[r].sid)
    BY <1>0, <2>1 DEF RequestRecord
  <2>3. Stores(r) /\ begun' = begun
    BY <1>0, <1>15, StoresRead DEF ReadToAdopt, counts
  <2> QED
    BY <2>2, <2>3 DEF GoesOn
<1>16. CASE Adopt(r)
  <2> DEFINE st == [req[r].snap EXCEPT !.conv = req[r].final]
  <2>1. st \in State /\ st.client = req[r].snap.client /\ st.started = req[r].snap.started
    BY <1>0 DEF State, RequestRecord
  <2>2. SetSession(req[r].sid, st) /\ begun' = begun /\ Done(r) /\ req[r].sid \in Session
    BY <1>0, <1>16 DEF Adopt, At, Sited, counts
  <2> HIDE DEF st
  <2> QED
    BY <1>0, <1>a, <2>1, <2>2, StoresSet
<1>17. CASE Drop(r)
  <2>1. DeleteSession(req[r].sid) /\ begun' = begun /\ Done(r) /\ req[r].sid \in Session
    BY <1>0, <1>17 DEF Drop, At, Sited
  <2> QED
    BY <1>0, <1>a, <2>1, StoresDeleted
<1> QED
  BY <1>1, <1>2, <1>3, <1>4, <1>5, <1>6, <1>7, <1>8, <1>9, <1>10, <1>11, <1>12, <1>13, <1>14, <1>15,
     <1>16, <1>17 DEF Step

\* The history of a client session id that is noted grows by what is said, and no other.
LEMMA BegunGrows ==
  ASSUME begun \in Seq(SUBSET BOOLEAN), NEW i \in 1..Len(begun), NEW b \in BOOLEAN,
         begun' = [begun EXCEPT ![i] = @ \cup {b}]
  PROVE  /\ begun' \in Seq(SUBSET BOOLEAN) /\ Len(begun') = Len(begun) /\ begun'[i] = begun[i] \cup {b}
         /\ \A j \in (1..Len(begun)) \ {i} : begun'[j] = begun[j]
<1>1. begun[i] \cup {b} \in SUBSET BOOLEAN
  OBVIOUS
<1> QED
  BY <1>1, ExceptSeq

\* Histories are added at the end.
LEMMA BegunAppended ==
  ASSUME begun \in Seq(SUBSET BOOLEAN), begun' = Append(begun, {})
  PROVE  /\ begun' \in Seq(SUBSET BOOLEAN) /\ Len(begun') = Len(begun) + 1
         /\ begun'[Len(begun) + 1] = {} /\ \A j \in 1..Len(begun) : begun'[j] = begun[j]
BY AppendProperties

\* Every step of a request keeps the invariant of the client session ids.
LEMMA StepClientInv ==
  ASSUME IInv, IInv', ClientInv, NEW r \in Request, Step(r)
  PROVE  ClientInv'
<1>0. /\ begun \in Seq(SUBSET BOOLEAN) /\ Len(begun) \in Nat
      /\ req \in [Request -> RequestRecord] /\ req' \in [Request -> RequestRecord] /\ CacheTyped
      /\ \A q \in Request : req[q].start \in BOOLEAN /\ req'[q].start \in BOOLEAN
                            /\ req[q].snap \in State
      /\ req[r].sid \in Session \cup {NoSession}
  BY DEF IInv, RequestsTyped, RequestRecord
<1>1. Stores(r) /\ (ComesOrGoes(r) \/ GoesOn(r) \/ TakesTurn(r) \/ Sends(r))
  BY StepClients
<1>2. \A q \in Request \ {r} : Kept(q)
  BY StepMoves DEF Moves
<1>3. Started(Got(req[r].sid))
  <2>1. Started(Empty)
    BY <1>0 DEF Started, Empty
  <2>2. Got(req[r].sid) \in State
    BY <1>0, GotIsState
  <2> QED
    BY <1>0, <2>1, <2>2, GotCached DEF ClientInv, Clients
<1>4. /\ Len(begun') \in Nat /\ Len(begun) <= Len(begun')
      /\ Sends(r) => \A i \in 1..Len(begun) : i # req[r].client => begun'[i] = begun[i]
      /\ ~Sends(r) => \A i \in 1..Len(begun) : begun'[i] = begun[i]
      /\ ~Sends(r) /\ ~TakesTurn(r) => begun' = begun
  <2>1. CASE begun' = begun
    BY <1>0, <2>1
  <2>2. CASE TakesTurn(r) /\ begun' = Append(begun, {})
    BY <1>0, <2>2, BegunAppended DEF Sends, TakesTurn
  <2>3. CASE Sends(r) /\ req[r].client # 0
    <3>1. req[r].client \in 1..Len(begun)
      BY <1>0, <2>3 DEF ClientInv, Clients
    <3> QED
      BY <1>0, <2>3, <3>1, BegunGrows DEF Sends
  <2>4. CASE Sends(r) /\ req[r].client = 0
    BY <2>1, <2>4 DEF Sends
  <2> QED
    BY <1>1, <2>1, <2>2, <2>3, <2>4 DEF ComesOrGoes, GoesOn, TakesTurn
<1>5. \A st \in State : Started(st) => Started(st)'
  BY <1>0, <1>4 DEF Started
<1>6. Clients'
  <2>1. ASSUME NEW s \in Session, NEW x \in State, InCache(s, x)' PROVE Started(x)'
    <3>1. Started(x)
      BY <1>0, <1>1, <2>1 DEF Stores, ClientInv, Clients, Started
    <3> QED
      BY <1>5, <3>1
  <2>2. ASSUME NEW q \in Request, NEW x \in State, x = req'[q].snap PROVE Started(x)'
    <3>1. x = Empty \/ x = req[q].snap \/ (q = r /\ x = Got(req[r].sid))
      BY <1>1, <1>2, <2>2 DEF Kept, ComesOrGoes, GoesOn, TakesTurn, Sends
    <3>2. Started(x)
      BY <1>0, <1>3, <3>1 DEF ClientInv, Clients, Started, Empty
    <3> QED
      BY <1>5, <3>2
  <2>3. ASSUME NEW q \in Request PROVE req'[q].client \in 0..Len(begun')
    <3>1. CASE req'[q].client = req[q].client
      BY <1>0, <1>4, <3>1 DEF ClientInv, Clients
    <3>2. CASE q = r /\ TakesTurn(r)
      <4>1. req'[r].client = Len(begun) + 1 /\ begun' = Append(begun, {}) =>
              req'[r].client \in 0..Len(begun')
        BY <1>0, BegunAppended
      <4>2. req'[r].snap.client \in 0..Len(begun)
        BY <1>3, <3>2 DEF TakesTurn, Started
      <4> QED
        BY <1>0, <1>4, <3>2, <4>1, <4>2 DEF TakesTurn
    <3>3. CASE q = r /\ ComesOrGoes(r)
      BY <1>4, <3>3 DEF ComesOrGoes
    <3> QED
      BY <1>1, <1>2, <3>1, <3>2, <3>3 DEF Kept, GoesOn, Sends
  <2>4. \A q \in Request : req'[q].snap \in State
    BY <1>0 DEF RequestRecord
  <2> QED
    BY <2>1, <2>2, <2>3, <2>4 DEF Clients, Started
<1>7. Turnless'
  <2>1. ASSUME NEW q \in Request, q # r
        PROVE  /\ (req'[q].pc \in {"enable", "disable", "lookup"} \/ req'[q].kind \in Responding)
                    => req'[q].client = 0
               /\ req'[q].pc = "turn" => req'[q].kind \in CountsTurns
    BY <1>2, <2>1 DEF Kept, ClientInv, Turnless
  <2>2. /\ (req'[r].pc \in {"enable", "disable", "lookup"} \/ req'[r].kind \in Responding)
             => req'[r].client = 0
        /\ req'[r].pc = "turn" => req'[r].kind \in CountsTurns
    <3>1. CASE ComesOrGoes(r)
      BY <3>1 DEF ComesOrGoes
    <3>2. CASE GoesOn(r)
      BY <3>2 DEF GoesOn, ClientInv, Turnless
    <3>3. CASE TakesTurn(r)
      <4>1. req[r].kind \in CountsTurns /\ CountsTurns \cap Responding = {}
        BY <3>3 DEF TakesTurn, ClientInv, Turnless, CountsTurns, Responding
      <4> QED
        BY <3>3, <4>1 DEF TakesTurn
    <3>4. CASE Sends(r)
      BY <3>4 DEF Sends, ClientInv, Turnless
    <3> QED
      BY <1>1, <3>1, <3>2, <3>3, <3>4
  <2> QED
    BY <2>1, <2>2 DEF Turnless
<1>8. ASSUME NEW p \in Request, NEW q \in Request, p # q, req'[p].start, req'[q].start,
             req'[p].client # 0, req'[q].client = req'[p].client
      PROVE  FALSE
  <2>1. ASSUME NEW u \in Request, u # r, req'[r].start, req'[u].start, req'[r].client # 0,
               req'[u].client = req'[r].client
        PROVE  FALSE
    <3>1. req[u].start /\ req[u].client = req'[r].client /\ req[u].client \in 0..Len(begun)
      BY <1>2, <2>1 DEF Kept, ClientInv, Clients
    <3>2. CASE TakesTurn(r)
      <4>1. ~req'[r].snap.started /\ req'[r].snap.client = 0
        BY <1>3, <2>1, <3>2 DEF TakesTurn, Started
      <4> QED
        BY <1>0, <2>1, <3>1, <3>2, <4>1 DEF TakesTurn
    <3>3. CASE ComesOrGoes(r)
      BY <2>1, <3>3 DEF ComesOrGoes
    <3>4. CASE GoesOn(r) \/ Sends(r)
      BY <2>1, <3>1, <3>4 DEF GoesOn, Sends, ClientInv, Minted
    <3> QED
      BY <1>1, <3>2, <3>3, <3>4
  <2>2. CASE p # r /\ q # r
    BY <1>2, <1>8, <2>2 DEF Kept, ClientInv, Minted
  <2> QED
    BY <1>8, <2>1, <2>2
<1>9. ASSUME NEW q \in Request, req'[q].pc \in {"count", "call"}, req'[q].client # 0, req'[q].start,
             req'[q].kind # "toolLoop"
      PROVE  TRUE \notin begun'[req'[q].client]
  <2>1. CASE q # r
    <3>0. /\ req'[q].client = req[q].client /\ req'[q].start = req[q].start /\ req'[q].pc = req[q].pc
          /\ req'[q].kind = req[q].kind /\ req[q].client \in 0..Len(begun)
      BY <1>2, <2>1 DEF Kept, ClientInv, Clients
    <3>1. /\ req'[q].client = req[q].client /\ req[q].start /\ req[q].client \in 1..Len(begun)
          /\ TRUE \notin begun[req[q].client]
      <4>1. req[q].client # 0 /\ req[q].client \in 1..Len(begun)
        BY <1>0, <1>9, <3>0
      <4>2. req[q].start
        BY <1>9, <3>0
      <4>3. req[q].pc \in {"count", "call"} /\ req[q].kind # "toolLoop"
        BY <1>9, <3>0
      <4> QED
        BY <3>0, <4>1, <4>2, <4>3 DEF ClientInv, Minted
    <3>2. CASE ~Sends(r) \/ req[r].client # req[q].client
      BY <1>4, <3>1, <3>2
    <3>3. CASE Sends(r) /\ req[r].client = req[q].client
      <4>1. ~req[r].start
        BY <1>0, <2>1, <3>1, <3>3 DEF ClientInv, Minted
      <4>2. req[r].start = FALSE
        BY <1>0, <4>1
      <4>3. begun' = [begun EXCEPT ![req[r].client] = @ \cup {req[r].start}]
        BY <1>0, <3>1, <3>3 DEF Sends
      <4>4. begun' = [begun EXCEPT ![req[r].client] = @ \cup {FALSE}]
        BY <4>2, <4>3
      <4>5. begun'[req[r].client] = begun[req[r].client] \cup {FALSE}
        BY <1>0, <3>1, <3>3, <4>4, BegunGrows
      <4> QED
        BY <3>1, <3>3, <4>5
    <3> QED
      BY <3>2, <3>3
  <2>2. CASE q = r
    <3>1. CASE GoesOn(r)
      <4>1. req[r].pc \in {"count", "call"} /\ begun' = begun
        BY <1>9, <2>2, <3>1 DEF GoesOn, ClientInv, Turnless
      <4> QED
        BY <1>9, <2>2, <3>1, <4>1 DEF GoesOn, ClientInv, Minted
    <3>2. CASE TakesTurn(r)
      <4>1. req'[r].client = Len(begun) + 1 /\ begun' = Append(begun, {})
        BY <1>3, <1>9, <2>2, <3>2 DEF TakesTurn, Started
      <4> QED
        BY <1>0, <2>2, <4>1, BegunAppended
    <3>3. CASE ComesOrGoes(r) \/ Sends(r)
      BY <1>9, <2>2, <3>3 DEF ComesOrGoes, Sends
    <3> QED
      BY <1>1, <3>1, <3>2, <3>3
  <2> QED
    BY <2>1, <2>2
<1> QED
  BY <1>6, <1>7, <1>8, <1>9 DEF ClientInv, Minted

\* So does every other step.
LEMMA NextClientInv ==
  ASSUME IInv, IInv', ClientInv, [Next]_vars
  PROVE  ClientInv'
<1>1. CASE ChangePolicy \/ UNCHANGED vars
  <2>1. mem' = mem /\ disk' = disk /\ req' = req /\ begun' = begun
    BY <1>1 DEF ChangePolicy, cache, vars
  <2> QED
    BY <2>1 DEF ClientInv, Clients, Turnless, Minted, Started, InCache
<1>2. CASE Crash
  <2>1. /\ mem' = [s \in {} |-> Empty] /\ disk' = disk /\ begun' = begun
        /\ req' = [r \in Request |-> Idle]
    BY <1>2 DEF Crash, counts
  <2>2. \A s, x : InCache(s, x)' => InCache(s, x)
    BY <2>1 DEF InCache
  <2>3. \A r \in Request : /\ req'[r].client = 0 /\ ~req'[r].start /\ req'[r].snap = Empty
                           /\ req'[r].pc = "idle" /\ req'[r].kind = "chat"
    BY <2>1 DEF Idle
  <2>4. Len(begun) \in Nat
    BY DEF IInv, RequestsTyped
  <2>5. Clients'
    BY <2>1, <2>2, <2>3, <2>4 DEF ClientInv, Clients, Started, Empty
  <2> QED
    BY <2>3, <2>5 DEF ClientInv, Turnless, Minted, Responding
<1>3. CASE \E r \in Request : Step(r)
  BY <1>3, StepClientInv
<1> QED
  BY <1>1, <1>2, <1>3 DEF Next

\* In the beginning there is no client session id.
LEMMA InitClientInv == Init => ClientInv
<1> SUFFICES ASSUME Init PROVE ClientInv
  OBVIOUS
<1>1. /\ mem = [s \in {} |-> Empty] /\ disk = [s \in Session |-> Empty]
      /\ req = [r \in Request |-> Idle] /\ begun = <<>>
  BY DEF Init
<1>2. \A r \in Request : /\ req[r].client = 0 /\ ~req[r].start /\ req[r].snap = Empty
                         /\ req[r].pc = "idle" /\ req[r].kind = "chat"
  BY <1>1 DEF Idle
<1>3. Len(begun) \in Nat
  BY <1>1
<1> QED
  <2>1. \A s \in Session : \A st : InCache(s, st) => st = Empty
    BY <1>1 DEF InCache
  <2>2. Started(Empty)
    BY <1>3 DEF Started, Empty
  <2>3. Clients
    <3>1. \A r \in Request : req[r].client \in 0..Len(begun)
      <4>1. 0 \in 0..Len(begun)
        BY <1>3
      <4> QED
        BY <1>2, <4>1, Zenon
    <3> QED
      BY <1>2, <2>1, <2>2, <3>1 DEF Clients
  <2>4. Turnless /\ Minted
    BY <1>2 DEF Turnless, Minted, Responding
  <2> QED
    BY <2>3, <2>4 DEF ClientInv

\* The invariant of the client session ids holds throughout.
LEMMA ClientInvariant == Spec => []ClientInv
<1>1. IInv /\ IInv' /\ ClientInv /\ [Next]_vars => ClientInv'
  BY NextClientInv
<1> QED
  BY Invariant, InitClientInv, <1>1, PTL DEF Spec

\* However many requests overlap, the service is told at most once that a client session id starts a
\* session, by all handlers but the tool loop (sessionTurnFor).  Another turn may have gone before.
THEOREM StartToldOnce == Spec => StartsOnce
<1>1. ClientInv /\ [Next]_vars =>
        [\A r \in Request :
           Send(r) /\ req[r].client # 0 /\ req[r].start /\ req[r].kind # "toolLoop"
             => TRUE \notin begun[req[r].client]]_vars
  BY DEF ClientInv, Minted, Send, At
<1> QED
  BY ClientInvariant, <1>1, PTL DEF Spec, StartsOnce

-----------------------------------------------------------------------------
(* Types. *)

\* The policy, the counters and the histories are what they may be.
Counted ==
  /\ policy \in [on : BOOLEAN, changed : 0..MaxSwitch]
  /\ turns \in 0..MaxTurns /\ responses \in 0..MaxTurns
  /\ lagging \subseteq Session

\* Every step of a request keeps the order of the sessions in memory.
LEMMA StepListed ==
  ASSUME IInv, Listed, NEW r \in Request, Step(r)
  PROVE  Listed'
<1>0. /\ CacheTyped /\ RequestsTyped /\ Sited /\ req[r].sid \in Session \cup {NoSession}
      /\ req[r].pc \in {"count", "store", "drop"} => req[r].sid \in Session
  BY DEF IInv, RequestsTyped, RequestRecord, Sited
<1>1. CASE mem' = mem /\ order' = order
  BY <1>1 DEF Listed
<1>2. CASE LookUp(r) \/ ReadTurn(r) \/ ReadToAdopt(r)
  BY <1>0, <1>2, GetLists DEF LookUp, ReadTurn, ReadToAdopt
<1>3. CASE CountTurn(r) \/ Adopt(r)
  BY <1>0, <1>3, SetLists DEF CountTurn, Adopt, At
<1>4. CASE Publish(r)
  <2>1. responses + 1 \in 1..MaxTurns
    BY <1>0, <1>4, SessionsAssumption DEF Publish, RequestsTyped
  <2>2. <<"previous", responses + 1>> \in Session
    BY <2>1 DEF Session
  <2> QED
    BY <1>0, <1>4, <2>2, SetLists DEF Publish
<1>5. CASE Drop(r)
  BY <1>0, <1>5, DeleteLists DEF Drop, At
<1>6. CASE AskAgain(r)
  <2>1. CASE req[r].sid = NoSession
    BY <1>1, <1>6, <2>1 DEF AskAgain
  <2>2. CASE req[r].sid # NoSession
    BY <1>0, <1>6, <2>2, DeleteLists DEF AskAgain
  <2> QED
    BY <2>1, <2>2
<1>7. CASE ~(LookUp(r) \/ ReadTurn(r) \/ ReadToAdopt(r) \/ CountTurn(r) \/ Adopt(r) \/ Publish(r)
             \/ Drop(r) \/ AskAgain(r))
  <2>1. mem' = mem /\ order' = order
    BY <1>7 DEF Step, Arrive, SetEnabled, Upload, Send, Fail, AnswerNothing, CutShort, Answer, Continue, Repair,
       Repaired, Finish, cache
  <2> QED
    BY <1>1, <2>1
<1> QED
  BY <1>2, <1>3, <1>4, <1>5, <1>6, <1>7

\* So does every other step.
LEMMA NextListed ==
  ASSUME IInv, Listed, [Next]_vars
  PROVE  Listed'
<1>1. CASE ChangePolicy \/ UNCHANGED vars
  BY <1>1 DEF ChangePolicy, cache, vars, Listed
<1>2. CASE Crash
  <2>1. DOMAIN mem' = {} /\ order' = <<>>
    BY <1>2 DEF Crash
  <2> QED
    BY <2>1, SessionsAssumption DEF Listed, Lists
<1>3. CASE \E r \in Request : Step(r)
  BY <1>3, StepListed
<1> QED
  BY <1>1, <1>2, <1>3 DEF Next

\* The counters stay within their bounds, and only sessions lag behind.
LEMMA NextCounted ==
  ASSUME IInv, Counted, [Next]_vars
  PROVE  Counted'
<1>1. turns' \in 0..MaxTurns
  <2>1. ASSUME NEW r \in Request, Arrive(r) PROVE turns < MaxTurns /\ turns' = turns + 1
    BY <2>1 DEF Arrive
  <2>2. turns' = turns \/ \E r \in Request : Arrive(r)
    BY ZenonT(40) DEF Next, Step, Publish, SetEnabled, LookUp, Upload, ReadTurn, CountTurn, Send, Fail,
       AnswerNothing, CutShort, AskAgain, Answer, Continue, Repair, Repaired, ReadToAdopt, Adopt,
       Finish, Drop, ChangePolicy, Crash, counts, vars
  <2> QED
    BY <2>1, <2>2, SessionsAssumption DEF Counted
<1>2. responses' \in 0..MaxTurns
  <2>1. ASSUME NEW r \in Request, Publish(r) PROVE responses < MaxTurns /\ responses' = responses + 1
    BY <2>1 DEF Publish
  <2>2. responses' = responses \/ \E r \in Request : Publish(r)
    BY ZenonT(40) DEF Next, Step, Arrive, SetEnabled, LookUp, Upload, ReadTurn, CountTurn, Send, Fail,
       AnswerNothing, CutShort, AskAgain, Answer, Continue, Repair, Repaired, ReadToAdopt, Adopt,
       Finish, Drop, ChangePolicy, Crash, counts, vars
  <2> QED
    BY <2>1, <2>2, SessionsAssumption DEF Counted
<1>3. policy' \in [on : BOOLEAN, changed : 0..MaxSwitch]
  <2>1. policy' = policy \/ ChangePolicy
    BY ZenonT(40) DEF Next, Step, Arrive, SetEnabled, LookUp, Upload, ReadTurn, CountTurn, Send, Fail,
       AnswerNothing, CutShort, AskAgain, Answer, Continue, Repair, Repaired, ReadToAdopt, Adopt, Publish,
       Finish, Drop, Crash, counts, vars
  <2>2. ChangePolicy => policy' \in [on : BOOLEAN, changed : 0..MaxSwitch]
    BY SessionsAssumption DEF ChangePolicy, Counted
  <2> QED
    BY <2>1, <2>2 DEF Counted
<1>4. lagging' \subseteq Session
  <2>1. ASSUME NEW r \in Request, Step(r) PROVE lagging' \subseteq Session
    <3>0. /\ req[r].sid \in Session \cup {NoSession}
          /\ req[r].pc \in {"count", "store", "drop"} => req[r].sid \in Session
      BY DEF IInv, RequestsTyped, RequestRecord, Sited
    <3>1. CASE CountTurn(r) \/ Adopt(r)
      <4>1. PICK st : SetSession(req[r].sid, st)
        BY <3>1 DEF CountTurn, Adopt
      <4>2. req[r].sid \in Session
        BY <3>0, <3>1 DEF CountTurn, Adopt, At
      <4> QED
        BY <4>1, <4>2 DEF SetSession, Filed, Counted
    <3>2. CASE Publish(r)
      <4>1. responses + 1 \in 1..MaxTurns
        BY <3>2, SessionsAssumption DEF Publish, IInv, RequestsTyped
      <4>2. <<"previous", responses + 1>> \in Session
        BY <4>1 DEF Session
      <4>3. PICK st : SetSession(<<"previous", responses + 1>>, st)
        BY <3>2 DEF Publish
      <4> QED
        BY <4>2, <4>3 DEF SetSession, Filed, Counted
    <3>3. CASE Drop(r) \/ AskAgain(r)
      <4>1. lagging' = lagging \/ (DeleteSession(req[r].sid) /\ req[r].sid \in Session)
        BY <3>0, <3>3 DEF Drop, AskAgain, At
      <4> QED
        BY <4>1 DEF DeleteSession, Counted
    <3>4. CASE ~(CountTurn(r) \/ Adopt(r) \/ Publish(r) \/ Drop(r) \/ AskAgain(r))
      <4>1. lagging' = lagging
        BY <2>1, <3>4 DEF Step, Arrive, SetEnabled, LookUp, Upload, ReadTurn, Send, Fail, AnswerNothing,
           CutShort, Answer, Continue, Repair, Repaired, ReadToAdopt, Finish, GetSession, cache
      <4> QED
        BY <4>1 DEF Counted
    <3> QED
      BY <3>1, <3>2, <3>3, <3>4
  <2>2. ChangePolicy \/ Crash \/ UNCHANGED vars => lagging' = lagging
    BY DEF ChangePolicy, Crash, cache, vars
  <2> QED
    BY <2>1, <2>2 DEF Next, Counted
<1> QED
  BY <1>1, <1>2, <1>3, <1>4 DEF Counted

\* The order and the counters begin well.
LEMMA InitListed == Init => Listed /\ Counted
<1> SUFFICES ASSUME Init PROVE Listed /\ Counted
  OBVIOUS
<1>1. DOMAIN mem = {} /\ order = <<>>
  BY DEF Init
<1> QED
  BY <1>1, SessionsAssumption DEF Init, Listed, Lists, Counted

\* Every variable keeps its type, memory never holds more than contextCacheMaxSize sessions, and the
\* order in which they leave it names each of them once: for every size and any number of requests.
THEOREM TypeCorrect == Spec => []TypeOK
<1>1. IInv /\ Listed /\ Counted /\ [Next]_vars => Listed' /\ Counted'
  BY NextListed, NextCounted
<1>2. IInv /\ ConvInv /\ [Next]_vars => ConvInv'
  BY NextConv
<1>3. IInv /\ Listed /\ Counted /\ ConvInv /\ ClientInv => TypeOK
  <2> SUFFICES ASSUME IInv, Listed, Counted, ConvInv, ClientInv PROVE TypeOK
    OBVIOUS
  <2>1. \A r \in Request : /\ req[r].conv <= Len(owner) /\ req[r].final <= Len(owner)
                           /\ req[r].client <= Len(begun)
    <3>1. \A r \in Request : Holds(r, req[r].conv) /\ Holds(r, req[r].final)
      BY DEF Holds
    <3>2. \A r \in Request : /\ req[r].conv \in 0..Len(owner) /\ req[r].final \in 0..Len(owner)
                             /\ req[r].client \in 0..Len(begun)
      BY <3>1 DEF ConvInv, Opened, ClientInv, Clients
    <3>3. Len(owner) \in Nat /\ Len(begun) \in Nat
      BY DEF IInv, RequestsTyped
    <3>4. ASSUME NEW n \in Nat, NEW i \in 0..n PROVE i <= n
      OBVIOUS
    <3> QED
      BY <3>2, <3>3, <3>4, Zenon
  <2>2. failed \subseteq Session \X Conv
    BY DEF ConvInv, Forgotten
  <2>3. /\ DOMAIN mem \subseteq Session /\ \A s \in DOMAIN mem : mem[s] \in State
        /\ disk \in [Session -> State]
    BY DEF IInv, CacheTyped
  <2> QED
    BY <2>1, <2>2, <2>3 DEF TypeOK, IInv, RequestsTyped, Listed, Lists, Counted
<1> QED
  BY Invariant, ClientInvariant, InitConv, InitListed, <1>1, <1>2, <1>3, PTL DEF Spec
=============================================================================
