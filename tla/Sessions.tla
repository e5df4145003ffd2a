------------------------------ MODULE Sessions ------------------------------
(***************************************************************************)
(* The sessions of the data plane (pkg/servers/api.go): ContextCache with  *)
(* its memory, its eviction and its files, the switch that withAuth sets,  *)
(* and what the handlers of all dialects do with a session from looking    *)
(* it up to the end of their turn.  Conversations and client session ids   *)
(* are numbers in the order of their minting, 0 is "".                     *)
(***************************************************************************)
EXTENDS Naturals, Sequences

CONSTANTS
  Request,    \* goroutines that serve requests
  Kinds,      \* which handlers the requests go to
  Offers,     \* which sets of session sources a client may send
  MemSize,    \* contextCacheMaxSize
  MaxTurns,   \* bound: requests that arrive
  MaxConv,    \* bound: conversations the service opens
  MaxClient,  \* bound: client session ids that are minted
  MaxSwitch,  \* bound: changes of the policy
  Faults      \* whether files fail and the process crashes

ASSUME SessionsAssumption ==
  /\ MemSize \in Nat \ {0} /\ MaxTurns \in Nat /\ MaxConv \in Nat /\ MaxClient \in Nat
  /\ MaxSwitch \in Nat
  /\ Faults \in BOOLEAN
  /\ Kinds \subseteq {"chat", "chatStream", "toolLoop", "messages", "completion", "responses",
                      "responsesStream", "compact", "imageEdit"}

\* A session is named by what its source says, or by a response that was stored under its own id.
Session == ((UNION Offers) \X {0}) \cup ({"previous"} \X (1..MaxTurns))
NoSession == <<"none", 0>>

VARIABLES
  mem, order,   \* ContextCache.mem and .order
  disk,         \* the files; a missing or unreadable one is Empty
  enabled,      \* ContextCache.enabled
  policy,       \* what IncrementalContextEnabled answers, and how often it has changed
  req,          \* request -> its program counter and locals
  turns,        \* requests that have arrived
  responses,    \* responses stored under their id
  owner,        \* history: conversation -> the session that opened it, in the order of opening
  begun,        \* history: client session id -> the isStartOfSession of the turns sent with it
  lagging,      \* history: sessions whose last change is not in their file
  failed        \* history: conversations dropped from their session

vars == <<mem, order, disk, enabled, policy, req, turns, responses, owner, begun, lagging, failed>>

Conv == 0..MaxConv

Empty == [conv |-> 0, client |-> 0, started |-> FALSE]
State == [conv : Conv, client : Nat, started : BOOLEAN]

\* Locals of a handler: its session, the conversation it sends its turn with, its copy of the session,
\* its client session id and isStartOfSession, the conversation of the answer, whether it asks a
\* second time; and, as history, whether no other request of its session has been under way.
RequestRecord ==
  [pc : {"idle", "enable", "disable", "lookup", "turn", "count", "call", "sent", "publish", "adopt",
         "store", "end", "drop"},
   kind : Kinds \cup {"chat"}, sid : Session \cup {NoSession}, conv : Conv, snap : State, client : Nat,
   start : BOOLEAN, final : Conv, asked : BOOLEAN, alone : BOOLEAN]

Idle == [pc |-> "idle", kind |-> "chat", sid |-> NoSession, conv |-> 0, snap |-> Empty, client |-> 0,
         start |-> FALSE, final |-> 0, asked |-> FALSE, alone |-> TRUE]

-----------------------------------------------------------------------------
(* Which session a request belongs to: the first source that the client offers, in the order of *)
(* its handler.  getSessionID is called without a body, so that the handlers that leave it to   *)
(* getSessionID see neither the fields nor the first message.                                   *)

ChatSources == <<"model", "header", "session_id", "user", "x-session", "persist", "hash">>
ResponsesSources == <<"model", "previous", "session_id", "user", "header", "x-session", "persist", "hash">>
ImageSources == <<"model", "session_id", "user", "header", "x-session", "persist">>
PlainSources == <<"model", "header", "x-session", "persist">>

SourcesOf(kind) ==
  CASE kind \in {"chat", "chatStream", "toolLoop"} -> ChatSources
    [] kind \in {"responses", "responsesStream", "compact"} -> ResponsesSources
    [] kind = "imageEdit" -> ImageSources
    [] kind \in {"messages", "completion"} -> PlainSources

SidOf(kind, offer, n) ==
  LET sources == SourcesOf(kind)
      found == {i \in 1..Len(sources) : sources[i] \in offer}
      first == sources[CHOOSE i \in found : \A j \in found : i <= j]
  IN  IF found = {} THEN NoSession ELSE <<first, IF first = "previous" THEN n ELSE 0>>

-----------------------------------------------------------------------------
(* ContextCache.  Each operation is one critical section of its mutex. *)

Value(s) == IF s \in DOMAIN mem THEN mem[s] ELSE disk[s]

Without(m, s) == [q \in DOMAIN m \ {s} |-> m[q]]
With(m, s, st) == [q \in DOMAIN m \cup {s} |-> IF q = s THEN st ELSE m[q]]

\* What indexOf finds is taken out.
Unlisted(o, s) ==
  LET found == {i \in 1..Len(o) : o[i] = s}
      idx == CHOOSE i \in found : \A j \in found : i <= j
  IN  IF found = {} THEN o ELSE [i \in 1..(Len(o) - 1) |-> o[IF i < idx THEN i ELSE i + 1]]

\* evict.
Evict(m, o) ==
  IF Len(o) > MemSize
  THEN mem' = Without(m, Head(o)) /\ order' = Tail(o)
  ELSE mem' = m /\ order' = o

Got(s) == IF enabled /\ s # NoSession THEN Value(s) ELSE Empty

\* A file that is read is put in memory.
GetSession(s) ==
  /\ IF enabled /\ s # NoSession /\ s \notin DOMAIN mem /\ disk[s] # Empty
     THEN Evict(With(mem, s, disk[s]), Append(order, s))
     ELSE UNCHANGED <<mem, order>>
  /\ UNCHANGED <<disk, lagging>>

\* The file may fail to be written, or be left torn and so unreadable; nobody is told.
Filed(s, st) ==
  \/ /\ disk' = [disk EXCEPT ![s] = st]
     /\ lagging' = lagging \ {s}
  \/ /\ Faults
     /\ disk' \in {disk, [disk EXCEPT ![s] = Empty]}
     /\ lagging' = lagging \cup {s}

\* Mutant: the key is listed again without taking it out of the order.
SetSessionRelisted(s, st) ==
  IF enabled THEN Evict(With(mem, s, st), Append(order, s)) /\ Filed(s, st)
  ELSE UNCHANGED <<mem, order, disk, lagging>>

SetSession(s, st) ==
  LET kept == IF st.conv = 0 /\ s \in DOMAIN mem THEN [st EXCEPT !.conv = mem[s].conv] ELSE st
  IN  IF enabled
      THEN Evict(With(mem, s, kept), Append(Unlisted(order, s), s)) /\ Filed(s, kept)
      ELSE UNCHANGED <<mem, order, disk, lagging>>

\* Mutant: only memory is cleared.
DeleteSessionInMemory(s) ==
  mem' = Without(mem, s) /\ order' = Unlisted(order, s) /\ UNCHANGED <<disk, lagging>>

\* Mutant: the file is removed and the entry stays in memory.
DeleteSessionOnDisk(s) ==
  disk' = [disk EXCEPT ![s] = Empty] /\ lagging' = lagging \ {s} /\ UNCHANGED <<mem, order>>

\* Delete works whether sessions are on or off.
DeleteSession(s) ==
  /\ mem' = Without(mem, s)
  /\ order' = Unlisted(order, s)
  /\ \/ /\ disk' = [disk EXCEPT ![s] = Empty]
        /\ lagging' = lagging \ {s}
     \/ /\ Faults
        /\ disk' = disk
        /\ lagging' = lagging \cup {s}

-----------------------------------------------------------------------------
Init ==
  /\ mem = [s \in {} |-> Empty] /\ order = <<>>
  /\ disk = [s \in Session |-> Empty]
  /\ enabled = TRUE
  /\ policy = [on |-> TRUE, changed |-> 0]
  /\ req = [r \in Request |-> Idle]
  /\ turns = 0 /\ responses = 0
  /\ owner = <<>> /\ begun = <<>>
  /\ lagging = {} /\ failed = {}

At(r, pc) == req[r].pc = pc
Goto(r, pc) == req' = [req EXCEPT ![r].pc = pc]

\* The request ends: the goroutine's locals are gone.
Done(r) == req' = [req EXCEPT ![r] = Idle]

cache == <<mem, order, disk, enabled, lagging>>
counts == <<policy, turns, responses, owner, begun, failed>>

\* withAuth asks the resolver for the policy ...
Arrive(r) ==
  /\ At(r, "idle") /\ turns < MaxTurns
  /\ turns' = turns + 1
  /\ \E kind \in Kinds, offer \in Offers, n \in 1..MaxTurns :
       LET sid == SidOf(kind, offer, n)
           others == {q \in Request : ~At(q, "idle") /\ req[q].sid = sid}
       IN  /\ n <= responses \/ n = 1
           /\ req' = [q \in Request |->
                IF q = r THEN [Idle EXCEPT !.pc = IF policy.on THEN "enable" ELSE "disable",
                                           !.kind = kind, !.sid = sid, !.alone = others = {}]
                ELSE [req[q] EXCEPT !.alone = @ /\ q \notin others]]
  /\ UNCHANGED <<cache, policy, responses, owner, begun, failed>>

\* ... and sets the switch of all sessions to it, which may have changed meanwhile.
SetEnabled(r) ==
  /\ req[r].pc \in {"enable", "disable"}
  /\ enabled' = At(r, "enable")
  /\ Goto(r, "lookup")
  /\ UNCHANGED <<mem, order, disk, lagging, counts>>

\* Only these count their turns; responses and image edits do not.
CountsTurns == {"chat", "chatStream", "messages", "completion", "compact", "toolLoop"}
TakesImages == {"chat", "chatStream", "messages", "responses", "responsesStream", "toolLoop", "imageEdit"}
Tooled == {"chat", "chatStream", "messages", "completion", "toolLoop"}

AfterLookup(r) == IF req[r].kind \in CountsTurns /\ req[r].sid # NoSession THEN "turn" ELSE "call"

\* The handler looks up the conversation.  Compaction does not continue it.
LookUp(r) ==
  /\ At(r, "lookup")
  /\ GetSession(req[r].sid)
  /\ req' = [req EXCEPT ![r].pc = AfterLookup(r), ![r].snap = Got(req[r].sid),
                        ![r].conv = IF req[r].kind = "compact" THEN 0 ELSE Got(req[r].sid).conv]
  /\ UNCHANGED <<enabled, counts>>

\* Images are uploaded to the conversation, or to one whose id is made up for them; a failed
\* upload ends the request.
Upload(r) ==
  /\ req[r].pc \in {"turn", "call"} /\ ~req[r].asked /\ req[r].client = 0
  /\ req[r].kind \in TakesImages
  /\ \/ /\ req[r].conv = 0
        /\ Len(owner) < MaxConv
        /\ owner' = Append(owner, req[r].sid)
        /\ req' = [req EXCEPT ![r].conv = Len(owner) + 1]
     \/ /\ Done(r)
        /\ UNCHANGED owner
  /\ UNCHANGED <<cache, policy, turns, responses, begun, failed>>

\* sessionTurnFor reads the session and mints a client session id if there is none ...
ReadTurn(r) ==
  LET got == Got(req[r].sid)
  IN  /\ At(r, "turn") /\ (got.client # 0 \/ Len(begun) < MaxClient)
      /\ GetSession(req[r].sid)
      /\ req' = [req EXCEPT ![r].pc = "count", ![r].snap = got, ![r].start = ~got.started,
                            ![r].client = IF got.client = 0 THEN Len(begun) + 1 ELSE got.client]
      /\ begun' = IF got.client = 0 THEN Append(begun, {}) ELSE begun
      /\ UNCHANGED <<enabled, policy, turns, responses, owner, failed>>

\* Mutant: the turn is counted after the session has been stored.
CountTurnUnsaved(r) ==
  /\ At(r, "count")
  /\ SetSession(req[r].sid, [req[r].snap EXCEPT !.client = req[r].client])
  /\ Goto(r, "call")
  /\ UNCHANGED <<enabled, counts>>

\* ... and stores it with the turn counted.  A second turn is counted for repairs whether there is
\* something to repair or not.
CountTurn(r) ==
  /\ At(r, "count")
  /\ SetSession(req[r].sid, [conv |-> req[r].snap.conv, client |-> req[r].client, started |-> TRUE])
  /\ Goto(r, "call") \/ (req[r].asked /\ Goto(r, "adopt"))
  /\ UNCHANGED <<enabled, counts>>

\* The turn is sent with the conversation looked up, or as the first of a new one.
Send(r) ==
  /\ At(r, "call")
  /\ Goto(r, "sent")
  /\ begun' = IF req[r].client = 0 THEN begun ELSE [begun EXCEPT ![req[r].client] = @ \cup {req[r].start}]
  /\ UNCHANGED <<cache, policy, turns, responses, owner, failed>>

-----------------------------------------------------------------------------
(* What the handlers do about the session when the turn failed, and when it gave nothing or its *)
(* client has gone.                                                                             *)

DropsFailed == {"chat", "chatStream", "messages", "responses", "responsesStream", "compact"}
DropsEmpty == {"chatStream", "responses", "responsesStream"}

Streamed == {"chatStream", "messages", "completion", "responsesStream", "compact"}

\* A handler that has nothing left but its session.
Bare(r, pc) ==
  [Idle EXCEPT !.pc = pc, !.kind = req[r].kind, !.sid = req[r].sid, !.alone = req[r].alone]

\* What the session held is dropped, by the handlers that do so.
DropOrEnd(r, kinds) ==
  IF req[r].kind \in kinds /\ req[r].sid # NoSession
  THEN req' = [req EXCEPT ![r] = [Bare(r, "drop") EXCEPT !.final = req[r].conv]]
  ELSE Done(r)

\* What a request that was alone drops from its session and from its file.
Dropped(r, c) ==
  IF req[r].alone /\ req[r].sid \notin lagging' \cup {NoSession} /\ c # 0 THEN {<<req[r].sid, c>>} ELSE {}

\* The turn that is under way is the handler's, not a repair.
OfHandler(r) == ~req[r].asked \/ req[r].kind \notin Tooled

\* No connection, or an error from the service.
Fail(r) ==
  /\ req[r].pc \in {"call", "sent"} /\ OfHandler(r)
  /\ DropOrEnd(r, DropsFailed)
  /\ UNCHANGED <<cache, counts>>

\* Neither text nor thinking nor calls.  A streamed chat finds that out when it has dropped the calls
\* it does not repeat; what its client has left behind counts too.
AnswerNothing(r) ==
  /\ \/ At(r, "sent") /\ OfHandler(r)
     \/ At(r, "adopt") /\ req[r].kind = "chatStream"
  /\ DropOrEnd(r, DropsEmpty)
  /\ UNCHANGED <<cache, counts>>

\* The client goes away, or the token limit is reached, after some of a streamed answer: it has no
\* conversation, and the session stays as it is.  What there is of its calls may be repaired; half a
\* compaction is one all the same.
CutShort(r) ==
  /\ At(r, "sent") /\ OfHandler(r) /\ req[r].kind \in Streamed
  /\ IF req[r].sid = NoSession \/ req[r].kind = "responsesStream" THEN Done(r)
     ELSE Goto(r, IF req[r].kind = "compact" THEN "drop" ELSE "adopt")
  /\ UNCHANGED <<cache, counts>>

\* Responses drops the session and asks again in a new conversation.
AskAgain(r) ==
  /\ At(r, "sent") /\ req[r].kind \in {"responses", "responsesStream"} /\ ~req[r].asked
  /\ req' = [req EXCEPT ![r] = [Bare(r, "call") EXCEPT !.asked = TRUE]]
  /\ IF req[r].sid = NoSession THEN UNCHANGED <<mem, order, disk, lagging>> ELSE DeleteSession(req[r].sid)
  /\ failed' = failed \cup Dropped(r, req[r].conv)
  /\ UNCHANGED <<enabled, policy, turns, responses, owner, begun>>

\* The service names the conversation: the one it was given, or a new one.
Names(r, c) ==
  \/ c = req[r].conv /\ c # 0 /\ UNCHANGED owner
  \/ c = Len(owner) + 1 /\ c <= MaxConv /\ owner' = Append(owner, req[r].sid)

\* The compacted conversation is dropped; the others adopt the one they got.
AfterAnswer(r) ==
  CASE req[r].kind = "responsesStream" -> "publish"
    [] req[r].kind = "compact" -> IF req[r].sid = NoSession THEN "end" ELSE "drop"
    [] req[r].kind \notin {"responsesStream", "compact"} -> IF req[r].sid = NoSession THEN "end" ELSE "adopt"

Answer(r) ==
  /\ At(r, "sent") /\ OfHandler(r)
  /\ \E c \in Conv :
       /\ Names(r, c)
       /\ req' = [req EXCEPT ![r].pc = AfterAnswer(r), ![r].final = c]
  /\ UNCHANGED <<cache, policy, turns, responses, begun, failed>>

\* A streamed response is stored under its own id too, a new session that nobody else has.
Publish(r) ==
  /\ At(r, "publish") /\ responses < MaxTurns
  /\ responses' = responses + 1
  /\ SetSession(<<"previous", responses + 1>>, [Empty EXCEPT !.conv = req[r].final])
  /\ IF req[r].sid = NoSession THEN Done(r) ELSE Goto(r, "adopt")
  /\ UNCHANGED <<enabled, policy, turns, owner, begun, failed>>

\* The tool loop runs the calls and continues with their results: the same turn is sent again.
Continue(r) ==
  /\ At(r, "adopt") /\ req[r].kind = "toolLoop" /\ ~req[r].asked
  /\ req' = [req EXCEPT ![r].pc = "call", ![r].conv = req[r].final]
  /\ UNCHANGED <<cache, counts>>

\* With tools, the model may be asked to repair its calls in a new conversation.  What comes of it
\* does not change the session.
Repair(r) ==
  /\ At(r, "adopt") /\ req[r].kind \in Tooled /\ ~req[r].asked
  /\ req' = [req EXCEPT ![r].pc = "turn", ![r].conv = 0, ![r].asked = TRUE]
  /\ UNCHANGED <<cache, counts>>

Repaired(r) ==
  /\ req[r].pc \in {"call", "sent"} /\ req[r].asked /\ req[r].kind \in Tooled
  /\ Goto(r, "adopt")
  /\ UNCHANGED <<cache, counts>>

\* Set, and updateChatStreamSession: read the session ...
ReadToAdopt(r) ==
  LET got == Got(req[r].sid)
      unchanged == got.conv = req[r].final /\ req[r].kind # "chatStream"
  IN  /\ At(r, "adopt") /\ req[r].final # 0
      /\ GetSession(req[r].sid)
      /\ req' = [req EXCEPT ![r].snap = got,
                            ![r].pc = IF enabled /\ ~unchanged THEN "store" ELSE "end"]
      /\ UNCHANGED <<enabled, counts>>

\* ... and store it with the conversation of this turn.
Adopt(r) ==
  /\ At(r, "store")
  /\ SetSession(req[r].sid, [req[r].snap EXCEPT !.conv = req[r].final])
  /\ Done(r)
  /\ UNCHANGED <<enabled, counts>>

\* An answer without a conversation is not adopted.
Finish(r) ==
  /\ \/ At(r, "end")
     \/ At(r, "adopt") /\ req[r].final = 0
  /\ Done(r)
  /\ UNCHANGED <<cache, counts>>

Drop(r) ==
  /\ At(r, "drop")
  /\ DeleteSession(req[r].sid)
  /\ failed' = failed \cup Dropped(r, req[r].final)
  /\ Done(r)
  /\ UNCHANGED <<enabled, policy, turns, responses, owner, begun>>

-----------------------------------------------------------------------------
\* The administrator turns account rotation or incremental context on or off.
ChangePolicy ==
  /\ policy.changed < MaxSwitch
  /\ policy' = [on |-> ~policy.on, changed |-> policy.changed + 1]
  /\ UNCHANGED <<cache, req, turns, responses, owner, begun, failed>>

\* Death and restart of the process.
Crash ==
  /\ Faults
  /\ mem' = [s \in {} |-> Empty] /\ order' = <<>> /\ enabled' = TRUE
  /\ req' = [r \in Request |-> Idle]
  /\ UNCHANGED <<disk, lagging, counts>>

Step(r) ==
  \/ Arrive(r) \/ SetEnabled(r) \/ LookUp(r) \/ Upload(r) \/ ReadTurn(r) \/ CountTurn(r)
  \/ Send(r) \/ Fail(r) \/ AnswerNothing(r) \/ CutShort(r) \/ AskAgain(r) \/ Answer(r) \/ Continue(r)
  \/ Repair(r) \/ Repaired(r) \/ ReadToAdopt(r) \/ Adopt(r) \/ Publish(r) \/ Finish(r) \/ Drop(r)

Next == (\E r \in Request : Step(r)) \/ ChangePolicy \/ Crash

Spec == Init /\ [][Next]_vars
-----------------------------------------------------------------------------
\* Types; the entries of memory are those that can be evicted, in an order without repetition, and
\* never more than the limit (contextCacheMaxSize): an entry missing from the order would stay for
\* ever, one missing from memory would let another go too early.
TypeOK ==
  /\ DOMAIN mem \subseteq Session /\ \A s \in DOMAIN mem : mem[s] \in State
  /\ DOMAIN mem = {order[i] : i \in 1..Len(order)}
  /\ \A i, j \in 1..Len(order) : order[i] = order[j] => i = j
  /\ Len(order) <= MemSize
  /\ disk \in [Session -> State]
  /\ enabled \in BOOLEAN /\ policy \in [on : BOOLEAN, changed : 0..MaxSwitch]
  /\ turns \in 0..MaxTurns /\ responses \in 0..MaxTurns
  /\ owner \in Seq(Session \cup {NoSession}) /\ Len(owner) <= MaxConv
  /\ begun \in Seq(SUBSET BOOLEAN) /\ lagging \subseteq Session
  /\ failed \subseteq Session \X Conv
  /\ req \in [Request -> RequestRecord]
  /\ \A r \in Request : /\ req[r].conv <= Len(owner) /\ req[r].final <= Len(owner)
                        /\ req[r].client <= Len(begun)

\* What the handlers see of ContextCache is one map: neither the eviction from memory, nor reading a
\* file back, nor a restart loses or changes a session, unless writing its file failed (ContextCache's
\* GetSession, SetSession, Delete and evict).
Map == INSTANCE SessionMap WITH
  Reader <- Request, map <- [s \in Session |-> Value(s)], seen <- [r \in Request |-> req[r].snap],
  unsaved <- lagging, on <- enabled

CacheIsMap == Map!MapSpec

\* Whatever requests of a session overlap, at most one of the turns sent with a client session id says
\* that it starts the session (sessionTurnFor), in all handlers but the tool loop.  It need not be the
\* first that is sent, and the turns of Responses are sent without such an id.
StartsOnce ==
  [][\A r \in Request :
       Send(r) /\ req[r].client # 0 /\ req[r].start /\ req[r].kind # "toolLoop"
         => TRUE \notin begun[req[r].client]]_vars

\* A conversation that was dropped because its turn failed, came back empty or had to be asked again,
\* with no other request of its session under way, is never continued in that session: neither from a
\* file, nor from memory, nor from what a later request has read before or stores afterwards.
DroppedForGood ==
  \A r \in Request : At(r, "sent") => <<req[r].sid, req[r].conv>> \notin failed

\* "isStartOfSession is true exactly on the first turn" (api.go:2370): violated, the tool loop sends
\* its turn again and again, and a first turn that never got through counts all the same.
StartIffFirst ==
  [][\A r \in Request :
       Send(r) /\ req[r].client # 0 => (req[r].start <=> begun[req[r].client] = {})]_vars
=============================================================================
