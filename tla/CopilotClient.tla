---------------------------- MODULE CopilotClient ----------------------------
(***************************************************************************)
(* Turns of conversations over WebSockets to the Copilot service:           *)
(* ChatConversationStreamGenContext of pkg/client/client.go over the pool   *)
(* of idle connections in connpool.go.  A turn is a goroutine that takes or *)
(* dials a connection, sends the payload, hands the answer's chunks to its  *)
(* reader and gives the connection back; a second goroutine watches the     *)
(* turn's context.  At startup Prewarm fills the pool, and an administrator *)
(* may configure another outbound proxy at any time.                        *)
(*                                                                          *)
(* The conversation is named in the URL a connection is dialed with, and    *)
(* nowhere in the payload.  The peer, the network and the clock are external.*)
(* A connection the peer has ended is still open on our side; it shows when *)
(* the next write or read fails, which may happen at any time.  A watcher is *)
(* taken to reach its select before its turn ends.                          *)
(***************************************************************************)
EXTENDS Naturals, Sequences, FiniteSets, SequencesExt

CONSTANTS
  Account,      \* access token, OID and TID
  Conv,         \* conversations of the Copilot service
  NoConv,       \* the turn starts a new conversation
  Random,       \* the conversation id Prewarm dials with
  Turn,         \* goroutines of ChatConversationStreamGenContext
  Cancellable,  \* those whose context is the request's, not Background
  MaxPooled,    \* maxConnectionsPerPoolKey
  Nothing,      \* the key of a goroutine that has none
  MaxGen,       \* bound: changes of the outbound proxy
  NConns        \* bound: connection objects at one time

ASSUME ConvAssumption == NoConv \notin Conv /\ Random \notin Conv \cup {NoConv}
ASSUME CancellableAssumption == Cancellable \subseteq Turn
ASSUME BoundsAssumption == MaxPooled \in Nat \ {0} /\ MaxGen \in Nat /\ NConns \in Nat

VARIABLES
  route,      \* the proxy that WebSocketDialer uses, counted like proxyGeneration
  generation, \* proxyGeneration, which lags behind while clientsMu is held
  conns,      \* the connection objects
  pool,       \* websocketPool.connections: by key, the latest at the end
  pc,         \* where each turn is
  key, conv,  \* its poolKey and its conversation
  conn,       \* its connection, 0 when it has none
  reusable,   \* its local of that name
  left,       \* its client has gone: the context is cancelled or nobody reads
  watcher,    \* the state of its watching goroutine
  watched,    \* the connection that goroutine will close
  cold,       \* accounts that are still to be prewarmed
  warmKey,    \* the key by which a running Prewarm counts
  warming     \* the connection it has dialed and not yet put, or 0

routing == <<route, generation>>
turnVars == <<pc, key, conv, conn, reusable, left>>
watchVars == <<watcher, watched>>
warmVars == <<cold, warmKey, warming>>
vars == <<routing, conns, pool, turnVars, watchVars, warmVars>>

ConnId == 1..NConns
PoolKey == [account: Account, gen: 0..MaxGen]
Connection == [open: BOOLEAN, key: PoolKey \cup {Nothing}, via: 0..MaxGen,
               conv: Conv \cup {NoConv, Random}, stale: BOOLEAN]
NoConnection == [open |-> FALSE, key |-> Nothing, via |-> 0, conv |-> NoConv, stale |-> FALSE]
Opened(k, v) == [open |-> TRUE, key |-> k, via |-> route, conv |-> v, stale |-> FALSE]

Pooled == UNION {Range(pool[k]) : k \in PoolKey}
Free(c) == c \notin Pooled \cup Range(conn) \cup Range(watched) \cup {warming}

Init ==
  /\ route = 0 /\ generation = 0
  /\ conns = [c \in ConnId |-> NoConnection]
  /\ pool = [k \in PoolKey |-> <<>>]
  /\ pc = [t \in Turn |-> "idle"]
  /\ key = [t \in Turn |-> Nothing]
  /\ conv = [t \in Turn |-> NoConv]
  /\ conn = [t \in Turn |-> 0]
  /\ reusable = [t \in Turn |-> FALSE]
  /\ left = [t \in Turn |-> FALSE]
  /\ watcher = [t \in Turn |-> "none"]
  /\ watched = [t \in Turn |-> 0]
  /\ cold = Account /\ warmKey = Nothing /\ warming = 0

GoTo(t, l) == pc' = [pc EXCEPT ![t] = l]
Cancelled(t) == t \in Cancellable /\ left[t]

-----------------------------------------------------------------------------
(* The pool *)

Fresh(k) == pool[k] # <<>> /\ ~conns[Last(pool[k])].stale

\* The connections S are closed by those who had them.
Discarded(S) == [c \in ConnId |-> IF c \in S THEN NoConnection ELSE conns[c]]

\* Mutant: a full pool drops the connection without closing it.
PutUnclosed(k, c) ==
  IF Len(pool[k]) < MaxPooled
  THEN /\ pool' = [pool EXCEPT ![k] = Append(@, c)]
       /\ conns' = [conns EXCEPT ![c].stale = FALSE]
  ELSE UNCHANGED <<pool, conns>>

\* Mutant: the key is made anew when the connection is returned.
PutRekeyed(k, c) ==
  LET now == [k EXCEPT !.gen = generation]
  IN IF Len(pool[now]) < MaxPooled
     THEN /\ pool' = [pool EXCEPT ![now] = Append(@, c)]
          /\ conns' = [conns EXCEPT ![c].stale = FALSE]
     ELSE /\ conns' = Discarded({c})
          /\ UNCHANGED pool

Put(k, c) ==
  IF Len(pool[k]) < MaxPooled
  THEN /\ pool' = [pool EXCEPT ![k] = Append(@, c)]
       /\ conns' = [conns EXCEPT ![c].stale = FALSE]
  ELSE /\ conns' = Discarded({c})
       /\ UNCHANGED pool

\* The turn's connection; the goroutine that watches the turn's context starts.
Attach(t, c) ==
  /\ conn' = [conn EXCEPT ![t] = c]
  /\ watched' = [watched EXCEPT ![t] = c]
  /\ watcher' = [watcher EXCEPT ![t] = IF Cancelled(t) THEN "closing" ELSE "watching"]
  /\ GoTo(t, "send")

\* A connection object that nobody refers to; the first one.
Unused(c) ==
  /\ Free(c) /\ ~conns[c].open
  /\ \A d \in 1..(c - 1) : ~Free(d) \/ conns[d].open

\* WebSocketDialer waits for clientsMu.
Dialable == route = generation

-----------------------------------------------------------------------------
(* A turn *)

\* The turn ends without a connection, or has given it back.
End(t) ==
  /\ GoTo(t, "idle")
  /\ key' = [key EXCEPT ![t] = Nothing]
  /\ conv' = [conv EXCEPT ![t] = NoConv]
  /\ left' = [left EXCEPT ![t] = FALSE]

\* dialConnection takes the key from the generation of this moment.
Begin(t, a, v) ==
  /\ pc[t] = "idle"
  /\ watcher[t] = "none"
  /\ key' = [key EXCEPT ![t] = [account |-> a, gen |-> generation]]
  /\ conv' = [conv EXCEPT ![t] = v]
  /\ GoTo(t, "take")
  /\ UNCHANGED <<routing, conns, pool, conn, reusable, left, watchVars, warmVars>>

\* ctx.Err() at the start of the goroutine.
Abandon(t) ==
  /\ pc[t] = "take"
  /\ Cancelled(t)
  /\ End(t)
  /\ UNCHANGED <<routing, conns, pool, conn, reusable, watchVars, warmVars>>

\* Mutant: take returns the connection without removing it from the list.
TakeShared(t) ==
  /\ pc[t] = "take"
  /\ Fresh(key[t])
  /\ Attach(t, Last(pool[key[t]]))
  /\ UNCHANGED <<routing, conns, pool, key, conv, reusable, left, warmVars>>

\* take: the connection that was returned last, if it has not been idle too long.
Take(t) ==
  /\ pc[t] = "take"
  /\ Fresh(key[t])
  /\ pool' = [pool EXCEPT ![key[t]] = Front(@)]
  /\ Attach(t, Last(pool[key[t]]))
  /\ UNCHANGED <<routing, conns, key, conv, reusable, left, warmVars>>

\* When it has, so have those below it: all are closed.
TakeNothing(t) ==
  /\ pc[t] = "take"
  /\ ~Fresh(key[t])
  /\ conns' = Discarded(Range(pool[key[t]]))
  /\ pool' = [pool EXCEPT ![key[t]] = <<>>]
  /\ GoTo(t, "dial")
  /\ UNCHANGED <<routing, key, conv, conn, reusable, left, watchVars, warmVars>>

Dial(t) ==
  /\ pc[t] = "dial"
  /\ Dialable
  /\ \E c \in ConnId :
       /\ Unused(c)
       /\ conns' = [conns EXCEPT ![c] = Opened(key[t], conv[t])]
       /\ Attach(t, c)
  /\ UNCHANGED <<routing, pool, key, conv, reusable, left, warmVars>>

\* The error is reported unless the context is cancelled.
DialFails(t) ==
  /\ pc[t] = "dial"
  /\ GoTo(t, IF Cancelled(t) THEN "return" ELSE "last")
  /\ UNCHANGED <<routing, conns, pool, key, conv, conn, reusable, left, watchVars, warmVars>>

\* The payload is written, which fails on a connection that was closed.
Send(t) ==
  /\ pc[t] = "send"
  /\ \/ conns[conn[t]].open /\ GoTo(t, "receive")
     \/ GoTo(t, "last")
  /\ UNCHANGED <<routing, conns, pool, key, conv, conn, reusable, left, watchVars, warmVars>>

\* An update with a piece of the answer.  What has arrived can be read even when
\* the connection has been closed since.
ReceiveChunk(t) ==
  /\ pc[t] = "receive"
  /\ GoTo(t, "emit")
  /\ UNCHANGED <<routing, conns, pool, key, conv, conn, reusable, left, watchVars, warmVars>>

\* The record of type 3 ends the answer, empty or not.
Complete(t) ==
  /\ pc[t] = "receive"
  /\ reusable' = [reusable EXCEPT ![t] = TRUE]
  /\ GoTo(t, "last")
  /\ UNCHANGED <<routing, conns, pool, key, conv, conn, left, watchVars, warmVars>>

\* A read error, the read deadline, or a record that reports a failure.
ReceiveFails(t) ==
  /\ pc[t] = "receive"
  /\ GoTo(t, IF Cancelled(t) THEN "release" ELSE "last")
  /\ UNCHANGED <<routing, conns, pool, key, conv, conn, reusable, left, watchVars, warmVars>>

\* emit: the reader receives from the unbuffered channel - until its client is
\* gone, when it stops reading unless its context is cancelled as well.
Deliver(t) ==
  /\ pc[t] \in {"emit", "last"}
  /\ ~left[t] \/ t \in Cancellable
  /\ GoTo(t, IF pc[t] = "emit" THEN "receive" ELSE "release")
  /\ UNCHANGED <<routing, conns, pool, key, conv, conn, reusable, left, watchVars, warmVars>>

\* Mutant: the turn does not notice that emit gave up, and emits again.
DropNever(t) ==
  /\ pc[t] \in {"emit", "last"}
  /\ Cancelled(t)
  /\ GoTo(t, "emit")
  /\ UNCHANGED <<routing, conns, pool, key, conv, conn, reusable, left, watchVars, warmVars>>

\* emit gives up because of ctx.Done().
Drop(t) ==
  /\ pc[t] \in {"emit", "last"}
  /\ Cancelled(t)
  /\ GoTo(t, "release")
  /\ UNCHANGED <<routing, conns, pool, key, conv, conn, reusable, left, watchVars, warmVars>>

\* The deferred functions, last one first: the watcher is told to stop ...
Unwatch(t) ==
  /\ pc[t] = "release"
  /\ watcher' = [watcher EXCEPT ![t] = IF @ = "watching" THEN "none" ELSE @]
  /\ watched' = [watched EXCEPT ![t] = IF watcher[t] = "watching" THEN 0 ELSE @]
  /\ GoTo(t, "return")
  /\ UNCHANGED <<routing, conns, pool, key, conv, conn, reusable, left, warmVars>>

\* ... and the connection, if there is one, is put back or discarded.
Return(t) ==
  /\ pc[t] = "return"
  /\ IF conn[t] = 0 THEN UNCHANGED <<conns, pool>>
     ELSE IF reusable[t] THEN Put(key[t], conn[t])
     ELSE conns' = Discarded({conn[t]}) /\ UNCHANGED pool
  /\ conn' = [conn EXCEPT ![t] = 0]
  /\ reusable' = [reusable EXCEPT ![t] = FALSE]
  /\ End(t)
  /\ UNCHANGED <<routing, watchVars, warmVars>>

-----------------------------------------------------------------------------
(* The surroundings of a turn *)

\* The client goes away: the handler stops reading, and the context of a
\* cancellable turn is cancelled, which its watcher is waiting for.
Disconnect(t) ==
  /\ pc[t] # "idle"
  /\ ~left[t]
  /\ left' = [left EXCEPT ![t] = TRUE]
  /\ watcher' = [watcher EXCEPT ![t] = IF @ = "watching" /\ t \in Cancellable THEN "closing" ELSE @]
  /\ UNCHANGED <<routing, conns, pool, pc, key, conv, conn, reusable, watched, warmVars>>

\* The watcher, woken by ctx.Done(), comes to close the connection.
WatcherCloses(t) ==
  /\ watcher[t] = "closing"
  /\ conns' = [conns EXCEPT ![watched[t]].open = FALSE]
  /\ watcher' = [watcher EXCEPT ![t] = "none"]
  /\ watched' = [watched EXCEPT ![t] = 0]
  /\ UNCHANGED <<routing, pool, turnVars, warmVars>>

\* Prewarm of one account after the other; each has the key to count by.
PrewarmBegin(a) ==
  /\ warmKey = Nothing
  /\ cold' = cold \ {a}
  /\ warmKey' = [account |-> a, gen |-> generation]
  /\ UNCHANGED <<routing, conns, pool, turnVars, watchVars, warming>>

\* The pool is not full: dial.  The key to put by is made anew before the
\* dialing, at some generation since the beginning.
PrewarmDial ==
  /\ warmKey # Nothing /\ warming = 0
  /\ Len(pool[warmKey]) < MaxPooled
  /\ Dialable
  /\ \E c \in ConnId, g \in warmKey.gen..generation :
       /\ Unused(c)
       /\ conns' = [conns EXCEPT ![c] = Opened([warmKey EXCEPT !.gen = g], Random)]
       /\ warming' = c
  /\ UNCHANGED <<routing, pool, turnVars, watchVars, cold, warmKey>>

PrewarmPut ==
  /\ warming # 0
  /\ Put(conns[warming].key, warming)
  /\ warming' = 0
  /\ UNCHANGED <<routing, turnVars, watchVars, cold, warmKey>>

\* The pool is full, the dialing failed or the 15 seconds are over; a connection
\* that was dialed too late is discarded.
PrewarmEnd ==
  /\ warmKey # Nothing
  /\ conns' = Discarded({warming})
  /\ warmKey' = Nothing
  /\ warming' = 0
  /\ UNCHANGED <<routing, pool, turnVars, watchVars, cold>>

\* Close, when the server stops.
ClosePool ==
  /\ Pooled # {}
  /\ conns' = Discarded(Pooled)
  /\ pool' = [k \in PoolKey |-> <<>>]
  /\ UNCHANGED <<routing, turnVars, watchVars, warmVars>>

\* outbound.Configure and ConfigurePool, under clientsMu: first the route ...
SwitchRoute ==
  /\ Dialable
  /\ route < MaxGen
  /\ route' = route + 1
  /\ UNCHANGED <<generation, conns, pool, turnVars, watchVars, warmVars>>

\* ... and then the generation.
CountRoute ==
  /\ generation < route
  /\ generation' = generation + 1
  /\ UNCHANGED <<route, conns, pool, turnVars, watchVars, warmVars>>

\* The oldest connection that is not stale yet has been idle for too long.
Age(k) ==
  /\ Fresh(k)
  /\ LET i == SelectInSeq(pool[k], LAMBDA c : ~conns[c].stale)
     IN conns' = [conns EXCEPT ![pool[k][i]].stale = TRUE]
  /\ UNCHANGED <<routing, pool, turnVars, watchVars, warmVars>>

-----------------------------------------------------------------------------
Step(t) ==
  \/ Abandon(t) \/ Take(t) \/ TakeNothing(t) \/ Dial(t) \/ DialFails(t)
  \/ Send(t) \/ ReceiveChunk(t) \/ Complete(t) \/ ReceiveFails(t)
  \/ Deliver(t) \/ Drop(t) \/ Unwatch(t) \/ Return(t)

Next ==
  \/ \E t \in Turn, a \in Account, v \in Conv \cup {NoConv} : Begin(t, a, v)
  \/ \E t \in Turn : Step(t) \/ Disconnect(t) \/ WatcherCloses(t)
  \/ \E a \in cold : PrewarmBegin(a)
  \/ PrewarmDial \/ PrewarmPut \/ PrewarmEnd
  \/ ClosePool \/ SwitchRoute \/ CountRoute
  \/ \E k \in PoolKey : Age(k)

\* Goroutines run, dialing and reading have deadlines, and no answer is endless.
Fairness == \A t \in Turn :
  /\ WF_vars(Step(t))
  /\ SF_vars(Complete(t) \/ ReceiveFails(t))

Spec == Init /\ [][Next]_vars
FairSpec == Spec /\ Fairness

-----------------------------------------------------------------------------
(* Properties *)

TypeOK ==
  /\ route \in 0..MaxGen /\ generation \in 0..MaxGen
  /\ conns \in [ConnId -> Connection]
  /\ pool \in [PoolKey -> Seq(ConnId)] /\ \A k \in PoolKey : Len(pool[k]) <= MaxPooled
  /\ pc \in [Turn -> {"idle", "take", "dial", "send", "receive", "emit", "last",
                      "release", "return"}]
  /\ key \in [Turn -> PoolKey \cup {Nothing}]
  /\ conv \in [Turn -> Conv \cup {NoConv}]
  /\ conn \in [Turn -> 0..NConns]
  /\ reusable \in [Turn -> BOOLEAN]
  /\ left \in [Turn -> BOOLEAN]
  /\ watcher \in [Turn -> {"none", "watching", "closing"}]
  /\ watched \in [Turn -> 0..NConns]
  /\ cold \subseteq Account /\ warmKey \in PoolKey \cup {Nothing} /\ warming \in 0..NConns

\* A connection belongs to one turn, to Prewarm or to one place in the pool:
\* two turns never interleave their records on one WebSocket.
ExclusiveConnection ==
  /\ \A t \in Turn : conn[t] # 0 =>
       /\ conn[t] \notin Pooled \cup {warming}
       /\ \A s \in Turn \ {t} : conn[s] # conn[t]
  /\ warming \notin Pooled
  /\ Cardinality(Pooled) =
       Cardinality({p \in PoolKey \X (1..MaxPooled) : p[2] \in DOMAIN pool[p[1]]})

\* outbound/proxy.go:37-39: connections opened through an old proxy are never
\* reused after a route switch.  The connection of a turn was dialed for its
\* account, through the route that was in force when the turn took its key or a
\* later one - although routes change between the key and the dialing.
NoStaleRoute ==
  \A t \in Turn : conn[t] # 0 =>
    conns[conn[t]].key.account = key[t].account /\ conns[conn[t]].via >= key[t].gen

\* A connection that neither a turn nor the pool nor Prewarm has is closed: none
\* is left open with nobody to close it.
NothingLeaks == \A c \in ConnId : Free(c) => ~conns[c].open

\* Every turn ends and gives its connection back: when the answer ends, when the
\* connection fails, or when a cancellable turn's client goes away (client.go:511).
\* The others may hang on a reader that is gone.
EveryTurnEnds ==
  \A t \in Turn : pc[t] # "idle" ~> pc[t] = "idle" \/ (t \notin Cancellable /\ left[t])

\* README.md:279: each session corresponds to an independent M365 conversation.
\* A turn is sent over a connection that was dialed for its conversation.
TurnReachesItsConversation ==
  \A t \in Turn : pc[t] = "receive" => conns[conn[t]].conv = conv[t]

\* CHANGELOG.md:36: failed, timed-out, or cancelled connections are discarded and
\* not returned to the pool.  No pooled connection is one that we have closed.
PooledIsNotClosed == \A c \in Pooled : conns[c].open
=============================================================================
