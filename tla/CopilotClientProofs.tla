------------------------- MODULE CopilotClientProofs -------------------------
(***************************************************************************)
(* Theorems about CopilotClient, for any number of turns, accounts,        *)
(* conversations, connections and changes of the route: every connection   *)
(* has one owner, none is left open without one, and a turn's connection   *)
(* was dialed for its account through a route at least as new as its key.  *)
(***************************************************************************)
EXTENDS CopilotClient, FiniteSetTheorems, TLAPS

\* Where a turn is, what it has, and what its watcher is watching.
Phases == \A t \in Turn :
  /\ pc[t] # "idle" => key[t] \in PoolKey
  /\ conn[t] # 0 => pc[t] \notin {"idle", "take", "dial"}
  /\ watcher[t] = "none" <=> watched[t] = 0
  /\ watcher[t] = "watching" =>
       watched[t] = conn[t] /\ pc[t] \in {"send", "receive", "emit", "last", "release"}
  /\ pc[t] \in {"take", "dial"} => watcher[t] = "none"

\* The places of the pool.
Place(k) == 1..Len(pool[k])

\* ExclusiveConnection, place by place.
OneOwner ==
  /\ \A k, l \in PoolKey : \A i \in Place(k), j \in Place(l) : pool[k][i] = pool[l][j] => k = l /\ i = j
  /\ \A t \in Turn : conn[t] # 0 =>
       /\ conn[t] # warming
       /\ \A s \in Turn : conn[s] = conn[t] => s = t
       /\ \A k \in PoolKey : \A i \in Place(k) : pool[k][i] # conn[t]
  /\ warming # 0 => \A k \in PoolKey : \A i \in Place(k) : pool[k][i] # warming

\* Connection c may be used under key k.
For(c, k) == conns[c].key.account = k.account /\ conns[c].via >= k.gen

\* NoStaleRoute, with the connections in the pool and the one being prewarmed.
Keyed ==
  /\ generation <= route
  /\ \A t \in Turn : pc[t] # "idle" => key[t].gen <= generation
  /\ \A t \in Turn : conn[t] # 0 => For(conn[t], key[t])
  /\ \A k \in PoolKey : \A i \in Place(k) : For(pool[k][i], k)
  /\ warming # 0 => conns[warming].key \in PoolKey /\ For(warming, conns[warming].key)

\* The inductive invariant.
IInv == TypeOK /\ Phases /\ OneOwner /\ Keyed /\ NothingLeaks

-----------------------------------------------------------------------------
(* What is done to connections and to the pool *)

\* A connection is pooled when it has a place.
LEMMA PooledPlace ==
  ASSUME TypeOK, NEW c
  PROVE  c \in Pooled <=> \E k \in PoolKey : \E i \in Place(k) : pool[k][i] = c
<1>1. \A k \in PoolKey : DOMAIN pool[k] = Place(k)
  BY DEF TypeOK, Place
<1> QED
  BY <1>1 DEF Pooled, Range

\* What Free says, of turns and places.
LEMMA FreePlace ==
  ASSUME TypeOK, NEW c
  PROVE  Free(c) <=> /\ c # warming
                     /\ \A t \in Turn : conn[t] # c /\ watched[t] # c
                     /\ \A k \in PoolKey : \A i \in Place(k) : pool[k][i] # c
<1>1. DOMAIN conn = Turn /\ DOMAIN watched = Turn
  BY DEF TypeOK
<1> QED
  BY <1>1, PooledPlace DEF Free, Range

\* The same of the next state.
LEMMA FreePlaceNext ==
  ASSUME TypeOK', NEW c
  PROVE  Free(c)' <=> /\ c # warming'
                      /\ \A t \in Turn : conn'[t] # c /\ watched'[t] # c
                      /\ \A k \in PoolKey : \A i \in Place(k)' : pool'[k][i] # c
<1>1. DOMAIN conn' = Turn /\ DOMAIN watched' = Turn /\ \A k \in PoolKey : DOMAIN pool'[k] = Place(k)'
  BY DEF TypeOK, Place
<1>2. c \in Pooled' <=> \E k \in PoolKey : \E i \in Place(k)' : pool'[k][i] = c
  BY <1>1 DEF Pooled, Range
<1> QED
  BY <1>1, <1>2 DEF Free, Range

\* Discarding.
LEMMA DiscardedType ==
  ASSUME TypeOK, NEW S
  PROVE  /\ Discarded(S) \in [ConnId -> Connection]
         /\ \A c \in ConnId : Discarded(S)[c] = IF c \in S THEN NoConnection ELSE conns[c]
BY BoundsAssumption DEF TypeOK, Discarded, Connection, NoConnection

\* Dialing.
LEMMA OpenedType ==
  ASSUME TypeOK, NEW k \in PoolKey, NEW v \in Conv \cup {NoConv, Random}
  PROVE  Opened(k, v) \in Connection /\ Opened(k, v).key = k /\ Opened(k, v).via = route
BY DEF TypeOK, Opened, Connection

\* A change of flags.
LEMMA FlagType ==
  ASSUME TypeOK, NEW c, NEW b \in BOOLEAN
  PROVE  /\ [conns EXCEPT ![c].stale = b] \in [ConnId -> Connection]
         /\ [conns EXCEPT ![c].open = b] \in [ConnId -> Connection]
         /\ \A d \in ConnId :
              /\ [conns EXCEPT ![c].stale = b][d].key = conns[d].key
              /\ [conns EXCEPT ![c].stale = b][d].via = conns[d].via
              /\ [conns EXCEPT ![c].stale = b][d].open = conns[d].open
              /\ [conns EXCEPT ![c].open = b][d].key = conns[d].key
              /\ [conns EXCEPT ![c].open = b][d].via = conns[d].via
              /\ [conns EXCEPT ![c].open = b][d].open = IF c = d THEN b ELSE conns[d].open
<1>1. \A d \in ConnId : conns[d] \in Connection
  BY DEF TypeOK
<1>2. CASE c \in ConnId
  <2>1. [conns[c] EXCEPT !.stale = b] \in Connection /\ [conns[c] EXCEPT !.open = b] \in Connection
    BY <1>1, <1>2 DEF Connection
  <2>2. \A d \in ConnId : /\ [conns EXCEPT ![c].stale = b][d] =
                              IF c = d THEN [conns[c] EXCEPT !.stale = b] ELSE conns[d]
                         /\ [conns EXCEPT ![c].open = b][d] =
                              IF c = d THEN [conns[c] EXCEPT !.open = b] ELSE conns[d]
    BY <1>2 DEF TypeOK
  <2> QED
    BY <1>1, <2>1, <2>2 DEF TypeOK, Connection
<1>3. CASE c \notin ConnId
  BY <1>1, <1>3 DEF TypeOK
<1> QED
  BY <1>2, <1>3

\* put: a full pool discards the connection, another one gets a place more.
LEMMA PutEffect ==
  ASSUME TypeOK, NEW k \in PoolKey, NEW c \in ConnId, Put(k, c)
  PROVE  /\ conns' \in [ConnId -> Connection]
         /\ pool' \in [PoolKey -> Seq(ConnId)]
         /\ \A l \in PoolKey : Len(pool'[l]) <= MaxPooled
         /\ \A d \in ConnId : d # c => conns'[d] = conns[d]
         /\ \/ pool' = pool /\ conns'[c] = NoConnection
            \/ /\ conns'[c].key = conns[c].key /\ conns'[c].via = conns[c].via
               /\ \A l \in PoolKey : l # k => pool'[l] = pool[l]
               /\ Len(pool'[k]) = Len(pool[k]) + 1
               /\ pool'[k][Len(pool[k]) + 1] = c
               /\ \A i \in Place(k) : pool'[k][i] = pool[k][i]
<1>1. CASE Len(pool[k]) < MaxPooled
  <2>1. /\ pool' = [pool EXCEPT ![k] = Append(pool[k], c)]
        /\ conns' = [conns EXCEPT ![c].stale = FALSE]
    BY <1>1 DEF Put
  <2>2. pool[k] \in Seq(ConnId) /\ \A l \in PoolKey : pool[l] \in Seq(ConnId) /\ Len(pool[l]) <= MaxPooled
    BY DEF TypeOK
  <2>3. /\ Append(pool[k], c) \in Seq(ConnId) /\ Len(Append(pool[k], c)) = Len(pool[k]) + 1
        /\ Append(pool[k], c)[Len(pool[k]) + 1] = c
        /\ \A i \in Place(k) : Append(pool[k], c)[i] = pool[k][i]
    BY <2>2 DEF Place
  <2>4. pool'[k] = Append(pool[k], c) /\ \A l \in PoolKey : l # k => pool'[l] = pool[l]
    BY <2>1 DEF TypeOK
  <2>5. pool' \in [PoolKey -> Seq(ConnId)]
    BY <2>1, <2>3 DEF TypeOK
  <2>6. \A l \in PoolKey : Len(pool'[l]) <= MaxPooled
    BY <1>1, <2>2, <2>3, <2>4, BoundsAssumption
  <2>7. /\ conns' \in [ConnId -> Connection]
        /\ conns'[c].key = conns[c].key /\ conns'[c].via = conns[c].via
    BY <2>1 DEF TypeOK, Connection
  <2>8. \A d \in ConnId : d # c => conns'[d] = conns[d]
    BY <2>1 DEF TypeOK
  <2> QED
    BY <2>3, <2>4, <2>5, <2>6, <2>7, <2>8
<1>2. CASE ~(Len(pool[k]) < MaxPooled)
  BY <1>2, DiscardedType DEF Put, TypeOK
<1> QED
  BY <1>1, <1>2

-----------------------------------------------------------------------------
(* Every step keeps the invariant *)

\* Initially there is no connection at all.
LEMMA InitInv == Init => IInv
<1> SUFFICES ASSUME Init PROVE IInv
  OBVIOUS
<1>1. /\ \A k \in PoolKey : pool[k] = <<>> /\ Place(k) = {}
      /\ \A t \in Turn : conn[t] = 0 /\ watched[t] = 0
      /\ \A c \in ConnId : conns[c] = NoConnection
  BY DEF Init, Place
<1>2. TypeOK
  <2>1. conns \in [ConnId -> Connection]
    BY BoundsAssumption DEF Init, Connection, NoConnection
  <2>2. pool \in [PoolKey -> Seq(ConnId)] /\ \A k \in PoolKey : Len(pool[k]) <= MaxPooled
    BY BoundsAssumption DEF Init
  <2> QED
    BY <2>1, <2>2, BoundsAssumption DEF Init, TypeOK
<1>3. Phases
  BY DEF Init, Phases
<1>4. OneOwner
  BY <1>1 DEF Init, OneOwner
<1>5. Keyed
  BY <1>1 DEF Init, Keyed
<1>6. NothingLeaks
  BY <1>1 DEF NothingLeaks, NoConnection
<1> QED
  BY <1>2, <1>3, <1>4, <1>5, <1>6 DEF IInv

\* The locals of a turn that a step on the turn's own changes.
LEMMA LocalType ==
  ASSUME TypeOK, UNCHANGED <<routing, conns, pool, key, conv, conn, left, watchVars, warmVars>>,
         NEW t \in Turn,
         NEW l \in {"idle", "take", "dial", "send", "receive", "emit", "last", "release", "return"},
         GoTo(t, l), reusable' \in [Turn -> BOOLEAN]
  PROVE  TypeOK'
BY DEF TypeOK, GoTo, routing, watchVars, warmVars

\* The steps of a turn that neither take nor give back anything.
Local(t) ==
  \/ DialFails(t) \/ Send(t) \/ ReceiveChunk(t) \/ Complete(t) \/ ReceiveFails(t)
  \/ Deliver(t) \/ Drop(t)

\* What they do.
LEMMA LocalStep ==
  ASSUME TypeOK, NEW t \in Turn, Local(t)
  PROVE  /\ UNCHANGED <<routing, conns, pool, key, conv, conn, left, watchVars, warmVars>>
         /\ pc[t] \in {"dial", "send", "receive", "emit", "last"}
         /\ pc'[t] \in {"receive", "emit", "last", "release", "return"}
         /\ pc'[t] = "return" => pc[t] = "dial"
         /\ \A s \in Turn : s # t => pc'[s] = pc[s]
         /\ TypeOK'
<1>1. /\ UNCHANGED <<routing, conns, pool, key, conv, conn, left, watchVars, warmVars>>
      /\ pc[t] \in {"dial", "send", "receive", "emit", "last"}
      /\ reusable' \in [Turn -> BOOLEAN]
  BY DEF Local, DialFails, Send, ReceiveChunk, Complete, ReceiveFails, Deliver, Drop, TypeOK
<1>2. PICK l \in {"receive", "emit", "last", "release", "return"} :
        GoTo(t, l) /\ (l = "return" => pc[t] = "dial")
  BY DEF Local, DialFails, Send, ReceiveChunk, Complete, ReceiveFails, Deliver, Drop
<1>3. TypeOK'
  BY <1>1, <1>2, LocalType
<1> QED
  BY <1>1, <1>2, <1>3 DEF GoTo, TypeOK

\* A turn has got connection c.
LEMMA AttachType ==
  ASSUME TypeOK, NEW t \in Turn, NEW c \in ConnId, Attach(t, c)
  PROVE  /\ conn' \in [Turn -> 0..NConns] /\ watched' \in [Turn -> 0..NConns]
         /\ watcher' \in [Turn -> {"none", "watching", "closing"}]
         /\ pc' \in [Turn -> {"idle", "take", "dial", "send", "receive", "emit", "last",
                              "release", "return"}]
         /\ conn'[t] = c /\ watched'[t] = c /\ watcher'[t] # "none" /\ pc'[t] = "send"
         /\ \A s \in Turn : s # t => /\ conn'[s] = conn[s] /\ watched'[s] = watched[s]
                                     /\ watcher'[s] = watcher[s] /\ pc'[s] = pc[s]
         /\ c # 0
BY BoundsAssumption DEF TypeOK, Attach, GoTo, ConnId

\* take shortens one list.
LEMMA TakeEffect ==
  ASSUME TypeOK, NEW t \in Turn, key[t] \in PoolKey, Take(t)
  PROVE  LET k == key[t]
         IN /\ Len(pool[k]) \in Nat \ {0}
            /\ pool[k][Len(pool[k])] \in ConnId /\ Attach(t, pool[k][Len(pool[k])])
            /\ pool' \in [PoolKey -> Seq(ConnId)]
            /\ \A l \in PoolKey : Len(pool'[l]) <= MaxPooled
            /\ Len(pool'[k]) = Len(pool[k]) - 1
            /\ \A i \in 1..(Len(pool[k]) - 1) : pool'[k][i] = pool[k][i]
            /\ \A l \in PoolKey : l # k => pool'[l] = pool[l]
<1> DEFINE k == key[t]
<1>1. pool[k] \in Seq(ConnId) /\ pool[k] # <<>> /\ Len(pool[k]) <= MaxPooled
  BY DEF TypeOK, Take, Fresh
<1>2. Len(pool[k]) \in Nat \ {0} /\ pool[k][Len(pool[k])] \in ConnId
  BY <1>1
<1>3. pool' = [pool EXCEPT ![k] = Front(pool[k])] /\ Attach(t, pool[k][Len(pool[k])])
  BY DEF Take, Last
<1>4. /\ Front(pool[k]) \in Seq(ConnId) /\ Len(Front(pool[k])) = Len(pool[k]) - 1
      /\ \A i \in 1..(Len(pool[k]) - 1) : Front(pool[k])[i] = pool[k][i]
  BY <1>1, <1>2 DEF Front
<1>5. pool'[k] = Front(pool[k]) /\ \A l \in PoolKey : l # k => pool'[l] = pool[l]
  BY <1>3 DEF TypeOK
<1>6. pool' \in [PoolKey -> Seq(ConnId)]
  BY <1>3, <1>4 DEF TypeOK
<1>7. \A l \in PoolKey : Len(pool'[l]) <= MaxPooled
  <2>1. Len(pool'[k]) <= MaxPooled
    BY <1>1, <1>2, <1>4, <1>5, BoundsAssumption
  <2>2. ASSUME NEW l \in PoolKey, l # k PROVE Len(pool'[l]) <= MaxPooled
    BY <1>5, <2>2 DEF TypeOK
  <2> QED
    BY <2>1, <2>2
<1> QED
  BY <1>2, <1>3, <1>4, <1>5, <1>6, <1>7

\* Return gives the connection back or discards it.
LEMMA ReturnType ==
  ASSUME TypeOK, Phases, NEW t \in Turn, Return(t)
  PROVE  /\ conns' \in [ConnId -> Connection] /\ pool' \in [PoolKey -> Seq(ConnId)]
         /\ \A k \in PoolKey : Len(pool'[k]) <= MaxPooled
<1>1. key[t] \in PoolKey
  BY DEF Phases, Return
<1>2. conn[t] # 0 => conn[t] \in ConnId
  BY BoundsAssumption DEF TypeOK, ConnId
<1> QED
  BY <1>1, <1>2, PutEffect, DiscardedType DEF Return, TypeOK

\* Every step leaves the state well typed.
LEMMA StepType ==
  ASSUME IInv, [Next]_vars
  PROVE  TypeOK'
<1>0. TypeOK /\ Phases /\ OneOwner /\ Keyed
  BY DEF IInv
<1> USE <1>0, BoundsAssumption DEF routing, turnVars, watchVars, warmVars
<1>1. ASSUME NEW t \in Turn, NEW a \in Account, NEW v \in Conv \cup {NoConv}, Begin(t, a, v)
      PROVE  TypeOK'
  <2>1. [account |-> a, gen |-> generation] \in PoolKey
    BY DEF TypeOK, PoolKey
  <2> QED
    BY <1>1, <2>1 DEF Begin, GoTo, TypeOK
<1>2. ASSUME NEW t \in Turn, Abandon(t) PROVE TypeOK'
  BY <1>2 DEF Abandon, End, GoTo, TypeOK
<1>3. ASSUME NEW t \in Turn, Take(t) PROVE TypeOK'
  <2>1. key[t] \in PoolKey
    BY <1>3 DEF Take, Phases
  <2> QED
    BY <1>3, <2>1, TakeEffect, AttachType DEF Take, TypeOK
<1>4. ASSUME NEW t \in Turn, TakeNothing(t) PROVE TypeOK'
  <2>1. conns' \in [ConnId -> Connection]
    BY <1>4, DiscardedType DEF TakeNothing
  <2>2. pool' \in [PoolKey -> Seq(ConnId)] /\ \A k \in PoolKey : Len(pool'[k]) <= MaxPooled
    <3>1. <<>> \in Seq(ConnId) /\ Len(<<>>) <= MaxPooled
      OBVIOUS
    <3> QED
      BY <1>4, <3>1 DEF TakeNothing, TypeOK
  <2> QED
    BY <1>4, <2>1, <2>2 DEF TakeNothing, GoTo, TypeOK
<1>5. ASSUME NEW t \in Turn, Dial(t) PROVE TypeOK'
  <2>1. key[t] \in PoolKey /\ conv[t] \in Conv \cup {NoConv, Random}
    BY <1>5 DEF Dial, Phases, TypeOK
  <2>2. PICK c \in ConnId : conns' = [conns EXCEPT ![c] = Opened(key[t], conv[t])] /\ Attach(t, c)
    BY <1>5 DEF Dial
  <2>3. conns' \in [ConnId -> Connection]
    BY <2>1, <2>2, OpenedType DEF TypeOK
  <2> QED
    BY <1>5, <2>2, <2>3, AttachType DEF Dial, TypeOK
<1>6. ASSUME NEW t \in Turn, Local(t) PROVE TypeOK'
  BY <1>6, LocalStep
<1>7. ASSUME NEW t \in Turn, Unwatch(t) PROVE TypeOK'
  BY <1>7 DEF Unwatch, GoTo, TypeOK
<1>8. ASSUME NEW t \in Turn, Return(t) PROVE TypeOK'
  <2>1. /\ conn' \in [Turn -> 0..NConns] /\ reusable' \in [Turn -> BOOLEAN]
        /\ key' \in [Turn -> PoolKey \cup {Nothing}] /\ conv' \in [Turn -> Conv \cup {NoConv}]
        /\ left' \in [Turn -> BOOLEAN]
        /\ pc' \in [Turn -> {"idle", "take", "dial", "send", "receive", "emit", "last",
                             "release", "return"}]
    BY <1>8 DEF Return, End, GoTo, TypeOK
  <2>2. UNCHANGED <<routing, watchVars, warmVars>>
    BY <1>8 DEF Return
  <2> QED
    BY <1>8, <2>1, <2>2, ReturnType DEF TypeOK
<1>9. ASSUME NEW t \in Turn, Disconnect(t) PROVE TypeOK'
  BY <1>9 DEF Disconnect, TypeOK
<1>10. ASSUME NEW t \in Turn, WatcherCloses(t) PROVE TypeOK'
  <2>1. conns' \in [ConnId -> Connection]
    BY <1>10, FlagType DEF WatcherCloses
  <2> QED
    BY <1>10, <2>1 DEF WatcherCloses, TypeOK
<1>11. ASSUME NEW a \in cold, PrewarmBegin(a) PROVE TypeOK'
  <2>1. [account |-> a, gen |-> generation] \in PoolKey
    BY DEF TypeOK, PoolKey
  <2> QED
    BY <1>11, <2>1 DEF PrewarmBegin, TypeOK
<1>12. CASE PrewarmDial
  <2>1. PICK c \in ConnId, g \in warmKey.gen..generation :
          conns' = [conns EXCEPT ![c] = Opened([warmKey EXCEPT !.gen = g], Random)] /\ warming' = c
    BY <1>12 DEF PrewarmDial
  <2>2. [warmKey EXCEPT !.gen = g] \in PoolKey
    <3>1. warmKey \in PoolKey /\ generation \in 0..MaxGen
      BY <1>12 DEF PrewarmDial, TypeOK
    <3>2. warmKey.gen \in 0..MaxGen
      BY <3>1 DEF PoolKey
    <3>3. g \in 0..MaxGen
      BY <3>1, <3>2
    <3> QED
      BY <3>1, <3>3 DEF PoolKey
  <2>3. conns' \in [ConnId -> Connection] /\ warming' \in 0..NConns
    BY <2>1, <2>2, OpenedType DEF TypeOK, ConnId
  <2> QED
    BY <1>12, <2>3 DEF PrewarmDial, TypeOK
<1>13. CASE PrewarmPut
  <2>1. warming \in ConnId /\ conns[warming].key \in PoolKey
    BY <1>13 DEF PrewarmPut, Keyed, TypeOK, ConnId
  <2> QED
    BY <1>13, <2>1, PutEffect DEF PrewarmPut, TypeOK
<1>14. CASE PrewarmEnd
  BY <1>14, DiscardedType DEF PrewarmEnd, TypeOK
<1>15. CASE ClosePool
  <2>1. pool' \in [PoolKey -> Seq(ConnId)] /\ \A k \in PoolKey : Len(pool'[k]) <= MaxPooled
    BY <1>15 DEF ClosePool
  <2> QED
    BY <1>15, <2>1, DiscardedType DEF ClosePool, TypeOK
<1>16. CASE SwitchRoute \/ CountRoute
  BY <1>16 DEF SwitchRoute, CountRoute, TypeOK
<1>17. ASSUME NEW k \in PoolKey, Age(k) PROVE TypeOK'
  <2>1. PICK c : conns' = [conns EXCEPT ![c].stale = TRUE]
    BY <1>17 DEF Age
  <2>2. conns' \in [ConnId -> Connection]
    BY <2>1, FlagType
  <2> QED
    BY <1>17, <2>2 DEF Age, TypeOK
<1>18. CASE UNCHANGED vars
  BY <1>18 DEF vars, TypeOK
<1> QED
  BY <1>1, <1>2, <1>3, <1>4, <1>5, <1>6, <1>7, <1>8, <1>9, <1>10, <1>11, <1>12, <1>13, <1>14,
     <1>15, <1>16, <1>17, <1>18
  DEF Next, Step, Local

\* Every step leaves watchers and keys as the turn's place tells.
LEMMA StepPhases ==
  ASSUME IInv, [Next]_vars
  PROVE  Phases'
<1>0. TypeOK /\ Phases
  BY DEF IInv
<1> USE <1>0 DEF routing, turnVars, watchVars, warmVars
<1>1. ASSUME NEW t \in Turn, NEW a \in Account, NEW v \in Conv \cup {NoConv}, Begin(t, a, v)
      PROVE  Phases'
  <2>1. [account |-> a, gen |-> generation] \in PoolKey
    BY DEF TypeOK, PoolKey
  <2>2. /\ pc[t] = "idle" /\ pc'[t] = "take" /\ key'[t] \in PoolKey /\ watcher[t] = "none"
        /\ UNCHANGED <<conn, watchVars>>
        /\ \A s \in Turn : s # t => pc'[s] = pc[s] /\ key'[s] = key[s]
    BY <1>1, <2>1 DEF Begin, GoTo, TypeOK
  <2> QED
    BY <2>2 DEF Phases
<1>2. ASSUME NEW t \in Turn, Abandon(t) PROVE Phases'
  <2>1. /\ pc[t] = "take" /\ pc'[t] = "idle" /\ UNCHANGED <<conn, watchVars>>
        /\ \A s \in Turn : s # t => pc'[s] = pc[s] /\ key'[s] = key[s]
    BY <1>2 DEF Abandon, End, GoTo, TypeOK
  <2> QED
    BY <2>1 DEF Phases
<1>3. ASSUME NEW t \in Turn, NEW c \in ConnId, Attach(t, c), pc[t] \in {"take", "dial"}, UNCHANGED key
      PROVE  Phases'
  BY <1>3, AttachType DEF Phases
<1>4. ASSUME NEW t \in Turn, Take(t) PROVE Phases'
  <2>1. key[t] \in PoolKey
    BY <1>4 DEF Take, Phases
  <2> QED
    BY <1>3, <1>4, <2>1, TakeEffect DEF Take
<1>5. ASSUME NEW t \in Turn, Dial(t) PROVE Phases'
  BY <1>3, <1>5 DEF Dial
<1>6. ASSUME NEW t \in Turn, TakeNothing(t) PROVE Phases'
  BY <1>6 DEF TakeNothing, GoTo, Phases, TypeOK
<1>7. ASSUME NEW t \in Turn, Local(t) PROVE Phases'
  BY <1>7, LocalStep DEF Phases
<1>8. ASSUME NEW t \in Turn, Unwatch(t) PROVE Phases'
  <2>1. /\ pc[t] = "release" /\ pc'[t] = "return" /\ UNCHANGED <<key, conn>>
        /\ watcher'[t] # "watching" /\ (watcher'[t] = "none" <=> watched'[t] = 0)
        /\ \A s \in Turn : s # t => /\ pc'[s] = pc[s] /\ watcher'[s] = watcher[s]
                                    /\ watched'[s] = watched[s]
    BY <1>8 DEF Unwatch, GoTo, TypeOK, Phases
  <2> QED
    BY <2>1 DEF Phases
<1>9. ASSUME NEW t \in Turn, Return(t) PROVE Phases'
  <2>1. /\ pc[t] = "return" /\ pc'[t] = "idle" /\ conn'[t] = 0 /\ UNCHANGED watchVars
        /\ \A s \in Turn : s # t => pc'[s] = pc[s] /\ key'[s] = key[s] /\ conn'[s] = conn[s]
    BY <1>9 DEF Return, End, GoTo, TypeOK
  <2> QED
    BY <2>1 DEF Phases
<1>10. ASSUME NEW t \in Turn, Disconnect(t) PROVE Phases'
  <2>1. /\ UNCHANGED <<pc, key, conn, watched>>
        /\ \A s \in Turn : watcher'[s] = watcher[s] \/ (watcher[s] = "watching" /\ watcher'[s] = "closing")
    BY <1>10 DEF Disconnect, TypeOK
  <2> QED
    BY <2>1 DEF Phases
<1>11. ASSUME NEW t \in Turn, WatcherCloses(t) PROVE Phases'
  BY <1>11 DEF WatcherCloses, Phases, TypeOK
<1>12. ASSUME UNCHANGED <<pc, key, conn, watchVars>> PROVE Phases'
  BY <1>12 DEF Phases
<1> QED
  BY <1>1, <1>2, <1>4, <1>5, <1>6, <1>7, <1>8, <1>9, <1>10, <1>11, <1>12
  DEF Next, Step, Local, PrewarmBegin, PrewarmDial, PrewarmPut, PrewarmEnd, ClosePool, SwitchRoute,
      CountRoute, Age, vars

\* Giving up connections or places leaves the others with their owners.
LEMMA OwnerShrinks ==
  ASSUME OneOwner, warming' \in {warming, 0}, \A t \in Turn : conn'[t] \in {conn[t], 0},
         \A k \in PoolKey : \A i \in Place(k)' : i \in Place(k) /\ pool'[k][i] = pool[k][i]
  PROVE  OneOwner'
BY DEF OneOwner

\* A connection that nobody else has goes to a turn ...
LEMMA OwnerTurn ==
  ASSUME TypeOK, OneOwner, NEW t \in Turn, NEW c, conn[t] = 0, c # warming, warming' = warming,
         conn'[t] = c, \A s \in Turn : conn[s] # c, \A s \in Turn : s # t => conn'[s] = conn[s],
         \A k \in PoolKey : \A i \in Place(k)' :
           i \in Place(k) /\ pool'[k][i] = pool[k][i] /\ pool'[k][i] # c
  PROVE  OneOwner'
BY DEF OneOwner

\* ... or to the pool.
LEMMA OwnerPool ==
  ASSUME OneOwner, NEW m \in PoolKey, NEW c \in ConnId,
         warming' \in {warming, 0}, warming' # c,
         \A t \in Turn : conn'[t] \in {conn[t], 0} /\ conn'[t] # c,
         \A k \in PoolKey : \A i \in Place(k) : pool[k][i] # c,
         \A k \in PoolKey : \A i \in Place(k)' :
           \/ i \in Place(k) /\ pool'[k][i] = pool[k][i]
           \/ k = m /\ i = Len(pool[m]) + 1 /\ pool'[k][i] = c
  PROVE  OneOwner'
<1>1. ASSUME NEW k \in PoolKey, NEW l \in PoolKey, NEW i \in Place(k)', NEW j \in Place(l)',
             pool'[k][i] = pool'[l][j]
      PROVE  k = l /\ i = j
  BY <1>1 DEF OneOwner
<1>2. ASSUME NEW t \in Turn, conn'[t] # 0
      PROVE  /\ conn'[t] # warming' /\ \A s \in Turn : conn'[s] = conn'[t] => s = t
             /\ \A k \in PoolKey : \A i \in Place(k)' : pool'[k][i] # conn'[t]
  BY <1>2 DEF OneOwner
<1>3. warming' # 0 => \A k \in PoolKey : \A i \in Place(k)' : pool'[k][i] # warming'
  BY DEF OneOwner
<1> QED
  BY <1>1, <1>2, <1>3 DEF OneOwner

\* The places after put.
LEMMA PutPlaces ==
  ASSUME TypeOK, TypeOK', NEW k \in PoolKey, NEW c \in ConnId, Put(k, c)
  PROVE  \A l \in PoolKey : \A i \in Place(l)' :
           \/ i \in Place(l) /\ pool'[l][i] = pool[l][i]
           \/ /\ l = k /\ i = Len(pool[k]) + 1 /\ pool'[l][i] = c
              /\ conns'[c].key = conns[c].key /\ conns'[c].via = conns[c].via
<1>1. \A l \in PoolKey : Len(pool[l]) \in Nat /\ Len(pool'[l]) \in Nat
  BY DEF TypeOK
<1>2. CASE pool' = pool
  BY <1>2 DEF Place
<1>3. CASE pool' # pool
  BY <1>1, <1>3, PutEffect DEF Place
<1> QED
  BY <1>2, <1>3

\* What put returns has the pool, or nobody, as its owner.
LEMMA OwnerPut ==
  ASSUME TypeOK, TypeOK', OneOwner, NEW k \in PoolKey, NEW c \in ConnId, Put(k, c),
         warming' \in {warming, 0}, warming' # c, \A t \in Turn : conn'[t] \in {conn[t], 0} /\ conn'[t] # c,
         \A l \in PoolKey : \A i \in Place(l) : pool[l][i] # c
  PROVE  OneOwner'
<1>1. \A l \in PoolKey : \A i \in Place(l)' :
        \/ i \in Place(l) /\ pool'[l][i] = pool[l][i]
        \/ l = k /\ i = Len(pool[k]) + 1 /\ pool'[l][i] = c
  BY PutPlaces
<1> QED
  BY <1>1, OwnerPool

\* Every step leaves every connection with one owner.
LEMMA StepOwner ==
  ASSUME IInv, [Next]_vars
  PROVE  OneOwner'
<1>0. TypeOK /\ Phases /\ OneOwner /\ Keyed /\ TypeOK'
  BY StepType DEF IInv
<1>a. /\ \A k \in PoolKey : Len(pool[k]) \in Nat /\ Len(pool'[k]) \in Nat
      /\ \A k \in PoolKey : \A i \in Place(k) : pool[k][i] \in ConnId
  BY <1>0 DEF TypeOK, Place
<1> USE <1>0, <1>a DEF routing, turnVars, watchVars, warmVars
<1>1. ASSUME UNCHANGED <<pool, conn, warming>> PROVE OneOwner'
  BY <1>1 DEF OneOwner, Place
<1>2. ASSUME NEW t \in Turn, Take(t) PROVE OneOwner'
  <2>1. key[t] \in PoolKey /\ conn[t] = 0
    BY <1>2 DEF Take, Phases
  <2>k. PICK k \in PoolKey : k = key[t]
    BY <2>1
  <2>c. PICK c : c = pool[k][Len(pool[k])]
    OBVIOUS
  <2>2. /\ Len(pool[k]) \in Place(k) /\ Attach(t, c) /\ c \in ConnId
        /\ Len(pool'[k]) = Len(pool[k]) - 1
        /\ \A i \in 1..(Len(pool[k]) - 1) : pool'[k][i] = pool[k][i]
        /\ \A l \in PoolKey : l # k => pool'[l] = pool[l]
    BY <1>2, <2>1, <2>k, <2>c, TakeEffect DEF Place
  <2>3. c # warming /\ \A s \in Turn : conn[s] # c
    BY <2>1, <2>2, <2>c, BoundsAssumption DEF OneOwner, ConnId
  <2>4. \A l \in PoolKey : \A i \in Place(l)' :
          i \in Place(l) /\ pool'[l][i] = pool[l][i] /\ pool'[l][i] # c
    <3>1. ASSUME NEW i \in Place(k)'
          PROVE  i \in Place(k) /\ pool'[k][i] = pool[k][i] /\ i # Len(pool[k])
      BY <2>2 DEF Place
    <3>2. ASSUME NEW l \in PoolKey, l # k, NEW i \in Place(l)'
          PROVE  i \in Place(l) /\ pool'[l][i] = pool[l][i]
      BY <2>2, <3>2 DEF Place
    <3> QED
      BY <2>2, <2>c, <3>1, <3>2 DEF OneOwner
  <2>5. conn'[t] = c /\ \A s \in Turn : s # t => conn'[s] = conn[s]
    BY <2>2, AttachType
  <2> QED
    BY <1>2, <2>1, <2>3, <2>4, <2>5, OwnerTurn DEF Take
<1>3. ASSUME NEW t \in Turn, Dial(t) PROVE OneOwner'
  <2>1. PICK c \in ConnId : Free(c) /\ Attach(t, c)
    BY <1>3 DEF Dial, Unused
  <2>2. /\ conn[t] = 0 /\ UNCHANGED <<pool, warming>>
    BY <1>3 DEF Dial, Phases
  <2>3. conn'[t] = c /\ \A s \in Turn : s # t => conn'[s] = conn[s]
    BY <2>1, AttachType
  <2>4. /\ c # warming /\ \A s \in Turn : conn[s] # c
        /\ \A k \in PoolKey : \A i \in Place(k)' : pool[k][i] # c /\ i \in Place(k)
    BY <2>1, <2>2, FreePlace DEF Place
  <2> QED
    BY <2>2, <2>3, <2>4, OwnerTurn
<1>4. ASSUME NEW t \in Turn, TakeNothing(t) PROVE OneOwner'
  <2>1. /\ UNCHANGED <<conn, warming>>
        /\ \A k \in PoolKey : pool'[k] = <<>> \/ pool'[k] = pool[k]
    BY <1>4 DEF TakeNothing, TypeOK
  <2>2. \A k \in PoolKey : \A i \in Place(k)' : i \in Place(k) /\ pool'[k][i] = pool[k][i]
    BY <2>1 DEF Place
  <2> QED
    BY <2>1, <2>2, OwnerShrinks
<1>5. ASSUME NEW t \in Turn, Return(t) PROVE OneOwner'
  <2>1. /\ key[t] \in PoolKey /\ UNCHANGED warming /\ conn[t] \in 0..NConns
        /\ conn'[t] = 0 /\ \A s \in Turn : s # t => conn'[s] = conn[s]
    BY <1>5 DEF Return, Phases, TypeOK
  <2>2. CASE pool' = pool
    <3>1. \A k \in PoolKey : \A i \in Place(k)' : i \in Place(k) /\ pool'[k][i] = pool[k][i]
      BY <2>2 DEF Place
    <3> QED
      BY <2>1, <3>1, OwnerShrinks
  <2>3. CASE conn[t] # 0 /\ Put(key[t], conn[t])
    <3>1. conn[t] \in ConnId
      BY <2>1, <2>3 DEF ConnId
    <3>k. PICK k \in PoolKey : k = key[t]
      BY <2>1
    <3>c. PICK c \in ConnId : c = conn[t]
      BY <3>1
    <3>2. \A s \in Turn : conn'[s] \in {conn[s], 0} /\ conn'[s] # c
      BY <2>1, <2>3, <3>c DEF OneOwner
    <3>3. warming' = warming /\ warming # c /\ \A l \in PoolKey : \A i \in Place(l) : pool[l][i] # c
      BY <2>1, <2>3, <3>c DEF OneOwner
    <3>4. Put(k, c)
      BY <2>3, <3>k, <3>c
    <3> HIDE <1>a
    <3> QED
      BY <3>2, <3>3, <3>4, OwnerPut
  <2> QED
    BY <1>5, <2>2, <2>3 DEF Return
<1>6. CASE PrewarmDial
  <2>1. PICK c \in ConnId : Free(c) /\ warming' = c /\ UNCHANGED <<pool, conn>>
    BY <1>6 DEF PrewarmDial, Unused
  <2> QED
    BY <2>1, FreePlace DEF OneOwner, Place
<1>7. CASE PrewarmPut
  <2>1. warming \in ConnId /\ conns[warming].key \in PoolKey
    BY <1>7 DEF PrewarmPut, Keyed, TypeOK, ConnId
  <2>2. PICK c \in ConnId, k \in PoolKey : c = warming /\ k = conns[warming].key
    BY <2>1
  <2>3. Put(k, c) /\ warming' = 0 /\ warming' # c /\ conn' = conn
    BY <1>7, <2>2 DEF PrewarmPut
  <2>4. /\ \A s \in Turn : conn'[s] # c
        /\ \A l \in PoolKey : \A i \in Place(l) : pool[l][i] # c
    BY <2>2, <2>3 DEF OneOwner
  <2> HIDE <1>a
  <2> QED
    BY <2>3, <2>4, OwnerPut
<1>8. CASE PrewarmEnd
  BY <1>8, OwnerShrinks DEF PrewarmEnd, Place
<1>9. CASE ClosePool
  <2>1. UNCHANGED <<conn, warming>> /\ \A k \in PoolKey : Place(k)' = {}
    BY <1>9 DEF ClosePool, Place
  <2> QED
    BY <2>1, OwnerShrinks
<1> QED
  BY <1>1, <1>2, <1>3, <1>4, <1>5, <1>6, <1>7, <1>8, <1>9
  DEF Next, Step, Begin, Abandon, DialFails, Send, ReceiveChunk, Complete, ReceiveFails, Deliver,
      Drop, Unwatch, Disconnect, WatcherCloses, PrewarmBegin, SwitchRoute, CountRoute, Age, vars

\* Everybody who has a connection has one of the connections.
LEMMA OwnersType ==
  ASSUME TypeOK
  PROVE  /\ \A t \in Turn : conn[t] # 0 => conn[t] \in ConnId
         /\ \A k \in PoolKey : \A i \in Place(k) : pool[k][i] \in ConnId
         /\ warming # 0 => warming \in ConnId
BY BoundsAssumption DEF TypeOK, Place, ConnId

\* A connection stays the one that it was dialed as.
Kept(c) == conns'[c].key = conns[c].key /\ conns'[c].via = conns[c].via

\* A connection that a step hands out, or has dialed.
Fits(c, k) == conns'[c].key.account = k.account /\ conns'[c].via >= k.gen

\* Connections that stay with their owners, or fit their new ones.
LEMMA KeyedKept ==
  ASSUME Keyed, generation' <= route',
         \A t \in Turn : pc'[t] # "idle" => key'[t].gen <= generation',
         \A t \in Turn : conn'[t] # 0 =>
           \/ conn'[t] = conn[t] /\ key'[t] = key[t] /\ Kept(conn[t])
           \/ Fits(conn'[t], key'[t]),
         \A k \in PoolKey : \A i \in Place(k)' :
           \/ i \in Place(k) /\ pool'[k][i] = pool[k][i] /\ Kept(pool[k][i])
           \/ Fits(pool'[k][i], k),
         warming' # 0 =>
           \/ warming' = warming /\ Kept(warming)
           \/ conns'[warming'].key \in PoolKey /\ Fits(warming', conns'[warming'].key)
  PROVE  Keyed'
<1>1. ASSUME NEW t \in Turn, conn'[t] # 0 PROVE For(conn[t], key[t])'
  BY <1>1 DEF Keyed, For, Kept, Fits
<1>2. ASSUME NEW k \in PoolKey, NEW i \in Place(k)' PROVE For(pool[k][i], k)'
  BY <1>2 DEF Keyed, For, Kept, Fits
<1>3. warming' # 0 => conns'[warming'].key \in PoolKey /\ For(warming, conns[warming].key)'
  BY DEF Keyed, For, Kept, Fits
<1> QED
  BY <1>1, <1>2, <1>3 DEF Keyed

\* Connections are discarded that nobody keeps.
LEMMA KeyedDiscard ==
  ASSUME TypeOK, Keyed, NEW S, conns' = Discarded(S), UNCHANGED routing,
         \A t \in Turn : pc'[t] # "idle" => pc[t] # "idle" /\ key'[t] = key[t],
         \A t \in Turn : conn'[t] # 0 => conn'[t] = conn[t] /\ key'[t] = key[t] /\ conn[t] \notin S,
         \A k \in PoolKey : \A i \in Place(k)' :
           i \in Place(k) /\ pool'[k][i] = pool[k][i] /\ pool[k][i] \notin S,
         warming' # 0 => warming' = warming /\ warming \notin S
  PROVE  Keyed'
<1>1. \A c \in ConnId : c \notin S => Kept(c)
  BY DiscardedType DEF Kept
<1>2. generation' <= route' /\ \A t \in Turn : pc'[t] # "idle" => key'[t].gen <= generation'
  BY DEF Keyed, routing
<1> QED
  BY <1>1, <1>2, OwnersType, KeyedKept

\* Every step leaves every connection with an owner that it was dialed for.
LEMMA StepKeyed ==
  ASSUME IInv, [Next]_vars
  PROVE  Keyed'
<1>0. TypeOK /\ Phases /\ OneOwner /\ Keyed /\ TypeOK'
  BY StepType DEF IInv
<1>k. \A t \in Turn : pc[t] # "idle" => key[t] \in PoolKey /\ key[t].gen \in Nat
  BY <1>0, BoundsAssumption DEF Phases, PoolKey
<1>g. generation \in Nat /\ route \in Nat /\ generation <= route
  BY <1>0, BoundsAssumption DEF TypeOK, Keyed
<1>o. /\ \A t \in Turn : conn[t] # 0 => conn[t] \in ConnId
      /\ \A k \in PoolKey : \A i \in Place(k) : pool[k][i] \in ConnId
      /\ warming # 0 => warming \in ConnId
  BY <1>0, OwnersType
<1> USE DEF routing, turnVars, watchVars, warmVars
\* Nothing happens to the connections, except to their flags.
<1>1. ASSUME \A c \in ConnId : Kept(c), UNCHANGED <<pool, warming>>, generation' <= route',
             \A t \in Turn : pc'[t] # "idle" => key'[t].gen <= generation',
             \A t \in Turn : conn'[t] # 0 => conn'[t] = conn[t] /\ key'[t] = key[t]
      PROVE  Keyed'
  <2>1. \A k \in PoolKey : \A i \in Place(k)' : i \in Place(k) /\ pool'[k][i] = pool[k][i]
    BY <1>1 DEF Place
  <2> QED
    BY <1>0, <1>1, <1>o, <2>1, KeyedKept
<1>2. ASSUME \A c \in ConnId : Kept(c), UNCHANGED <<pool, warming, conn, routing>>,
             \A t \in Turn : pc'[t] # "idle" => pc[t] # "idle",
             \A t \in Turn : pc'[t] # "idle" \/ conn[t] # 0 => key'[t] = key[t]
      PROVE  Keyed'
  BY <1>0, <1>1, <1>2 DEF Keyed
<1>3. UNCHANGED conns => \A c \in ConnId : Kept(c)
  BY DEF Kept
<1>4. ASSUME NEW t \in Turn, NEW a \in Account, NEW v \in Conv \cup {NoConv}, Begin(t, a, v)
      PROVE  Keyed'
  <2>1. /\ conn[t] = 0 /\ UNCHANGED <<routing, conns, pool, conn, warming>>
        /\ key'[t].gen = generation
        /\ \A s \in Turn : s # t => pc'[s] = pc[s] /\ key'[s] = key[s]
    BY <1>0, <1>4 DEF Begin, GoTo, TypeOK, Phases
  <2>2. \A s \in Turn : pc'[s] # "idle" => key'[s].gen <= generation'
    BY <1>0, <1>g, <2>1 DEF Keyed
  <2> QED
    BY <1>1, <1>3, <1>g, <2>1, <2>2
<1>5. ASSUME NEW t \in Turn, Abandon(t) PROVE Keyed'
  <2>1. /\ conn[t] = 0 /\ pc'[t] = "idle" /\ UNCHANGED <<routing, conns, pool, conn, warming>>
        /\ \A s \in Turn : s # t => pc'[s] = pc[s] /\ key'[s] = key[s]
    BY <1>0, <1>5 DEF Abandon, End, GoTo, TypeOK, Phases
  <2> QED
    BY <1>2, <1>3, <2>1
<1>6. ASSUME NEW t \in Turn, Take(t) PROVE Keyed'
  <2>1. key[t] \in PoolKey
    BY <1>6, <1>k DEF Take
  <2>k. PICK k \in PoolKey : k = key[t]
    BY <2>1
  <2>2. /\ Len(pool[k]) \in Nat \ {0} /\ Len(pool[k]) \in Place(k)
        /\ Attach(t, pool[k][Len(pool[k])])
        /\ pool[k][Len(pool[k])] \in ConnId
        /\ Len(pool'[k]) = Len(pool[k]) - 1
        /\ \A i \in 1..(Len(pool[k]) - 1) : pool'[k][i] = pool[k][i]
        /\ \A l \in PoolKey : l # k => pool'[l] = pool[l]
    BY <1>0, <1>6, <2>1, <2>k, TakeEffect DEF Place
  <2>3. \A l \in PoolKey : \A i \in Place(l)' : i \in Place(l) /\ pool'[l][i] = pool[l][i]
    <3>1. \A i \in Place(k)' : i \in Place(k) /\ pool'[k][i] = pool[k][i]
      BY <2>2 DEF Place
    <3>2. \A l \in PoolKey : l # k => \A i \in Place(l)' : i \in Place(l) /\ pool'[l][i] = pool[l][i]
      BY <2>2 DEF Place
    <3> QED
      BY <3>1, <3>2
  <2>4. UNCHANGED <<routing, conns, key, warming>> /\ pc[t] = "take"
    BY <1>6 DEF Take
  <2>5. /\ conn'[t] = pool[k][Len(pool[k])]
        /\ \A s \in Turn : s # t => conn'[s] = conn[s] /\ pc'[s] = pc[s]
    BY <1>0, <2>2, AttachType
  <2>6. Fits(conn'[t], key'[t])
    BY <1>0, <2>k, <2>2, <2>4, <2>5 DEF Keyed, For, Fits
  <2>7. \A s \in Turn : pc'[s] # "idle" => key'[s].gen <= generation'
    BY <1>0, <2>4, <2>5 DEF Keyed
  <2> QED
    BY <1>0, <1>g, <1>3, <1>o, <2>3, <2>4, <2>5, <2>6, <2>7, KeyedKept
<1>7. ASSUME NEW t \in Turn, TakeNothing(t) PROVE Keyed'
  <2>k. PICK k \in PoolKey : k = key[t]
    BY <1>7, <1>k DEF TakeNothing
  <2>s. PICK S : S = Range(pool[k])
    OBVIOUS
  <2>1. /\ conns' = Discarded(S) /\ UNCHANGED <<routing, key, conn, warming>>
        /\ pool'[k] = <<>> /\ \A l \in PoolKey : l # k => pool'[l] = pool[l]
        /\ \A s \in Turn : pc'[s] # "idle" => pc[s] # "idle"
    BY <1>0, <1>7, <2>k, <2>s DEF TakeNothing, GoTo, TypeOK
  <2>2. \A c \in S : \E i \in Place(k) : pool[k][i] = c
    <3>1. DOMAIN pool[k] = Place(k)
      BY <1>0 DEF TypeOK, Place
    <3> QED
      BY <2>s, <3>1 DEF Range
  <2>3. /\ \A s \in Turn : conn[s] # 0 => conn[s] \notin S
        /\ warming # 0 => warming \notin S
        /\ \A l \in PoolKey : l # k => \A i \in Place(l) : pool[l][i] \notin S
    BY <1>0, <2>2 DEF OneOwner
  <2>4. \A l \in PoolKey : \A i \in Place(l)' :
          i \in Place(l) /\ pool'[l][i] = pool[l][i] /\ pool[l][i] \notin S
    BY <2>1, <2>3 DEF Place
  <2> QED
    BY <1>0, <2>1, <2>3, <2>4, KeyedDiscard
<1>8. ASSUME NEW t \in Turn, Dial(t) PROVE Keyed'
  <2>1. PICK c \in ConnId : /\ Free(c) /\ conns' = [conns EXCEPT ![c] = Opened(key[t], conv[t])]
                            /\ Attach(t, c)
    BY <1>8 DEF Dial, Unused
  <2>2. /\ UNCHANGED <<routing, pool, key, warming>> /\ route = generation /\ pc[t] = "dial"
        /\ key[t] \in PoolKey /\ conv[t] \in Conv \cup {NoConv, Random}
    BY <1>0, <1>8, <1>k DEF Dial, Dialable, TypeOK
  <2>3. /\ conns'[c] = Opened(key[t], conv[t])
        /\ \A d \in ConnId : d # c => Kept(d)
    BY <1>0, <2>1 DEF TypeOK, Kept
  <2>4. /\ conn'[t] = c /\ \A s \in Turn : s # t => conn'[s] = conn[s] /\ pc'[s] = pc[s]
    BY <1>0, <2>1, AttachType
  <2>5. Fits(conn'[t], key'[t])
    BY <1>0, <1>g, <2>2, <2>3, <2>4 DEF Fits, Opened, Keyed
  <2>6. /\ \A s \in Turn : conn[s] # c
        /\ c # warming /\ \A l \in PoolKey : \A i \in Place(l) : pool[l][i] # c
    BY <1>0, <2>1, FreePlace
  <2>7. \A s \in Turn : s # t /\ conn'[s] # 0 =>
          conn'[s] = conn[s] /\ key'[s] = key[s] /\ Kept(conn[s])
    BY <1>o, <2>2, <2>3, <2>4, <2>6
  <2>8. \A l \in PoolKey : \A i \in Place(l)' :
          i \in Place(l) /\ pool'[l][i] = pool[l][i] /\ Kept(pool[l][i])
    BY <1>o, <2>2, <2>3, <2>6 DEF Place
  <2>9. \A s \in Turn : pc'[s] # "idle" => key'[s].gen <= generation'
    BY <1>0, <2>2, <2>4 DEF Keyed
  <2> QED
    BY <1>0, <1>g, <1>o, <2>2, <2>3, <2>5, <2>6, <2>7, <2>8, <2>9, KeyedKept
<1>9. ASSUME NEW t \in Turn, Local(t) PROVE Keyed'
  BY <1>0, <1>2, <1>3, <1>9, LocalStep
<1>10. ASSUME NEW t \in Turn, Unwatch(t) PROVE Keyed'
  <2>1. /\ UNCHANGED <<routing, conns, pool, key, conn, warming>>
        /\ \A s \in Turn : pc'[s] # "idle" => pc[s] # "idle"
    BY <1>0, <1>10 DEF Unwatch, GoTo, TypeOK
  <2> QED
    BY <1>2, <1>3, <2>1
<1>11. ASSUME NEW t \in Turn, Disconnect(t) PROVE Keyed'
  BY <1>2, <1>3, <1>11 DEF Disconnect
<1>12. ASSUME NEW t \in Turn, WatcherCloses(t) PROVE Keyed'
  <2>1. \A c \in ConnId : Kept(c)
    BY <1>0, <1>12, FlagType DEF WatcherCloses, Kept
  <2> QED
    BY <1>2, <1>12, <2>1 DEF WatcherCloses
<1>13. ASSUME NEW k \in PoolKey, Age(k) PROVE Keyed'
  <2>1. \A c \in ConnId : Kept(c)
    BY <1>0, <1>13, FlagType DEF Age, Kept
  <2> QED
    BY <1>2, <1>13, <2>1 DEF Age
<1>14. ASSUME NEW a \in cold, PrewarmBegin(a) PROVE Keyed'
  BY <1>2, <1>3, <1>14 DEF PrewarmBegin
<1>15. CASE SwitchRoute \/ CountRoute
  <2>1. /\ UNCHANGED <<conns, pool, conn, key, pc, warming>>
        /\ generation <= generation' /\ generation' <= route' /\ generation' \in Nat
    BY <1>g, <1>15 DEF SwitchRoute, CountRoute, Dialable
  <2>2. \A t \in Turn : pc'[t] # "idle" => key'[t].gen <= generation'
    BY <1>0, <1>k, <1>g, <2>1 DEF Keyed
  <2> QED
    BY <1>1, <1>3, <2>1, <2>2
<1>16. CASE UNCHANGED vars
  BY <1>2, <1>3, <1>16 DEF vars
<1>17. ASSUME NEW t \in Turn, Return(t) PROVE Keyed'
  <2>1. /\ UNCHANGED <<routing, warming>> /\ pc[t] = "return" /\ pc'[t] = "idle" /\ conn'[t] = 0
        /\ \A s \in Turn : s # t => conn'[s] = conn[s] /\ pc'[s] = pc[s] /\ key'[s] = key[s]
    BY <1>0, <1>17 DEF Return, End, GoTo, TypeOK
  <2>c. PICK c : c = conn[t]
    OBVIOUS
  <2>2. c # 0 => /\ \A s \in Turn : s # t => conn[s] # c
                 /\ warming # c /\ \A l \in PoolKey : \A i \in Place(l) : pool[l][i] # c
    BY <1>0, <2>c DEF OneOwner
  <2>3. \A s \in Turn : pc'[s] # "idle" => pc[s] # "idle" /\ key'[s] = key[s]
    BY <2>1
  <2>4. CASE c = 0 /\ UNCHANGED <<conns, pool>>
    <3>1. \A l \in PoolKey : \A i \in Place(l)' : i \in Place(l) /\ pool'[l][i] = pool[l][i]
      BY <2>4 DEF Place
    <3>2. \A s \in Turn : pc'[s] # "idle" => key'[s].gen <= generation'
      BY <1>0, <2>1, <2>3 DEF Keyed
    <3> QED
      BY <1>0, <1>g, <1>3, <1>o, <2>1, <2>4, <3>1, <3>2, KeyedKept
  <2>5. CASE c # 0 /\ conns' = Discarded({c}) /\ UNCHANGED pool
    <3>1. \A l \in PoolKey : \A i \in Place(l)' :
            i \in Place(l) /\ pool'[l][i] = pool[l][i] /\ pool[l][i] \notin {c}
      BY <2>2, <2>5 DEF Place
    <3>2. /\ \A s \in Turn : conn'[s] # 0 => conn'[s] = conn[s] /\ key'[s] = key[s] /\ conn[s] \notin {c}
          /\ warming' # 0 => warming' = warming /\ warming \notin {c}
      BY <2>1, <2>2, <2>5
    <3> QED
      BY <1>0, <2>1, <2>3, <2>5, <3>1, <3>2, KeyedDiscard
  <2>6. CASE c # 0 /\ Put(key[t], c)
    <3>k. PICK k \in PoolKey : k = key[t]
      BY <1>k, <2>1
    <3>1. c \in ConnId /\ For(c, k) /\ Put(k, c)
      BY <1>0, <1>o, <2>c, <2>6, <3>k DEF Keyed
    <3>2. \A d \in ConnId : d # c => Kept(d)
      BY <1>0, <3>1, PutEffect DEF Kept
    <3>3. \A l \in PoolKey : \A i \in Place(l)' :
            \/ i \in Place(l) /\ pool'[l][i] = pool[l][i] /\ Kept(pool[l][i])
            \/ Fits(pool'[l][i], l)
      BY <1>0, <1>o, <2>2, <2>6, <3>1, <3>2, PutPlaces DEF For, Fits
    <3>4. /\ \A s \in Turn : conn'[s] # 0 => conn'[s] = conn[s] /\ key'[s] = key[s] /\ Kept(conn[s])
          /\ warming' # 0 => warming' = warming /\ Kept(warming)
      BY <1>o, <2>1, <2>2, <2>6, <3>2
    <3>5. \A s \in Turn : pc'[s] # "idle" => key'[s].gen <= generation'
      BY <1>0, <2>1, <2>3 DEF Keyed
    <3> QED
      BY <1>0, <1>g, <2>1, <3>3, <3>4, <3>5, KeyedKept
  <2> QED
    BY <1>17, <2>c, <2>4, <2>5, <2>6 DEF Return
<1>18. CASE PrewarmDial
  <2>1. PICK c \in ConnId, g \in warmKey.gen..generation :
          /\ Free(c) /\ conns' = [conns EXCEPT ![c] = Opened([warmKey EXCEPT !.gen = g], Random)]
          /\ warming' = c
    BY <1>18 DEF PrewarmDial, Unused
  <2>2. /\ UNCHANGED <<routing, pool, conn, key, pc>> /\ route = generation /\ warmKey \in PoolKey
    BY <1>0, <1>18 DEF PrewarmDial, Dialable, TypeOK
  <2>3. g \in 0..MaxGen /\ g <= route /\ [warmKey EXCEPT !.gen = g] \in PoolKey
                        /\ [warmKey EXCEPT !.gen = g].gen = g
    <3>1. warmKey.gen \in 0..MaxGen /\ generation \in 0..MaxGen
      BY <1>0, <2>2 DEF PoolKey, TypeOK
    <3>2. g \in 0..MaxGen /\ g <= route
      BY <1>g, <2>1, <3>1, BoundsAssumption
    <3> QED
      BY <2>2, <3>2 DEF PoolKey
  <2>4. /\ conns'[c] = Opened([warmKey EXCEPT !.gen = g], Random)
        /\ \A d \in ConnId : d # c => Kept(d)
    BY <1>0, <2>1 DEF TypeOK, Kept
  <2>5. conns'[warming'].key \in PoolKey /\ Fits(warming', conns'[warming'].key)
    <3>1. PICK k \in PoolKey : k = [warmKey EXCEPT !.gen = g] /\ k.gen = g
      BY <2>3
    <3>2. conns'[c].key = k /\ conns'[c].via = route
      BY <2>4, <3>1 DEF Opened
    <3> QED
      BY <1>g, <2>1, <2>3, <3>1, <3>2 DEF Fits
  <2>6. /\ \A s \in Turn : conn[s] # c
        /\ \A l \in PoolKey : \A i \in Place(l) : pool[l][i] # c
    BY <1>0, <2>1, FreePlace
  <2>7. \A l \in PoolKey : \A i \in Place(l)' :
          i \in Place(l) /\ pool'[l][i] = pool[l][i] /\ Kept(pool[l][i])
    BY <1>o, <2>2, <2>4, <2>6 DEF Place
  <2>8. \A s \in Turn : conn'[s] # 0 => conn'[s] = conn[s] /\ key'[s] = key[s] /\ Kept(conn[s])
    BY <1>o, <2>2, <2>4, <2>6
  <2>9. \A s \in Turn : pc'[s] # "idle" => key'[s].gen <= generation'
    BY <1>0, <2>2 DEF Keyed
  <2> QED
    BY <1>0, <1>g, <2>2, <2>5, <2>7, <2>8, <2>9, KeyedKept
<1>19. CASE PrewarmPut
  <2>1. PICK c \in ConnId, k \in PoolKey : c = warming /\ k = conns[warming].key
    BY <1>0, <1>o, <1>19 DEF PrewarmPut, Keyed
  <2>2. /\ Put(k, c) /\ For(c, k) /\ warming' = 0 /\ UNCHANGED <<routing, conn, key, pc>> /\ c # 0
    BY <1>0, <1>19, <2>1 DEF PrewarmPut, Keyed
  <2>3. /\ \A s \in Turn : conn[s] # c
        /\ \A l \in PoolKey : \A i \in Place(l) : pool[l][i] # c
    BY <1>0, <2>1, <2>2 DEF OneOwner
  <2>4. \A d \in ConnId : d # c => Kept(d)
    BY <1>0, <2>2, PutEffect DEF Kept
  <2>5. \A l \in PoolKey : \A i \in Place(l)' :
          \/ i \in Place(l) /\ pool'[l][i] = pool[l][i] /\ Kept(pool[l][i])
          \/ Fits(pool'[l][i], l)
    BY <1>0, <1>o, <2>2, <2>3, <2>4, PutPlaces DEF For, Fits
  <2>6. \A s \in Turn : conn'[s] # 0 => conn'[s] = conn[s] /\ key'[s] = key[s] /\ Kept(conn[s])
    BY <1>o, <2>2, <2>3, <2>4
  <2>7. \A s \in Turn : pc'[s] # "idle" => key'[s].gen <= generation'
    BY <1>0, <2>2 DEF Keyed
  <2> QED
    BY <1>0, <1>g, <2>2, <2>5, <2>6, <2>7, KeyedKept
<1>20. CASE PrewarmEnd
  <2>c. PICK c : c = warming
    OBVIOUS
  <2>1. conns' = Discarded({c}) /\ warming' = 0 /\ UNCHANGED <<routing, pool, conn, key, pc>>
    BY <1>20, <2>c DEF PrewarmEnd
  <2>2. CASE c # 0
    <3>1. /\ \A s \in Turn : conn[s] # 0 => conn[s] # c
          /\ \A l \in PoolKey : \A i \in Place(l) : pool[l][i] # c
      BY <1>0, <2>c, <2>2 DEF OneOwner
    <3>2. \A l \in PoolKey : \A i \in Place(l)' :
            i \in Place(l) /\ pool'[l][i] = pool[l][i] /\ pool[l][i] \notin {c}
      BY <2>1, <3>1 DEF Place
    <3> QED
      BY <1>0, <2>1, <3>1, <3>2, KeyedDiscard
  <2>3. CASE c = 0
    <3>1. \A d \in ConnId : Kept(d)
      BY <1>0, <2>1, <2>3, DiscardedType DEF Kept, ConnId
    <3> QED
      BY <1>2, <2>1, <2>3, <2>c, <3>1
  <2> QED
    BY <2>2, <2>3
<1>21. CASE ClosePool
  <2>s. PICK S : S = Pooled
    OBVIOUS
  <2>1. /\ conns' = Discarded(S) /\ UNCHANGED <<routing, conn, key, pc, warming>>
        /\ \A l \in PoolKey : Place(l)' = {}
    BY <1>21, <2>s DEF ClosePool, Place
  <2>2. /\ \A s \in Turn : conn[s] # 0 => conn[s] \notin S
        /\ warming # 0 => warming \notin S
    BY <1>0, <2>s, PooledPlace DEF OneOwner
  <2> QED
    BY <1>0, <2>1, <2>2, KeyedDiscard
<1> QED
  BY <1>4, <1>5, <1>6, <1>7, <1>8, <1>9, <1>10, <1>11, <1>12, <1>13, <1>14, <1>15, <1>16, <1>17,
     <1>18, <1>19, <1>20, <1>21
  DEF Next, Step, Local

\* put pools the connection or closes it, and takes nothing out of the pool.
LEMMA PutKeeps ==
  ASSUME TypeOK, TypeOK', NEW k \in PoolKey, NEW c \in ConnId, Put(k, c)
  PROVE  /\ \A l \in PoolKey : \A i \in Place(l) : i \in Place(l)' /\ pool'[l][i] = pool[l][i]
         /\ Free(c)' => ~conns'[c].open
         /\ \A d \in ConnId : d # c => conns'[d] = conns[d]
<1>1. \A l \in PoolKey : Len(pool[l]) \in Nat
  BY DEF TypeOK
<1>2. CASE pool' = pool /\ conns'[c] = NoConnection
  BY <1>2, PutEffect DEF Place, NoConnection
<1>3. CASE ~(pool' = pool /\ conns'[c] = NoConnection)
  <2>1. /\ \A l \in PoolKey : l # k => pool'[l] = pool[l]
        /\ Len(pool'[k]) = Len(pool[k]) + 1 /\ pool'[k][Len(pool[k]) + 1] = c
        /\ \A i \in Place(k) : pool'[k][i] = pool[k][i]
        /\ \A d \in ConnId : d # c => conns'[d] = conns[d]
    BY <1>3, PutEffect
  <2>2. \A l \in PoolKey : \A i \in Place(l) : i \in Place(l)' /\ pool'[l][i] = pool[l][i]
    <3>1. \A i \in Place(k) : i \in Place(k)'
      BY <1>1, <2>1 DEF Place
    <3>2. \A l \in PoolKey : l # k => \A i \in Place(l) : i \in Place(l)' /\ pool'[l][i] = pool[l][i]
      BY <2>1 DEF Place
    <3> QED
      BY <2>1, <3>1, <3>2
  <2>3. Len(pool[k]) + 1 \in Place(k)'
    BY <1>1, <2>1 DEF Place
  <2>4. ~Free(c)'
    BY <2>1, <2>3, FreePlaceNext
  <2> QED
    BY <2>1, <2>2, <2>4
<1> QED
  BY <1>2, <1>3

\* Every step closes the connections that it leaves without an owner.
LEMMA StepLeaks ==
  ASSUME IInv, [Next]_vars
  PROVE  NothingLeaks'
<1>0. TypeOK /\ Phases /\ OneOwner /\ Keyed /\ NothingLeaks /\ TypeOK'
  BY StepType DEF IInv
<1>a. \A c \in ConnId : c # 0
  BY DEF ConnId
<1> USE DEF routing, turnVars, watchVars, warmVars
<1>1. ASSUME \A c \in ConnId : Free(c)' => ~conns'[c].open \/ (Free(c) /\ conns'[c].open = conns[c].open)
      PROVE  NothingLeaks'
  BY <1>0, <1>1 DEF NothingLeaks
<1>2. ASSUME UNCHANGED <<pool, conn, watched, warming>>,
             \A c \in ConnId : conns'[c].open = conns[c].open
      PROVE  NothingLeaks'
  BY <1>1, <1>2 DEF Free, Pooled
<1>3. ASSUME NEW t \in Turn, Take(t) PROVE NothingLeaks'
  <2>1. key[t] \in PoolKey
    BY <1>0, <1>3 DEF Take, Phases
  <2>k. PICK k \in PoolKey : k = key[t]
    BY <2>1
  <2>2. /\ Attach(t, pool[k][Len(pool[k])]) /\ pool[k][Len(pool[k])] \in ConnId
        /\ Len(pool'[k]) = Len(pool[k]) - 1 /\ Len(pool[k]) \in Nat
        /\ \A i \in 1..(Len(pool[k]) - 1) : pool'[k][i] = pool[k][i]
        /\ \A l \in PoolKey : l # k => pool'[l] = pool[l]
    BY <1>0, <1>3, <2>1, <2>k, TakeEffect
  <2>3. /\ conn[t] = 0 /\ watched[t] = 0 /\ UNCHANGED <<conns, warming>>
    BY <1>0, <1>3 DEF Take, Phases
  <2>4. /\ conn'[t] = pool[k][Len(pool[k])]
        /\ \A s \in Turn : s # t => conn'[s] = conn[s] /\ watched'[s] = watched[s]
    BY <1>0, <2>2, AttachType
  <2>5. \A l \in PoolKey : \A i \in Place(l) :
          pool[l][i] = conn'[t] \/ (i \in Place(l)' /\ pool'[l][i] = pool[l][i])
    <3>1. \A i \in Place(k) : pool[k][i] = conn'[t] \/ (i \in Place(k)' /\ pool'[k][i] = pool[k][i])
      BY <2>2, <2>4 DEF Place
    <3>2. \A l \in PoolKey : l # k => \A i \in Place(l) : i \in Place(l)' /\ pool'[l][i] = pool[l][i]
      BY <2>2 DEF Place
    <3> QED
      BY <3>1, <3>2
  <2>6. ASSUME NEW c \in ConnId, Free(c)' PROVE Free(c)
    BY <1>0, <1>a, <2>3, <2>4, <2>5, <2>6, FreePlace, FreePlaceNext
  <2> QED
    BY <1>1, <2>3, <2>6
<1>4. ASSUME NEW t \in Turn, TakeNothing(t) PROVE NothingLeaks'
  <2>k. PICK k \in PoolKey : k = key[t]
    BY <1>0, <1>4 DEF TakeNothing, Phases
  <2>s. PICK S : S = Range(pool[k])
    OBVIOUS
  <2>1. /\ conns' = Discarded(S) /\ UNCHANGED <<conn, watched, warming>>
        /\ \A l \in PoolKey : l # k => pool'[l] = pool[l]
    BY <1>0, <1>4, <2>k, <2>s DEF TakeNothing, TypeOK
  <2>2. \A i \in Place(k) : pool[k][i] \in S
    <3>1. DOMAIN pool[k] = Place(k)
      BY <1>0 DEF TypeOK, Place
    <3> QED
      BY <2>s, <3>1 DEF Range
  <2>3. ASSUME NEW c \in ConnId, Free(c)', c \notin S PROVE Free(c)
    <3>1. \A l \in PoolKey : \A i \in Place(l) : pool[l][i] # c
      BY <1>0, <2>1, <2>2, <2>3, FreePlaceNext DEF Place
    <3> QED
      BY <1>0, <2>1, <2>3, <3>1, FreePlace, FreePlaceNext
  <2>4. \A c \in ConnId : IF c \in S THEN ~conns'[c].open ELSE conns'[c].open = conns[c].open
    BY <1>0, <2>1, DiscardedType DEF NoConnection
  <2> QED
    BY <1>1, <2>3, <2>4
<1>5. ASSUME NEW t \in Turn, Dial(t) PROVE NothingLeaks'
  <2>1. PICK c \in ConnId : conns' = [conns EXCEPT ![c] = Opened(key[t], conv[t])] /\ Attach(t, c)
    BY <1>5 DEF Dial
  <2>2. conn[t] = 0 /\ watched[t] = 0 /\ UNCHANGED <<pool, warming>>
    BY <1>0, <1>5 DEF Dial, Phases
  <2>3. conn'[t] = c /\ \A s \in Turn : s # t => conn'[s] = conn[s] /\ watched'[s] = watched[s]
    BY <1>0, <2>1, AttachType
  <2>4. ASSUME NEW d \in ConnId, Free(d)' PROVE Free(d) /\ d # c
    <3>1. \A k \in PoolKey : \A i \in Place(k) : i \in Place(k)' /\ pool'[k][i] = pool[k][i]
      BY <2>2 DEF Place
    <3> QED
      BY <1>0, <1>a, <2>2, <2>3, <2>4, <3>1, FreePlace, FreePlaceNext
  <2>5. \A d \in ConnId : d # c => conns'[d] = conns[d]
    BY <1>0, <2>1 DEF TypeOK
  <2> QED
    BY <1>1, <2>4, <2>5
<1>6. ASSUME NEW t \in Turn, Unwatch(t) PROVE NothingLeaks'
  <2>1. /\ UNCHANGED <<pool, conns, conn, warming>>
        /\ \A s \in Turn : watched'[s] = watched[s] \/ watched[s] = conn[s]
    BY <1>0, <1>6 DEF Unwatch, Phases, TypeOK
  <2>2. \A k \in PoolKey : \A i \in Place(k) : i \in Place(k)' /\ pool'[k][i] = pool[k][i]
    BY <2>1 DEF Place
  <2>3. ASSUME NEW c \in ConnId, Free(c)' PROVE Free(c)
    BY <1>0, <2>1, <2>2, <2>3, FreePlace, FreePlaceNext
  <2> QED
    BY <1>1, <2>1, <2>3
<1>7. ASSUME NEW t \in Turn, Return(t) PROVE NothingLeaks'
  <2>1. /\ UNCHANGED <<watched, warming>> /\ conn'[t] = 0 /\ key[t] \in PoolKey
        /\ \A s \in Turn : s # t => conn'[s] = conn[s]
    BY <1>0, <1>7 DEF Return, Phases, TypeOK
  <2>c. PICK c : c = conn[t]
    OBVIOUS
  <2>2. ASSUME NEW d \in ConnId, Free(d)', d # c,
               \A l \in PoolKey : \A i \in Place(l) : i \in Place(l)' /\ pool'[l][i] = pool[l][i]
        PROVE  Free(d)
    BY <1>0, <2>1, <2>c, <2>2, FreePlace, FreePlaceNext
  <2>3. UNCHANGED pool =>
          \A l \in PoolKey : \A i \in Place(l) : i \in Place(l)' /\ pool'[l][i] = pool[l][i]
    BY DEF Place
  <2>4. CASE c = 0 /\ UNCHANGED <<conns, pool>>
    BY <1>1, <1>a, <2>2, <2>3, <2>4
  <2>5. CASE c # 0 /\ conns' = Discarded({c}) /\ UNCHANGED pool
    <3>1. \A d \in ConnId : IF d = c THEN ~conns'[d].open ELSE conns'[d].open = conns[d].open
      BY <1>0, <2>5, DiscardedType DEF NoConnection
    <3> QED
      BY <1>1, <2>2, <2>3, <2>5, <3>1
  <2>6. CASE c # 0 /\ Put(key[t], c)
    <3>1. c \in ConnId
      BY <1>0, <2>c, <2>6, OwnersType
    <3>k. PICK k \in PoolKey : k = key[t]
      BY <2>1
    <3>2. Put(k, c)
      BY <2>6, <3>k
    <3> QED
      BY <1>0, <1>1, <2>2, <3>1, <3>2, PutKeeps
  <2> QED
    BY <1>7, <2>c, <2>4, <2>5, <2>6 DEF Return
<1>8. ASSUME NEW t \in Turn, WatcherCloses(t) PROVE NothingLeaks'
  <2>c. PICK c : c = watched[t]
    OBVIOUS
  <2>1. /\ UNCHANGED <<pool, conn, warming>> /\ conns' = [conns EXCEPT ![c].open = FALSE]
        /\ \A s \in Turn : watched'[s] = watched[s] \/ watched[s] = c
    BY <1>0, <1>8, <2>c DEF WatcherCloses, TypeOK
  <2>2. \A k \in PoolKey : \A i \in Place(k) : i \in Place(k)' /\ pool'[k][i] = pool[k][i]
    BY <2>1 DEF Place
  <2>3. ASSUME NEW d \in ConnId, Free(d)', d # c PROVE Free(d)
    BY <1>0, <2>1, <2>2, <2>3, FreePlace, FreePlaceNext
  <2>4. \A d \in ConnId : IF d = c THEN ~conns'[d].open ELSE conns'[d].open = conns[d].open
    BY <1>0, <2>1, FlagType
  <2> QED
    BY <1>1, <2>3, <2>4
<1>9. CASE PrewarmDial
  <2>1. PICK c \in ConnId, g \in warmKey.gen..generation :
          conns' = [conns EXCEPT ![c] = Opened([warmKey EXCEPT !.gen = g], Random)] /\ warming' = c
    BY <1>9 DEF PrewarmDial
  <2>2. warming = 0 /\ UNCHANGED <<pool, conn, watched>>
    BY <1>9 DEF PrewarmDial
  <2>3. \A k \in PoolKey : \A i \in Place(k) : i \in Place(k)' /\ pool'[k][i] = pool[k][i]
    BY <2>2 DEF Place
  <2>4. ASSUME NEW d \in ConnId, Free(d)' PROVE Free(d) /\ d # c
    BY <1>0, <1>a, <2>1, <2>2, <2>3, <2>4, FreePlace, FreePlaceNext
  <2>5. \A d \in ConnId : d # c => conns'[d] = conns[d]
    BY <1>0, <2>1 DEF TypeOK
  <2> QED
    BY <1>1, <2>4, <2>5
<1>10. CASE PrewarmPut
  <2>1. PICK c \in ConnId, k \in PoolKey : c = warming /\ k = conns[warming].key
    BY <1>0, <1>10, OwnersType DEF PrewarmPut, Keyed
  <2>2. Put(k, c) /\ UNCHANGED <<conn, watched>>
    BY <1>10, <2>1 DEF PrewarmPut
  <2>3. /\ \A l \in PoolKey : \A i \in Place(l) : i \in Place(l)' /\ pool'[l][i] = pool[l][i]
        /\ Free(c)' => ~conns'[c].open
        /\ \A d \in ConnId : d # c => conns'[d] = conns[d]
    BY <1>0, <2>2, PutKeeps
  <2>4. ASSUME NEW d \in ConnId, Free(d)', d # c PROVE Free(d)
    BY <1>0, <2>1, <2>2, <2>3, <2>4, FreePlace, FreePlaceNext
  <2> QED
    BY <1>1, <2>3, <2>4
<1>11. CASE PrewarmEnd
  <2>c. PICK c : c = warming
    OBVIOUS
  <2>1. conns' = Discarded({c}) /\ warming' = 0 /\ UNCHANGED <<pool, conn, watched>>
    BY <1>11, <2>c DEF PrewarmEnd
  <2>2. \A l \in PoolKey : \A i \in Place(l) : i \in Place(l)' /\ pool'[l][i] = pool[l][i]
    BY <2>1 DEF Place
  <2>3. ASSUME NEW d \in ConnId, Free(d)', d # c PROVE Free(d)
    BY <1>0, <2>c, <2>1, <2>2, <2>3, FreePlace, FreePlaceNext
  <2>4. \A d \in ConnId : IF d = c THEN ~conns'[d].open ELSE conns'[d].open = conns[d].open
    BY <1>0, <2>1, DiscardedType DEF NoConnection
  <2> QED
    BY <1>1, <2>3, <2>4
<1>12. CASE ClosePool
  <2>1. conns' = Discarded(Pooled) /\ UNCHANGED <<conn, watched, warming>>
    BY <1>12 DEF ClosePool
  <2>2. ASSUME NEW d \in ConnId, Free(d)', d \notin Pooled PROVE Free(d)
    BY <2>1, <2>2 DEF Free
  <2>3. \A d \in ConnId : IF d \in Pooled THEN ~conns'[d].open ELSE conns'[d].open = conns[d].open
    BY <1>0, <2>1, DiscardedType DEF NoConnection
  <2> QED
    BY <1>1, <2>2, <2>3
<1>13. ASSUME NEW k \in PoolKey, Age(k) PROVE NothingLeaks'
  <2>1. PICK c : conns' = [conns EXCEPT ![c].stale = TRUE]
    BY <1>13 DEF Age
  <2>2. \A d \in ConnId : conns'[d].open = conns[d].open
    BY <1>0, <2>1, FlagType
  <2> QED
    BY <1>2, <1>13, <2>2 DEF Age
<1>14. ASSUME NEW t \in Turn, Local(t) PROVE NothingLeaks'
  BY <1>0, <1>2, <1>14, LocalStep
<1> QED
  BY <1>2, <1>3, <1>4, <1>5, <1>6, <1>7, <1>8, <1>9, <1>10, <1>11, <1>12, <1>13, <1>14
  DEF Next, Step, Local, Begin, Abandon, Disconnect, PrewarmBegin, SwitchRoute, CountRoute, vars

\* There are as many pooled connections as places.
LEMMA PlacesPooled ==
  ASSUME TypeOK, OneOwner
  PROVE  Cardinality(Pooled) =
           Cardinality({p \in PoolKey \X (1..MaxPooled) : p[2] \in DOMAIN pool[p[1]]})
<1> DEFINE P == {p \in PoolKey \X (1..MaxPooled) : p[2] \in DOMAIN pool[p[1]]}
           At == [p \in P |-> pool[p[1]][p[2]]]
<1>1. \A k \in PoolKey : DOMAIN pool[k] = Place(k) /\ Place(k) \subseteq 1..MaxPooled
  BY BoundsAssumption DEF TypeOK, Place
<1>2. IsFiniteSet(Pooled)
  <2>1. IsFiniteSet(ConnId)
    BY BoundsAssumption, FS_Interval DEF ConnId
  <2>2. Pooled \subseteq ConnId
    BY PooledPlace, OwnersType
  <2> QED
    BY <2>1, <2>2, FS_Subset
<1>3. \A p \in P : p[1] \in PoolKey /\ p[2] \in Place(p[1]) /\ p = <<p[1], p[2]>>
  BY <1>1
<1>4. At \in Injection(P, Pooled)
  <2>1. At \in [P -> Pooled]
    BY <1>3, PooledPlace
  <2>2. ASSUME NEW p \in P, NEW q \in P, At[p] = At[q] PROVE p = q
    <3>1. p[1] = q[1] /\ p[2] = q[2]
      BY <1>3, <2>2 DEF OneOwner
    <3> QED
      BY <1>3, <3>1
  <2> QED
    BY <2>1, <2>2 DEF Injection, IsInjective
<1>5. At \in Surjection(P, Pooled)
  <2>1. ASSUME NEW c \in Pooled PROVE \E p \in P : At[p] = c
    <3>1. PICK k \in PoolKey : \E i \in Place(k) : pool[k][i] = c
      BY PooledPlace
    <3>2. PICK i \in Place(k) : pool[k][i] = c
      BY <3>1
    <3>3. <<k, i>> \in P
      BY <1>1
    <3> QED
      BY <3>2, <3>3
  <2>2. At \in [P -> Pooled]
    BY <1>4 DEF Injection
  <2> QED
    BY <2>1, <2>2 DEF Surjection
<1> HIDE DEF P, At
<1>6. Cardinality(P) = Cardinality(Pooled)
  BY <1>2, <1>4, <1>5, FS_Injection
<1> QED
  BY <1>6 DEF P

-----------------------------------------------------------------------------
(* The theorems *)

\* The invariant holds throughout.
LEMMA Invariance == Spec => []IInv
<1>1. IInv /\ [Next]_vars => IInv'
  BY StepType, StepPhases, StepOwner, StepKeyed, StepLeaks DEF IInv
<1> QED
  BY <1>1, InitInv, PTL DEF Spec

\* The variables have their types: no list of the pool outgrows
\* maxConnectionsPerPoolKey (connpool.go:64).
THEOREM TypeCorrect == Spec => []TypeOK
<1>1. IInv => TypeOK
  BY DEF IInv
<1> QED
  BY <1>1, Invariance, PTL

\* A connection has one turn, one place in the pool or Prewarm as its owner, so two
\* turns never use one WebSocket (connpool.go:37-42).
THEOREM OwnersAreUnique == Spec => []ExclusiveConnection
<1>1. IInv => ExclusiveConnection
  <2> SUFFICES ASSUME IInv PROVE ExclusiveConnection
    OBVIOUS
  <2>1. TypeOK /\ OneOwner
    BY DEF IInv
  <2>2. \A t \in Turn : conn[t] # 0 =>
          /\ conn[t] \notin Pooled \cup {warming}
          /\ \A s \in Turn \ {t} : conn[s] # conn[t]
    BY <2>1, PooledPlace DEF OneOwner
  <2>3. warming \notin Pooled
    <3>1. 0 \notin ConnId
      BY DEF ConnId
    <3> QED
      BY <2>1, <3>1, PooledPlace, OwnersType DEF OneOwner
  <2> QED
    BY <2>1, <2>2, <2>3, PlacesPooled DEF ExclusiveConnection
<1> QED
  BY <1>1, Invariance, PTL

\* No turn is sent over a connection of another account, nor over one that was
\* dialed through an older route than the turn's key (client.go:250, proxy.go:37).
THEOREM RouteIsCurrent == Spec => []NoStaleRoute
<1>1. IInv => NoStaleRoute
  BY DEF IInv, Keyed, For, NoStaleRoute
<1> QED
  BY <1>1, Invariance, PTL

\* Every way out of a turn, of Prewarm and of the pool closes the connection that
\* it gives up (client.go:511).
THEOREM ConnectionsAreClosed == Spec => []NothingLeaks
<1>1. IInv => NothingLeaks
  BY DEF IInv
<1> QED
  BY <1>1, Invariance, PTL
=============================================================================
