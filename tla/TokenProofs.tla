----------------------------- MODULE TokenProofs -----------------------------
(***************************************************************************)
(* Theorems about the two stores of tokens.  AccountStore: type            *)
(* correctness, single flight (at most one leader per account and no       *)
(* stranded waiter), one Chromium at a time, success that is on disk, and  *)
(* deletions that last - for any number of accounts, callers and token     *)
(* generations, with every hook and fault.  TokenManager: its files        *)
(* hold what can be read from them, and the account's refresh token is     *)
(* lost only to a write that was damaged - for any number of requests,     *)
(* expirations, failures and crashes.                                      *)
(***************************************************************************)
EXTENDS AccountStore, TokenManager, TLAPS

\* Callers inside EnsureValid know their account, and those that wait for a
\* flight or lead one hold it.
Located ==
  \A c \in Caller :
    /\ pc[c] # "idle" => arg[c] \in Account
    /\ pc[c] = "wait" \/ Leads(c) => flight[c] \in FlightId

\* s.inflight is exactly the index of the flights that have a leader: a leader's
\* flight is the one registered for its account, and a registered flight has a
\* leader.
Registered ==
  /\ \A c \in Caller : Leads(c) =>
       inflight[arg[c]] = flight[c]
  /\ \A a \in Account : inflight[a] # 0 =>
       \E c \in Caller : Leads(c) /\ arg[c] = a

\* A flight object belongs to one leader: Lead takes one nobody refers to.
OneLeaderPerFlight ==
  \A c, d \in Caller : Leads(c) /\ Leads(d) /\ flight[c] = flight[d] => c = d

\* The leader closes its flight before it removes it from the index, and a
\* caller that has not reached refreshInflight's flights refers to none.
Progress ==
  \A c \in Caller :
    /\ pc[c] = "clear" => flights[flight[c]].done
    /\ pc[c] \in {"idle", "join", "mark"} => flight[c] = 0

\* The part of the invariant that is not the type.
FlightInv ==
  Located /\ Registered /\ OneLeaderPerFlight /\ Progress /\ NoStrandedWaiter

\* The inductive invariant.
IInv == TypeOK /\ FlightInv

-----------------------------------------------------------------------------
\* The initial state is well typed.
LEMMA InitType == Init => TypeOK
BY NoAccountAssumption, NFlightsAssumption, MaxGenAssumption
   DEF Init, TypeOK, Record, Absent, TokenSet, NoToken, FlightRecord, NewFlight,
       Gen, FlightId, PC, LeaderPC

\* The record that Upsert stores, and the one that is written back, are records.
LEMMA RecordTypes ==
  /\ Absent \in Record
  /\ NoToken \in TokenSet
  /\ NewFlight \in FlightRecord
  /\ \A r \in Record, t \in TokenSet : Upserted(r, t) \in Record
  /\ \A r \in Record : AsExpired(r) \in Record
  /\ \A g \in Gen : [at |-> g, rt |-> g] \in TokenSet /\ [at |-> g, rt |-> 0] \in TokenSet
                    /\ [status |-> "online", at |-> g, rt |-> g] \in Record
BY MaxGenAssumption
DEF Record, Absent, TokenSet, NoToken, FlightRecord, NewFlight, Gen, Upserted, AsExpired

\* Generations that the steps produce are in range.
LEMMA GenTypes ==
  /\ \A g \in 1..MaxGen : g \in Gen
  /\ \A g \in 1..MaxGen : \A h \in 1..g : h \in Gen
  /\ \A g \in 1..MaxGen : g < MaxGen => g + 1 \in 1..MaxGen /\ g + 1 \in Gen
  /\ \A f \in FlightId : f \in 0..NFlights
  /\ 0 \in 0..NFlights
BY NFlightsAssumption, MaxGenAssumption DEF Gen, FlightId

\* A save leaves a well-formed file behind, whether or not it succeeds, and so
\* does writing the caller's copy back.
LEMMA SaveType ==
  ASSUME TypeOK, NEW m \in [Account -> Record], NEW ok \in BOOLEAN, Save(m, ok)
  PROVE  disk' \in [Account -> Record]
BY DEF TypeOK, Save

\* Writing a copy back as expired keeps the store and its file well typed.
LEMMA WriteBackType ==
  ASSUME TypeOK, NEW c \in Caller, NEW ok \in BOOLEAN, WriteBack(c, ok)
  PROVE  memory' \in [Account -> Record] /\ disk' \in [Account -> Record]
<1> DEFINE m == [memory EXCEPT ![arg[c]] = AsExpired(snap[c])]
<1>1. m \in [Account -> Record]
  BY RecordTypes DEF TypeOK
<1>2. CASE Present(arg[c])
  <2>1. memory' = m /\ Save(m, ok)
    BY <1>2 DEF WriteBack
  <2> QED
    BY <1>1, <2>1, SaveType
<1>3. CASE ~Present(arg[c])
  BY <1>3 DEF WriteBack, TypeOK
<1> QED
  BY <1>2, <1>3

\* Every step keeps the state well typed.
LEMMA StepType ==
  ASSUME TypeOK, Located, [Next]_vars
  PROVE  TypeOK'
<1> USE RecordTypes, GenTypes DEF Located
<1>1. ASSUME NEW c \in Caller, NEW a \in Account, EnsureValid(c, a) PROVE TypeOK'
  BY <1>1 DEF TypeOK, EnsureValid, Move, provider, time, Leads, PC, LeaderPC, Present
<1>2. ASSUME NEW c \in Caller, MarkExpired(c) PROVE TypeOK'
  <2>1. memory' \in [Account -> Record] /\ disk' \in [Account -> Record]
    BY <1>2, WriteBackType DEF MarkExpired
  <2> QED
    BY <1>2, <2>1 DEF TypeOK, MarkExpired, Return, Move, provider, time, PC
<1>3. ASSUME NEW c \in Caller, Lead(c) PROVE TypeOK'
  BY <1>3 DEF TypeOK, Lead, Move, provider, time, Leads, PC, LeaderPC
<1>4. ASSUME NEW c \in Caller, Join(c) PROVE TypeOK'
  BY <1>4 DEF TypeOK, Join, Move, provider, time, Leads, PC, LeaderPC
<1>5. ASSUME NEW c \in Caller, Wake(c) PROVE TypeOK'
  BY <1>5 DEF TypeOK, Wake, Return, Move, provider, time, Leads, PC, LeaderPC
<1>6. ASSUME NEW c \in Caller, RedeemSucceeds(c) PROVE TypeOK'
  BY <1>6 DEF TypeOK, RedeemSucceeds, Move, provider, time, Leads, PC, LeaderPC
<1>7. ASSUME NEW c \in Caller, RedeemFails(c) PROVE TypeOK'
  <2>1. AfterRedeem \in PC
    BY DEF AfterRedeem, AfterSSO, PC, LeaderPC
  <2> DEFINE taken == [redeemable EXCEPT ![arg[c]] = @ \ {snap[c].rt}]
  <2>2. redeemable' = redeemable \/ redeemable' = taken
    BY <1>7 DEF RedeemFails
  <2>3. taken \in [Account -> SUBSET Gen]
    BY DEF TypeOK
  <2> HIDE DEF taken
  <2> QED
    BY <1>7, <2>1, <2>2, <2>3 DEF TypeOK, RedeemFails, Move, time
<1>8. ASSUME NEW c \in Caller, SSOSucceeds(c) PROVE TypeOK'
  BY <1>8 DEF TypeOK, SSOSucceeds, Mint, Move, provider, time, Leads, PC, LeaderPC
<1>9. ASSUME NEW c \in Caller, SSOFails(c) PROVE TypeOK'
  BY <1>9 DEF TypeOK, SSOFails, AfterSSO, Move, provider, time, Leads, PC, LeaderPC
<1>10. ASSUME NEW c \in Caller, LaunchChromium(c) PROVE TypeOK'
  BY <1>10 DEF TypeOK, LaunchChromium, Move, provider, time, Leads, PC, LeaderPC
<1>11. ASSUME NEW c \in Caller, ChromiumSucceeds(c) PROVE TypeOK'
  BY <1>11 DEF TypeOK, ChromiumSucceeds, Move, provider, time, Leads, PC, LeaderPC
<1>12. ASSUME NEW c \in Caller, ChromiumFails(c) PROVE TypeOK'
  BY <1>12 DEF TypeOK, ChromiumFails, Move, provider, time, Leads, PC, LeaderPC
<1>13. ASSUME NEW c \in Caller, CommitFailure(c) PROVE TypeOK'
  <2>1. memory' \in [Account -> Record] /\ disk' \in [Account -> Record]
    BY <1>13, WriteBackType DEF CommitFailure
  <2>2. flights' \in [FlightId -> FlightRecord]
    BY <1>13 DEF TypeOK, CommitFailure, FlightRecord
  <2> QED
    BY <1>13, <2>1, <2>2
    DEF TypeOK, CommitFailure, Forget, Move, provider, time, PC, LeaderPC
<1>14. ASSUME NEW c \in Caller, CommitSuccess(c) PROVE TypeOK'
  <2> DEFINE acc == Upserted(memory[arg[c]], tok[c])
             m == [memory EXCEPT ![arg[c]] = acc]
  <2>1. acc \in Record
    BY <1>14 DEF TypeOK, CommitSuccess
  <2>2. m \in [Account -> Record]
    BY <2>1 DEF TypeOK
  <2>3. PICK saved \in BOOLEAN :
          /\ memory' = m
          /\ Save(m, saved)
          /\ flights' = [flights EXCEPT ![flight[c]].acc = acc, ![flight[c]].ok = saved]
    BY <1>14 DEF CommitSuccess
  <2>4. disk' \in [Account -> Record]
    BY <2>2, <2>3, SaveType
  <2>5. flights' \in [FlightId -> FlightRecord]
    BY <2>1, <2>3 DEF TypeOK, FlightRecord
  <2> HIDE DEF m, acc
  <2> QED
    BY <1>14, <2>2, <2>3, <2>4, <2>5
    DEF TypeOK, CommitSuccess, Forget, Move, provider, time, PC, LeaderPC
<1>15. ASSUME NEW c \in Caller, Close(c) PROVE TypeOK'
  BY <1>15 DEF TypeOK, Close, Move, provider, time, Leads, PC, LeaderPC, FlightRecord
<1>16. ASSUME NEW c \in Caller, Clear(c) PROVE TypeOK'
  BY <1>16 DEF TypeOK, Clear, Return, Move, provider, time, Leads, PC, LeaderPC
<1>17. ASSUME NEW a \in Account, Login(a) PROVE TypeOK'
  <2> DEFINE m == [memory EXCEPT ![a] =
                     Upserted(@, [at |-> minted[a] + 1, rt |-> minted[a] + 1])]
  <2>1. minted[a] + 1 \in 1..MaxGen /\ minted[a] + 1 \in Gen
    BY <1>17 DEF TypeOK, Login, Mint
  <2>2. m \in [Account -> Record]
    BY <2>1 DEF TypeOK
  <2>3. memory' = m /\ disk' \in [Account -> Record]
    BY <1>17, <2>2, SaveType DEF Login
  <2> HIDE DEF m
  <2> QED
    BY <1>17, <2>1, <2>2, <2>3 DEF TypeOK, Login, Mint, locals, time
<1>18. ASSUME NEW a \in Account, Delete(a) PROVE TypeOK'
  BY <1>18 DEF TypeOK, Delete, Save, locals, provider, time
<1>19. ASSUME NEW a \in Account, Import(a) PROVE TypeOK'
  <2>1. PICK g \in 1..minted[a] :
          LET m == [memory EXCEPT ![a] = [status |-> "online", at |-> g, rt |-> g]]
          IN \E saved \in BOOLEAN :
               Save(m, saved) /\ memory' = IF saved THEN m ELSE memory
    BY <1>19 DEF Import
  <2> DEFINE m == [memory EXCEPT ![a] = [status |-> "online", at |-> g, rt |-> g]]
  <2>2. m \in [Account -> Record]
    BY DEF TypeOK
  <2>3. memory' \in {m, memory} /\ disk' \in [Account -> Record]
    BY <2>1, <2>2, SaveType
  <2> HIDE DEF m
  <2> QED
    BY <1>19, <2>2, <2>3 DEF TypeOK, Import, locals, provider, time
<1>20. ASSUME NEW a \in Account, Expire(a) \/ FallDue(a) PROVE TypeOK'
  BY <1>20 DEF TypeOK, Expire, FallDue, locals, provider
<1>21. CASE Crash
  BY <1>21 DEF TypeOK, Crash, provider, time, Leads, PC, LeaderPC
<1>22. CASE UNCHANGED vars
  BY <1>22 DEF TypeOK, vars
<1>23. QED
  BY <1>1, <1>2, <1>3, <1>4, <1>5, <1>6, <1>7, <1>8, <1>9, <1>10, <1>11, <1>12,
     <1>13, <1>14, <1>15, <1>16, <1>17, <1>18, <1>19, <1>20, <1>21, <1>22
  DEF Next, Step


-----------------------------------------------------------------------------
(* Single flight *)

\* A step that touches no caller and no flight keeps the flights in order.
LEMMA EnvironmentStep ==
  ASSUME FlightInv, UNCHANGED <<pc, arg, flight, inflight, flights>>
  PROVE  FlightInv'
BY DEF FlightInv, Located, Registered, OneLeaderPerFlight, Progress,
       NoStrandedWaiter, Leads

\* So does a leader's step from one stage of its refresh to another, before it
\* removes the flight: it stays the leader of its account and of its flight.
LEMMA LeaderStep ==
  ASSUME TypeOK, FlightInv, NEW c \in Caller, NEW l \in LeaderPC,
         Leads(c), pc[c] # "clear", pc' = [pc EXCEPT ![c] = l],
         UNCHANGED <<arg, flight, inflight>>,
         \A f \in FlightId : flights[f].done => flights'[f].done,
         l = "clear" => flights'[flight[c]].done
  PROVE  FlightInv'
<1> USE DEF FlightInv, TypeOK
<1>1. \A d \in Caller : Leads(d)' <=> Leads(d)
  BY DEF Leads
<1>2. \A d \in Caller : d # c => pc'[d] = pc[d]
  OBVIOUS
<1>3. pc'[c] = l /\ pc'[c] # "wait" /\ pc'[c] \notin {"idle", "join", "mark"}
  BY DEF LeaderPC
<1>4. Located' /\ Registered' /\ OneLeaderPerFlight'
  BY <1>1, <1>2, <1>3 DEF Located, Registered, OneLeaderPerFlight, Leads, LeaderPC
<1>5. Progress'
  BY <1>1, <1>2, <1>3 DEF Progress, Located, Leads, LeaderPC
<1>6. NoStrandedWaiter'
  BY <1>1, <1>2, <1>3 DEF NoStrandedWaiter, Located, Leads
<1> QED
  BY <1>4, <1>5, <1>6

\* A caller that has not joined a flight yet may set its locals and move on.
LEMMA LonerStep ==
  ASSUME TypeOK, FlightInv, NEW c \in Caller, NEW l \in {"idle", "join", "mark"},
         NEW a \in Account \cup {NoAccount}, l # "idle" => a \in Account,
         pc[c] \in {"idle", "join", "mark"},
         pc' = [pc EXCEPT ![c] = l], arg' = [arg EXCEPT ![c] = a],
         flight' = [flight EXCEPT ![c] = 0], UNCHANGED inflight,
         \A d \in Caller : flight[d] \in FlightId => flights'[flight[d]] = flights[flight[d]]
  PROVE  FlightInv'
<1> USE DEF FlightInv, TypeOK
<1>1. ~Leads(c) /\ ~Leads(c)' /\ flight[c] = 0 /\ pc'[c] = l /\ flight'[c] = 0
  BY DEF Leads, LeaderPC, Progress
<1>2. \A d \in Caller : d # c => /\ pc'[d] = pc[d] /\ arg'[d] = arg[d]
                               /\ flight'[d] = flight[d] /\ (Leads(d)' <=> Leads(d))
  BY DEF Leads
<1>3. Located'
  BY <1>1, <1>2 DEF Located, Leads, LeaderPC
<1>4. Registered'
  BY <1>1, <1>2 DEF Registered
<1>5. OneLeaderPerFlight'
  BY <1>1, <1>2 DEF OneLeaderPerFlight
<1>6. Progress'
  BY <1>1, <1>2 DEF Progress, Located, Leads, LeaderPC
<1>7. NoStrandedWaiter'
  BY <1>1, <1>2 DEF NoStrandedWaiter, Located
<1> QED
  BY <1>3, <1>4, <1>5, <1>6, <1>7

\* Collecting unreferenced flights, as Return does, leaves alone every flight
\* that another caller refers to.
LEMMA ReturnKeepsFlights ==
  ASSUME TypeOK, NEW c \in Caller, Return(c), NEW d \in Caller, d # c,
         flight[d] \in FlightId
  PROVE  flights'[flight[d]] = flights[flight[d]]
BY DEF TypeOK, Return

\* Creating a flight: its object is nobody's, and its account had none.
LEMMA LeadStep ==
  ASSUME TypeOK, FlightInv, NEW c \in Caller, Lead(c)
  PROVE  FlightInv'
<1> USE DEF FlightInv, TypeOK
<1>1. PICK f \in FlightId :
        /\ Unreferenced(f)
        /\ inflight' = [inflight EXCEPT ![arg[c]] = f]
        /\ flights' = [flights EXCEPT ![f] = NewFlight]
        /\ flight' = [flight EXCEPT ![c] = f]
  BY DEF Lead
<1>2. /\ pc[c] = "join" /\ pc' = [pc EXCEPT ![c] = "redeem"] /\ arg' = arg
      /\ inflight[arg[c]] = 0 /\ arg[c] \in Account
  BY DEF Lead, Move, Located
<1>3. /\ ~Leads(c) /\ Leads(c)' /\ pc'[c] = "redeem" /\ flight'[c] = f
      /\ f # 0 /\ inflight'[arg[c]] = f
  BY <1>1, <1>2, NFlightsAssumption DEF Leads, LeaderPC, FlightId
<1>4. \A d \in Caller : d # c => /\ pc'[d] = pc[d] /\ flight'[d] = flight[d]
                               /\ (Leads(d)' <=> Leads(d)) /\ flight[d] # f
  BY <1>1, <1>2 DEF Leads, Unreferenced
<1>5. \A d \in Caller : flight[d] \in FlightId => flights'[flight[d]] = flights[flight[d]]
  BY <1>1 DEF Unreferenced
<1>6. Located'
  BY <1>1, <1>2, <1>3, <1>4 DEF Located
<1>7. Registered'
  <2>1. ASSUME NEW d \in Caller, Leads(d)' PROVE inflight'[arg[d]] = flight'[d]
    <3>1. CASE d = c
      BY <3>1, <1>3
    <3>2. CASE d # c
      <4>1. Leads(d) /\ inflight[arg[d]] = flight[d] /\ flight[d] \in FlightId
        BY <3>2, <2>1, <1>4 DEF Registered, Located
      <4>2. flight[d] # 0
        BY <4>1, NFlightsAssumption DEF FlightId
      <4>3. arg[d] # arg[c]
        BY <4>1, <4>2, <1>2
      <4> QED
        BY <3>2, <4>1, <4>3, <1>1, <1>4
    <3> QED
      BY <3>1, <3>2
  <2>2. ASSUME NEW a \in Account, inflight'[a] # 0
        PROVE  \E d \in Caller : Leads(d)' /\ arg'[d] = a
    <3>1. CASE a = arg[c]
      BY <3>1, <1>2, <1>3
    <3>2. CASE a # arg[c]
      <4>1. PICK d \in Caller : Leads(d) /\ arg[d] = a
        BY <3>2, <2>2, <1>1 DEF Registered
      <4> QED
        BY <4>1, <3>2, <1>2, <1>4
    <3> QED
      BY <3>1, <3>2
  <2> QED
    BY <2>1, <2>2, <1>2 DEF Registered
<1>8. OneLeaderPerFlight'
  BY <1>3, <1>4 DEF OneLeaderPerFlight
<1>9. Progress'
  BY <1>3, <1>4, <1>5 DEF Progress, Located, Leads, LeaderPC
<1>10. NoStrandedWaiter'
  <2> SUFFICES ASSUME NEW w \in Caller, pc'[w] = "wait"
               PROVE  \/ flights'[flight'[w]].done
                      \/ \E d \in Caller : /\ Leads(d)' /\ flight'[d] = flight'[w]
                                         /\ arg'[d] = arg'[w]
    BY DEF NoStrandedWaiter
  <2>1. w # c /\ pc[w] = "wait" /\ flight[w] \in FlightId /\ flight'[w] = flight[w]
    BY <1>3, <1>4 DEF Located
  <2>2. CASE flights[flight[w]].done
    BY <2>1, <2>2, <1>5
  <2>3. CASE \E d \in Caller : Leads(d) /\ flight[d] = flight[w] /\ arg[d] = arg[w]
    <3>1. PICK d \in Caller : Leads(d) /\ flight[d] = flight[w] /\ arg[d] = arg[w]
      BY <2>3
    <3> QED
      BY <3>1, <2>1, <1>2, <1>3, <1>4
  <2> QED
    BY <2>1, <2>2, <2>3 DEF NoStrandedWaiter
<1> QED
  BY <1>6, <1>7, <1>8, <1>9, <1>10

\* Joining a flight: the registered one has a leader, who serves the joiner too.
LEMMA JoinStep ==
  ASSUME TypeOK, FlightInv, NEW c \in Caller, Join(c)
  PROVE  FlightInv'
<1> USE DEF FlightInv, TypeOK
<1>1. /\ pc[c] = "join" /\ pc' = [pc EXCEPT ![c] = "wait"] /\ arg[c] \in Account
      /\ flight' = [flight EXCEPT ![c] = inflight[arg[c]]] /\ inflight[arg[c]] # 0
      /\ UNCHANGED <<arg, inflight, flights>>
  BY DEF Join, Move, Located
<1>2. PICK e \in Caller : Leads(e) /\ arg[e] = arg[c] /\ flight[e] = inflight[arg[c]]
  BY <1>1 DEF Registered
<1>3. ~Leads(c) /\ ~Leads(c)' /\ pc'[c] = "wait" /\ flight'[c] = flight[e] /\ e # c
  BY <1>1, <1>2 DEF Leads, LeaderPC
<1>4. \A d \in Caller : d # c => /\ pc'[d] = pc[d] /\ flight'[d] = flight[d]
                               /\ (Leads(d)' <=> Leads(d))
  BY <1>1 DEF Leads
<1>5. Located'
  BY <1>1, <1>2, <1>3, <1>4 DEF Located
<1>6. Registered'
  BY <1>1, <1>3, <1>4 DEF Registered
<1>7. OneLeaderPerFlight'
  BY <1>3, <1>4 DEF OneLeaderPerFlight
<1>8. Progress'
  BY <1>1, <1>3, <1>4 DEF Progress
<1>9. NoStrandedWaiter'
  BY <1>1, <1>2, <1>3, <1>4 DEF NoStrandedWaiter
<1> QED
  BY <1>5, <1>6, <1>7, <1>8, <1>9

\* The leader removes its flight: it is done by then, so nobody is left waiting.
LEMMA ClearStep ==
  ASSUME TypeOK, FlightInv, NEW c \in Caller, Clear(c)
  PROVE  FlightInv'
<1> USE DEF FlightInv, TypeOK
<1>1. /\ pc[c] = "clear" /\ pc' = [pc EXCEPT ![c] = "idle"]
      /\ arg' = [arg EXCEPT ![c] = NoAccount] /\ flight' = [flight EXCEPT ![c] = 0]
      /\ inflight' = [inflight EXCEPT ![arg[c]] = 0]
  BY DEF Clear, Return, Move
<1>2. /\ Leads(c) /\ ~Leads(c)' /\ pc'[c] = "idle" /\ flight'[c] = 0
      /\ flights[flight[c]].done /\ arg[c] \in Account /\ flight[c] # 0
  BY <1>1, NFlightsAssumption DEF Leads, LeaderPC, Progress, Located, FlightId
<1>3. \A d \in Caller : d # c => /\ pc'[d] = pc[d] /\ flight'[d] = flight[d]
                               /\ arg'[d] = arg[d] /\ (Leads(d)' <=> Leads(d))
  BY <1>1 DEF Leads
<1>4. \A d \in Caller : d # c /\ flight[d] \in FlightId
                        => flights'[flight[d]] = flights[flight[d]]
  BY ReturnKeepsFlights DEF Clear
<1>5. \A d \in Caller : d # c /\ Leads(d) => arg[d] # arg[c]
  BY <1>2 DEF Registered, OneLeaderPerFlight
<1>6. Located'
  BY <1>2, <1>3 DEF Located
<1>7. Registered'
  BY <1>1, <1>2, <1>3, <1>5 DEF Registered, Located
<1>8. OneLeaderPerFlight'
  BY <1>2, <1>3 DEF OneLeaderPerFlight
<1>9. Progress'
  BY <1>2, <1>3, <1>4 DEF Progress, Located, Leads, LeaderPC
<1>10. NoStrandedWaiter'
  <2> SUFFICES ASSUME NEW w \in Caller, pc'[w] = "wait"
               PROVE  \/ flights'[flight'[w]].done
                      \/ \E d \in Caller : /\ Leads(d)' /\ flight'[d] = flight'[w]
                                         /\ arg'[d] = arg'[w]
    BY DEF NoStrandedWaiter
  <2>1. /\ w # c /\ pc[w] = "wait" /\ flight[w] \in FlightId /\ flight'[w] = flight[w]
        /\ flights'[flight[w]] = flights[flight[w]] /\ arg'[w] = arg[w]
    BY <1>2, <1>3, <1>4 DEF Located
  <2>2. CASE flights[flight[w]].done
    BY <2>1, <2>2
  <2>3. CASE ~flights[flight[w]].done
    <3>1. PICK d \in Caller : Leads(d) /\ flight[d] = flight[w] /\ arg[d] = arg[w]
      BY <2>1, <2>3 DEF NoStrandedWaiter
    <3>2. d # c
      BY <3>1, <2>3, <1>2
    <3> QED
      BY <3>1, <3>2, <2>1, <1>3
  <2> QED
    BY <2>2, <2>3
<1> QED
  BY <1>6, <1>7, <1>8, <1>9, <1>10

\* A waiter that wakes up leaves its flight to the others.
LEMMA WakeStep ==
  ASSUME TypeOK, FlightInv, NEW c \in Caller, Wake(c)
  PROVE  FlightInv'
<1> USE DEF FlightInv, TypeOK
<1>1. /\ pc[c] = "wait" /\ pc' = [pc EXCEPT ![c] = "idle"]
      /\ arg' = [arg EXCEPT ![c] = NoAccount] /\ flight' = [flight EXCEPT ![c] = 0]
      /\ UNCHANGED inflight
  BY DEF Wake, Return, Move
<1>2. ~Leads(c) /\ ~Leads(c)' /\ pc'[c] = "idle" /\ flight'[c] = 0
  BY <1>1 DEF Leads, LeaderPC
<1>3. \A d \in Caller : d # c => /\ pc'[d] = pc[d] /\ flight'[d] = flight[d]
                               /\ arg'[d] = arg[d] /\ (Leads(d)' <=> Leads(d))
  BY <1>1 DEF Leads
<1>4. \A d \in Caller : d # c /\ flight[d] \in FlightId
                        => flights'[flight[d]] = flights[flight[d]]
  BY ReturnKeepsFlights DEF Wake
<1>5. Located' /\ Registered' /\ OneLeaderPerFlight'
  BY <1>1, <1>2, <1>3 DEF Located, Registered, OneLeaderPerFlight
<1>6. Progress'
  BY <1>2, <1>3, <1>4 DEF Progress, Located, Leads, LeaderPC
<1>7. NoStrandedWaiter'
  BY <1>2, <1>3, <1>4 DEF NoStrandedWaiter, Located
<1> QED
  BY <1>5, <1>6, <1>7

\* Marking an account without a refresh token touches no flight that is in use.
LEMMA MarkStep ==
  ASSUME TypeOK, FlightInv, NEW c \in Caller, MarkExpired(c)
  PROVE  FlightInv'
<1>1. \A d \in Caller : flight[d] \in FlightId => flights'[flight[d]] = flights[flight[d]]
  <2>1. flight[c] = 0
    BY DEF MarkExpired, FlightInv, Progress
  <2> QED
    BY <2>1, ReturnKeepsFlights, NFlightsAssumption DEF MarkExpired, FlightId
<1> QED
  BY <1>1, LonerStep DEF MarkExpired, Return, Move

\* Every step of a well-typed state keeps the part about flights.
LEMMA StepFlights ==
  ASSUME TypeOK, FlightInv, [Next]_vars
  PROVE  FlightInv'
<1>1. ASSUME NEW c \in Caller, NEW a \in Account, EnsureValid(c, a) PROVE FlightInv'
  <2> DEFINE l == IF ~(Interval /\ memory[a].at <= due[a]) /\ memory[a].rt = 0
                    THEN "mark" ELSE "join"
  <2>1. /\ pc[c] = "idle" /\ pc' = [pc EXCEPT ![c] = l] /\ arg' = [arg EXCEPT ![c] = a]
        /\ UNCHANGED <<flight, inflight, flights>>
    BY <1>1 DEF EnsureValid, Move
  <2>2. flight' = [flight EXCEPT ![c] = 0]
    BY <2>1 DEF FlightInv, Progress, TypeOK
  <2>3. l \in {"join", "mark"}
    OBVIOUS
  <2>4. \A d \in Caller : flight[d] \in FlightId => flights'[flight[d]] = flights[flight[d]]
    BY <2>1
  <2>5. pc[c] \in {"idle", "join", "mark"} /\ UNCHANGED inflight
    BY <2>1
  <2> HIDE DEF l
  <2> QED
    BY <2>1, <2>2, <2>3, <2>4, <2>5, LonerStep
<1>2. ASSUME NEW c \in Caller, RedeemSucceeds(c) PROVE FlightInv'
  BY <1>2, LeaderStep DEF RedeemSucceeds, Move, Leads, LeaderPC
<1>3. ASSUME NEW c \in Caller, RedeemFails(c) PROVE FlightInv'
  <2>1. AfterRedeem \in LeaderPC \ {"clear"}
    BY DEF AfterRedeem, AfterSSO, LeaderPC
  <2> QED
    BY <1>3, <2>1, LeaderStep DEF RedeemFails, Move, Leads, LeaderPC
<1>4. ASSUME NEW c \in Caller, SSOSucceeds(c) PROVE FlightInv'
  BY <1>4, LeaderStep DEF SSOSucceeds, Move, Leads, LeaderPC
<1>5. ASSUME NEW c \in Caller, SSOFails(c) PROVE FlightInv'
  <2>1. AfterSSO \in LeaderPC \ {"clear"}
    BY DEF AfterSSO, LeaderPC
  <2> QED
    BY <1>5, <2>1, LeaderStep DEF SSOFails, Move, Leads, LeaderPC
<1>6. ASSUME NEW c \in Caller, LaunchChromium(c) PROVE FlightInv'
  BY <1>6, LeaderStep DEF LaunchChromium, Move, Leads, LeaderPC
<1>7. ASSUME NEW c \in Caller, ChromiumSucceeds(c) \/ ChromiumFails(c) PROVE FlightInv'
  BY <1>7, LeaderStep DEF ChromiumSucceeds, ChromiumFails, Move, Leads, LeaderPC
<1>8. ASSUME NEW c \in Caller, CommitFailure(c) \/ CommitSuccess(c) PROVE FlightInv'
  <2>1. \A f \in FlightId : flights'[f].done = flights[f].done
    <3>1. CASE CommitFailure(c)
      BY <3>1 DEF CommitFailure, TypeOK, FlightRecord
    <3>2. CASE CommitSuccess(c)
      <4>1. PICK acc, saved :
              flights' = [flights EXCEPT ![flight[c]].acc = acc, ![flight[c]].ok = saved]
        BY <3>2 DEF CommitSuccess
      <4> QED
        BY <4>1 DEF TypeOK, FlightRecord
    <3> QED
      BY <1>8, <3>1, <3>2
  <2>2. /\ pc[c] \in {"fail", "commit"} /\ pc' = [pc EXCEPT ![c] = "close"]
        /\ UNCHANGED <<arg, flight, inflight>>
    BY <1>8 DEF CommitFailure, CommitSuccess, Move
  <2>3. Leads(c) /\ "close" \in LeaderPC /\ pc[c] # "clear"
    BY <2>2 DEF Leads, LeaderPC
  <2> QED
    BY <2>1, <2>2, <2>3, LeaderStep
<1>9. ASSUME NEW c \in Caller, Close(c) PROVE FlightInv'
  <2>1. flight[c] \in FlightId
    BY <1>9 DEF Close, FlightInv, Located, Leads, LeaderPC
  <2>2. /\ \A f \in FlightId : flights[f].done => flights'[f].done
        /\ flights'[flight[c]].done
    BY <1>9, <2>1 DEF Close, TypeOK, FlightRecord
  <2> QED
    BY <1>9, <2>2, LeaderStep DEF Close, Move, Leads, LeaderPC
<1>10. ASSUME NEW a \in Account,
              Login(a) \/ Delete(a) \/ Import(a) \/ Expire(a) \/ FallDue(a)
       PROVE FlightInv'
  BY <1>10, EnvironmentStep DEF Login, Delete, Import, Expire, FallDue, locals
<1>11. CASE Crash
  BY <1>11 DEF Crash, FlightInv, Located, Registered, OneLeaderPerFlight, Progress,
       NoStrandedWaiter, Leads, LeaderPC
<1>12. CASE UNCHANGED vars
  BY <1>12, EnvironmentStep DEF vars
<1>13. QED
  BY <1>1, <1>2, <1>3, <1>4, <1>5, <1>6, <1>7, <1>8, <1>9, <1>10, <1>11, <1>12,
     MarkStep, LeadStep, JoinStep, WakeStep, ClearStep
  DEF Next, Step

\* IInv holds in every reachable state.
THEOREM Invariance == Spec => []IInv
<1>1. Init => IInv
  BY InitType DEF Init, IInv, FlightInv, Located, Registered, OneLeaderPerFlight,
     Progress, NoStrandedWaiter, Leads, LeaderPC
<1>2. IInv /\ [Next]_vars => IInv'
  BY StepType, StepFlights DEF IInv, FlightInv
<1>3. QED
  BY <1>1, <1>2, PTL DEF Spec

\* Every variable of the store keeps its type, for all values of the constants.
THEOREM TypeCorrect == Spec => []TypeOK
<1>1. IInv => TypeOK
  BY DEF IInv
<1>2. QED
  BY <1>1, Invariance, PTL

\* However many goroutines call EnsureValid, and whatever the admin plane does
\* meanwhile, at most one of them is refreshing an account.
THEOREM SingleFlight == Spec => []OneLeaderPerAccount
<1>1. IInv => OneLeaderPerAccount
  BY DEF IInv, FlightInv, Registered, OneLeaderPerFlight, OneLeaderPerAccount
<1>2. QED
  BY <1>1, Invariance, PTL

\* A goroutine that waits for a flight waits for one that is done or that some
\* goroutine is still working on.
THEOREM WaitersAreServed == Spec => []NoStrandedWaiter
<1>1. IInv => NoStrandedWaiter
  BY DEF IInv, FlightInv
<1>2. QED
  BY <1>1, Invariance, PTL
-----------------------------------------------------------------------------
(* Outcomes: what a flight leaves on disk, and what it may not undo *)

\* cdpMu is held by the caller that runs a Chromium, and by no other.
ChromiumHeld == \A c \in Caller : pc[c] = "chromium" => chromium = {c}

\* A flight is not done before its leader closes it.
NotDoneYet == \A c \in Caller : Leads(c) /\ pc[c] # "clear" => ~flights[flight[c]].done

\* A step that takes no caller into the Chromium and leaves the lock alone.
LEMMA ChromiumUntouched ==
  ASSUME ChromiumHeld, UNCHANGED chromium,
         \A c \in Caller : pc'[c] = "chromium" => pc[c] = "chromium"
  PROVE  ChromiumHeld'
BY DEF ChromiumHeld

\* Every step leaves the lock with the caller that runs the Chromium.
LEMMA StepChromium ==
  ASSUME TypeOK, ChromiumHeld, [Next]_vars
  PROVE  ChromiumHeld'
<1> USE DEF TypeOK
<1>1. ASSUME NEW c \in Caller, LaunchChromium(c) PROVE ChromiumHeld'
  BY <1>1 DEF LaunchChromium, Move, ChromiumHeld
<1>2. ASSUME NEW c \in Caller, ChromiumSucceeds(c) \/ ChromiumFails(c) PROVE ChromiumHeld'
  <2>1. chromium = {c}
    BY <1>2 DEF ChromiumSucceeds, ChromiumFails, ChromiumHeld
  <2>2. \A d \in Caller : pc'[d] = "chromium" => pc[d] = "chromium" /\ d # c
    BY <1>2 DEF ChromiumSucceeds, ChromiumFails, Move
  <2> QED
    BY <2>1, <2>2 DEF ChromiumHeld
<1>3. ASSUME NEW c \in Caller, NEW a \in Account, EnsureValid(c, a) PROVE ChromiumHeld'
  BY <1>3, ChromiumUntouched DEF EnsureValid, Move
<1>4. ASSUME NEW c \in Caller,
             MarkExpired(c) \/ Lead(c) \/ Join(c) \/ Wake(c) \/ Clear(c) \/ Close(c)
      PROVE  ChromiumHeld'
  BY <1>4, ChromiumUntouched DEF MarkExpired, Lead, Join, Wake, Clear, Close, Return, Move
<1>5. ASSUME NEW c \in Caller,
             RedeemSucceeds(c) \/ RedeemFails(c) \/ SSOSucceeds(c) \/ SSOFails(c)
      PROVE  ChromiumHeld'
  BY <1>5, ChromiumUntouched
  DEF RedeemSucceeds, RedeemFails, SSOSucceeds, SSOFails, AfterRedeem, AfterSSO, Move
<1>6. ASSUME NEW c \in Caller, CommitFailure(c) \/ CommitSuccess(c) PROVE ChromiumHeld'
  BY <1>6, ChromiumUntouched DEF CommitFailure, CommitSuccess, Move
<1>7. ASSUME NEW a \in Account,
             Login(a) \/ Delete(a) \/ Import(a) \/ Expire(a) \/ FallDue(a)
      PROVE  ChromiumHeld'
  BY <1>7, ChromiumUntouched DEF Login, Delete, Import, Expire, FallDue, locals
<1>8. CASE Crash
  BY <1>8 DEF Crash, ChromiumHeld
<1>9. CASE UNCHANGED vars
  BY <1>9, ChromiumUntouched DEF vars
<1> QED
  BY <1>1, <1>2, <1>3, <1>4, <1>5, <1>6, <1>7, <1>8, <1>9 DEF Next, Step

\* Only one Chromium is alive at a time, whatever accounts are being recovered.
THEOREM ChromiumIsAlone == Spec => []OneChromium
<1>1. Init => ChromiumHeld
  BY DEF Init, ChromiumHeld
<1>2. TypeOK /\ ChromiumHeld /\ [Next]_vars => ChromiumHeld'
  BY StepChromium
<1>3. ChromiumHeld => OneChromium
  BY DEF ChromiumHeld, OneChromium
<1> QED
  BY <1>1, <1>2, <1>3, TypeCorrect, PTL DEF Spec

-----------------------------------------------------------------------------
\* A step that keeps every leader's flight, or starts one, or whose leader is one that was leading
\* before it closed its flight.
LEMMA NotDoneKept ==
  ASSUME NotDoneYet,
         \A c \in Caller : Leads(c)' /\ pc'[c] # "clear" =>
           /\ Leads(c) /\ pc[c] # "clear" /\ flight'[c] = flight[c]
           /\ flights'[flight[c]].done = flights[flight[c]].done
  PROVE  NotDoneYet'
BY DEF NotDoneYet

\* No step lets a flight be done while its leader has still to close it.
LEMMA StepNotDone ==
  ASSUME TypeOK, FlightInv, NotDoneYet, [Next]_vars
  PROVE  NotDoneYet'
<1> USE DEF TypeOK, FlightInv
<1>1. ASSUME NEW c \in Caller, NEW a \in Account, EnsureValid(c, a) PROVE NotDoneYet'
  BY <1>1, NotDoneKept DEF EnsureValid, Move, Leads, LeaderPC
<1>2. ASSUME NEW c \in Caller, MarkExpired(c) \/ Wake(c) \/ Clear(c) PROVE NotDoneYet'
  <2>1. Return(c)
    BY <1>2 DEF MarkExpired, Wake, Clear
  <2>2. \A d \in Caller : Leads(d)' => /\ d # c /\ pc'[d] = pc[d] /\ Leads(d)
                                     /\ flight'[d] = flight[d] /\ flight[d] \in FlightId
    BY <2>1 DEF Return, Move, Leads, LeaderPC, Located
  <2> QED
    BY <2>1, <2>2, ReturnKeepsFlights, NotDoneKept
<1>3. ASSUME NEW c \in Caller, Lead(c) PROVE NotDoneYet'
  <2>1. PICK f \in FlightId :
          /\ Unreferenced(f)
          /\ flights' = [flights EXCEPT ![f] = NewFlight]
          /\ flight' = [flight EXCEPT ![c] = f]
    BY <1>3 DEF Lead
  <2>2. ~flights'[flight'[c]].done
    BY <2>1 DEF NewFlight
  <2>3. \A d \in Caller : d # c => /\ pc'[d] = pc[d] /\ flight'[d] = flight[d]
                                 /\ flights'[flight[d]] = flights[flight[d]]
    BY <1>3, <2>1 DEF Lead, Move, Unreferenced
  <2> QED
    BY <2>2, <2>3 DEF NotDoneYet, Leads
<1>4. ASSUME NEW c \in Caller, Join(c) PROVE NotDoneYet'
  BY <1>4, NotDoneKept DEF Join, Move, Leads, LeaderPC
<1>5. ASSUME NEW c \in Caller,
             RedeemSucceeds(c) \/ RedeemFails(c) \/ SSOSucceeds(c) \/ SSOFails(c)
               \/ LaunchChromium(c) \/ ChromiumSucceeds(c) \/ ChromiumFails(c)
      PROVE  NotDoneYet'
  <2>1. /\ Leads(c) /\ pc[c] # "clear" /\ UNCHANGED <<flight, flights>>
        /\ \A d \in Caller : d # c => pc'[d] = pc[d]
    BY <1>5 DEF RedeemSucceeds, RedeemFails, SSOSucceeds, SSOFails, LaunchChromium,
                ChromiumSucceeds, ChromiumFails, Move, Leads, LeaderPC
  <2> QED
    BY <2>1, NotDoneKept DEF Leads
<1>6. ASSUME NEW c \in Caller, CommitFailure(c) \/ CommitSuccess(c) PROVE NotDoneYet'
  <2>1. \A f \in FlightId : flights'[f].done = flights[f].done
    <3>1. CASE CommitFailure(c)
      BY <3>1 DEF CommitFailure, FlightRecord
    <3>2. CASE CommitSuccess(c)
      <4>1. PICK acc, saved :
              flights' = [flights EXCEPT ![flight[c]].acc = acc, ![flight[c]].ok = saved]
        BY <3>2 DEF CommitSuccess
      <4> QED
        BY <4>1 DEF FlightRecord
    <3> QED
      BY <1>6, <3>1, <3>2
  <2>2. /\ Leads(c) /\ pc[c] # "clear" /\ UNCHANGED flight
        /\ \A d \in Caller : d # c => pc'[d] = pc[d]
    BY <1>6 DEF CommitFailure, CommitSuccess, Move, Leads, LeaderPC
  <2> QED
    BY <2>1, <2>2, NotDoneKept DEF Leads, Located
<1>7. ASSUME NEW c \in Caller, Close(c) PROVE NotDoneYet'
  <2>1. Leads(c) /\ pc'[c] = "clear" /\ UNCHANGED flight
    BY <1>7 DEF Close, Move, Leads, LeaderPC
  <2>2. \A d \in Caller : d # c => pc'[d] = pc[d] /\ (Leads(d)' <=> Leads(d))
    BY <1>7 DEF Close, Move, Leads
  <2>3. \A d \in Caller : d # c /\ Leads(d) => flights'[flight[d]] = flights[flight[d]]
    BY <1>7, <2>1 DEF Close, OneLeaderPerFlight, Located
  <2> QED
    BY <2>1, <2>2, <2>3, NotDoneKept
<1>8. ASSUME NEW a \in Account,
             Login(a) \/ Delete(a) \/ Import(a) \/ Expire(a) \/ FallDue(a)
      PROVE  NotDoneYet'
  BY <1>8, NotDoneKept DEF Login, Delete, Import, Expire, FallDue, locals, Leads
<1>9. CASE Crash
  BY <1>9 DEF Crash, NotDoneYet, Leads, LeaderPC
<1>10. CASE UNCHANGED vars
  BY <1>10, NotDoneKept DEF vars, Leads
<1> QED
  BY <1>1, <1>2, <1>3, <1>4, <1>5, <1>6, <1>7, <1>8, <1>9, <1>10 DEF Next, Step

\* Whoever refers to the flight of a leader that has not closed it called for the same account.
LEMMA SameAccount ==
  ASSUME TypeOK, FlightInv, NotDoneYet, NEW c \in Caller, NEW d \in Caller,
         Leads(d), pc[d] # "clear", flight[c] = flight[d]
  PROVE  arg[c] = arg[d]
<1> USE DEF TypeOK, FlightInv
<1>1. flight[c] # 0
  BY NFlightsAssumption DEF Located, FlightId
<1>2. pc[c] = "wait" \/ Leads(c)
  BY <1>1 DEF Progress, PC, Leads
<1>3. CASE Leads(c)
  BY <1>3 DEF OneLeaderPerFlight
<1>4. CASE pc[c] = "wait"
  <2>1. PICK e \in Caller : Leads(e) /\ flight[e] = flight[c] /\ arg[e] = arg[c]
    BY <1>4 DEF NoStrandedWaiter, NotDoneYet
  <2> QED
    BY <2>1 DEF OneLeaderPerFlight
<1> QED
  BY <1>2, <1>3, <1>4

\* The step that SuccessIsSaved speaks of.
Saved ==
  \A c \in Caller :
    (flight[c] # 0 /\ flight'[c] = flight[c] /\ ~flights[flight[c]].ok /\ flights'[flight[c]].ok)
      => disk'[arg[c]] = flights'[flight[c]].acc

\* A step that makes no flight succeed.
LEMMA NoSuccess ==
  ASSUME TypeOK, \A f \in FlightId : flights'[f].ok => flights[f].ok
  PROVE  Saved
BY NFlightsAssumption DEF TypeOK, Saved, FlightId

\* Only CommitSuccess makes a flight succeed, and it saves what the flight holds.
LEMMA StepSaved ==
  ASSUME TypeOK, FlightInv, NotDoneYet, [Next]_vars
  PROVE  Saved
<1> USE DEF TypeOK
<1>1. ASSUME NEW c \in Caller, CommitSuccess(c) PROVE Saved
  <2> DEFINE acc == Upserted(memory[arg[c]], tok[c])
             m == [memory EXCEPT ![arg[c]] = acc]
  <2>1. Leads(c) /\ pc[c] # "clear" /\ arg[c] \in Account /\ flight[c] \in FlightId
    BY <1>1 DEF CommitSuccess, Leads, LeaderPC, FlightInv, Located
  <2>2. PICK saved \in BOOLEAN :
          /\ Save(m, saved)
          /\ flights' = [flights EXCEPT ![flight[c]].acc = acc, ![flight[c]].ok = saved]
    BY <1>1 DEF CommitSuccess
  <2>3. m[arg[c]] = acc
    BY <2>1
  <2> HIDE DEF acc, m
  <2>4. /\ flights'[flight[c]].acc = acc /\ flights'[flight[c]].ok = saved
        /\ \A f \in FlightId : f # flight[c] => flights'[f] = flights[f]
    BY <2>1, <2>2 DEF FlightRecord
  <2> SUFFICES ASSUME NEW d \in Caller, flight[d] # 0, ~flights[flight[d]].ok, flights'[flight[d]].ok
               PROVE  disk'[arg[d]] = flights'[flight[d]].acc
    BY DEF Saved
  <2>5. flight[d] = flight[c] /\ saved
    BY <2>4, NFlightsAssumption DEF FlightId
  <2>6. arg[d] = arg[c]
    BY <2>1, <2>5, SameAccount
  <2>7. disk' = m
    BY <2>2, <2>5 DEF Save
  <2> QED
    BY <2>3, <2>4, <2>5, <2>6, <2>7
<1>2. ASSUME NEW c \in Caller, CommitFailure(c) PROVE Saved
  BY <1>2, NoSuccess DEF CommitFailure, FlightRecord
<1>3. ASSUME NEW c \in Caller, Close(c) PROVE Saved
  BY <1>3, NoSuccess DEF Close, FlightRecord
<1>4. ASSUME NEW c \in Caller, MarkExpired(c) \/ Wake(c) \/ Clear(c) PROVE Saved
  BY <1>4, NoSuccess DEF MarkExpired, Wake, Clear, Return, NewFlight
<1>5. ASSUME NEW c \in Caller, Lead(c) PROVE Saved
  BY <1>5, NoSuccess DEF Lead, NewFlight
<1>6. ASSUME UNCHANGED flights PROVE Saved
  BY <1>6, NoSuccess
<1>7. CASE Crash
  BY <1>7, NoSuccess DEF Crash, NewFlight
<1> QED
  BY <1>1, <1>2, <1>3, <1>4, <1>5, <1>6, <1>7
  DEF Next, Step, vars, EnsureValid, Join, RedeemSucceeds, RedeemFails, SSOSucceeds, SSOFails,
      LaunchChromium, ChromiumSucceeds, ChromiumFails, Login, Delete, Import, Expire, FallDue

\* A flight never succeeds without its tokens in accounts.json, for any callers and accounts.
THEOREM SuccessReachesDisk == Spec => SuccessIsSaved
<1>1. Init => NotDoneYet
  BY DEF Init, NotDoneYet, Leads, LeaderPC
<1>2. IInv /\ NotDoneYet /\ [Next]_vars => NotDoneYet'
  BY StepNotDone DEF IInv
<1>3. IInv /\ NotDoneYet /\ [Next]_vars => Saved
  BY StepSaved DEF IInv
<1> QED
  BY <1>1, <1>2, <1>3, Invariance, PTL DEF Spec, SuccessIsSaved, Saved

-----------------------------------------------------------------------------
\* Writing a copy back creates no account.
LEMMA WriteBackCreatesNothing ==
  ASSUME TypeOK, NEW c \in Caller, NEW ok \in BOOLEAN, WriteBack(c, ok),
         NEW a \in Account, ~Present(a)
  PROVE  memory'[a] = memory[a]
BY DEF WriteBack, TypeOK

\* The step that DeletedStaysDeleted speaks of.
StaysDeleted ==
  \A a \in Account : ~Present(a) /\ Present(a)' => memory'[a].status = "online" \/ memory' = disk

\* Only new tokens, an import or a restart create an account.
LEMMA StepStaysDeleted ==
  ASSUME TypeOK, [Next]_vars
  PROVE  StaysDeleted
<1> USE DEF TypeOK
<1>1. ASSUME NEW c \in Caller, MarkExpired(c) \/ CommitFailure(c) PROVE StaysDeleted
  <2>1. PICK saved \in BOOLEAN : WriteBack(c, saved)
    BY <1>1 DEF MarkExpired, CommitFailure
  <2> QED
    BY <2>1, WriteBackCreatesNothing DEF StaysDeleted, Present
<1>2. ASSUME NEW c \in Caller, CommitSuccess(c) PROVE StaysDeleted
  <2>1. memory' = [memory EXCEPT ![arg[c]] = Upserted(memory[arg[c]], tok[c])]
    BY <1>2 DEF CommitSuccess
  <2> QED
    BY <2>1 DEF StaysDeleted, Present, Upserted
<1>3. ASSUME NEW a \in Account, Login(a) PROVE StaysDeleted
  BY <1>3 DEF Login, StaysDeleted, Present, Upserted
<1>4. ASSUME NEW a \in Account, Delete(a) PROVE StaysDeleted
  BY <1>4 DEF Delete, StaysDeleted, Present, Absent
<1>5. ASSUME NEW a \in Account, Import(a) PROVE StaysDeleted
  <2>1. PICK g : memory' = [memory EXCEPT ![a] = [status |-> "online", at |-> g, rt |-> g]]
                 \/ memory' = memory
    BY <1>5 DEF Import
  <2> QED
    BY <2>1 DEF StaysDeleted, Present
<1>6. ASSUME UNCHANGED memory PROVE StaysDeleted
  BY <1>6 DEF StaysDeleted, Present
<1>7. CASE Crash
  BY <1>7 DEF Crash, StaysDeleted
<1> QED
  BY <1>1, <1>2, <1>3, <1>4, <1>5, <1>6, <1>7
  DEF Next, Step, vars, EnsureValid, Lead, Join, Wake, RedeemSucceeds, RedeemFails, SSOSucceeds,
      SSOFails, LaunchChromium, ChromiumSucceeds, ChromiumFails, Close, Clear, Expire, FallDue

\* Nobody who writes back a copy of a deleted account brings it back: only new tokens, an import
\* or a restart create an account, for any callers and accounts.
THEOREM DeletionLasts == Spec => DeletedStaysDeleted
<1>1. TypeOK /\ [Next]_vars => StaysDeleted
  BY StepStaysDeleted
<1> QED
  BY <1>1, TypeCorrect, PTL DEF Spec, DeletedStaysDeleted, StaysDeleted

-----------------------------------------------------------------------------
(* TokenManager. *)

\* A write under way has a token to write, so the account's file never ends up without one; a
\* mixture is the trace of writes that overlapped, an empty file that of a write under way, failed
\* or cut short.
KeptInv ==
  /\ \A p \in Proc : proc[p].pc \in {"openToken", "writeToken"} => proc[p].rt \in Token
  /\ refresh["m365"] # None
  /\ refresh["m365"] = Mixed => torn
  /\ refresh["m365"] = Empty => torn \/ \E p \in Proc : Of(p) = "m365" /\ At(p, "writeToken")

\* The inductive invariant of TokenManager.
SingleIInv == SingleTypeOK /\ KeptInv

-----------------------------------------------------------------------------
\* What is stored and what calls hold.
LEMMA SingleRecords ==
  /\ Idle \in CallRecord
  /\ \A f \in Family : [Idle EXCEPT !.pc = "cache", !.of = f] \in CallRecord
  /\ [Idle EXCEPT !.pc = "cache", !.of = "designer"] \in CallRecord
BY DEF CallRecord, Idle, Family, Token, None, Mixed

\* The initial state is well typed, and the account has a refresh token.
LEMMA SingleInitInv ==
  ASSUME MaxEvents \in Nat, SingleInit
  PROVE  SingleIInv
<1>1. refresh \in [Family -> Stored] /\ cache \in [Family -> Stored]
  BY DEF SingleInit, Family, Token, Stored, None, Empty, Mixed
<1>2. proc \in [Proc -> CallRecord]
  BY SingleRecords DEF SingleInit
<1>3. SingleTypeOK
  <2>1. events \in 0..MaxEvents
    BY DEF SingleInit
  <2>2. cookies \in Token \cup {None} /\ stopCh \in BOOLEAN /\ torn \in BOOLEAN
    BY DEF SingleInit
  <2> QED
    BY <1>1, <1>2, <2>1, <2>2 DEF SingleTypeOK
<1>4. KeptInv
  BY DEF SingleInit, KeptInv, Family, None, Empty, Mixed, Idle
<1> QED
  BY <1>3, <1>4 DEF SingleIInv

\* A call that ends leaves its record well typed.
LEMMA EndType ==
  ASSUME SingleTypeOK, NEW p \in Proc, End(p)
  PROVE  proc' \in [Proc -> CallRecord]
<1>1. [Idle EXCEPT !.listens = ~stopCh] \in CallRecord
  BY DEF SingleTypeOK, CallRecord, Idle, Family, Token, None, Mixed
<1>2. proc \in [Proc -> CallRecord]
  BY DEF SingleTypeOK
<1> QED
  BY <1>1, <1>2, SingleRecords DEF End

\* So does one that goes on to another step.
LEMMA GoesType ==
  ASSUME SingleTypeOK, NEW p \in Proc,
         NEW to \in {"cache", "read", "redeem", "sso", "openToken", "writeToken", "openCache",
                     "writeCache", "stopped"},
         Goes(p, to)
  PROVE  proc' \in [Proc -> CallRecord]
BY SMTT(30) DEF SingleTypeOK, Goes, CallRecord

\* And one that has been given tokens.
LEMMA GivenType ==
  ASSUME NEW r \in CallRecord, NEW to \in {"openCache", "openToken"}, NEW rt \in Token \cup {None}
  PROVE  /\ [r EXCEPT !.pc = to, !.rt = rt, !.at = "live"] \in CallRecord
         /\ [r EXCEPT !.pc = to, !.rt = rt, !.at = "live", !.sso = TRUE] \in CallRecord
         /\ [r EXCEPT !.pc = "writeCache", !.rt = None, !.sso = FALSE] \in CallRecord
BY DEF CallRecord, Token

\* Every step keeps the records of the calls well typed.
LEMMA ProcType ==
  ASSUME SingleTypeOK, [SingleNext]_singleVars
  PROVE  proc' \in [Proc -> CallRecord]
<1> DEFINE Typed == proc' \in [Proc -> CallRecord]
<1>0. proc \in [Proc -> CallRecord]
  BY DEF SingleTypeOK
<1>1. ASSUME NEW p \in Proc, Call(p) PROVE Typed
  BY <1>0, <1>1, SingleRecords DEF Call
<1>2. ASSUME NEW p \in Proc, ReadCache(p) PROVE Typed
  BY <1>2, EndType, GoesType DEF ReadCache
<1>3. ASSUME NEW p \in Proc, ReadToken(p) PROVE Typed
  <2>1. Of(p) \in Family /\ refresh[Of(p)] \in Stored
    BY DEF SingleTypeOK, Of, CallRecord
  <2>2. CASE Readable(refresh[Of(p)])
    <3>1. refresh[Of(p)] \in Token \cup {None, Mixed}
      BY <2>1, <2>2 DEF Readable, Stored
    <3> QED
      BY <1>0, <1>3, <2>2, <3>1 DEF ReadToken, CallRecord
  <2>3. CASE ~Readable(refresh[Of(p)])
    BY <1>3, <2>1, <2>3, EndType, GoesType DEF ReadToken, Family
  <2> QED
    BY <2>2, <2>3
<1>4. ASSUME NEW p \in Proc, NEW f \in Family, Redeem(p, f) PROVE Typed
  <2>1. CASE proc[p].rt = "live"
    <3>1. PICK token \in {"live", None} :
             proc' = [proc EXCEPT ![p].pc = Saves(token), ![p].rt = token, ![p].at = "live"]
      BY <1>4, <2>1 DEF Redeem
    <3>2. Saves(token) \in {"openCache", "openToken"} /\ token \in Token \cup {None}
      BY DEF Saves, Token
    <3> QED
      BY <1>0, <3>1, <3>2, GivenType
  <2>2. CASE proc[p].rt # "live"
    BY <1>4, <2>2, EndType, GoesType DEF Redeem
  <2> QED
    BY <2>1, <2>2
<1>5. ASSUME NEW p \in Proc, ReauthAccount(p) PROVE Typed
  <2>1. CASE cookies = "live"
    <3>1. PICK token \in {"live", None} :
             proc' = [proc EXCEPT ![p].pc = Saves(token), ![p].rt = token,
                                  ![p].at = "live", ![p].sso = TRUE]
      BY <1>5, <2>1 DEF ReauthAccount
    <3>2. Saves(token) \in {"openCache", "openToken"} /\ token \in Token \cup {None}
      BY DEF Saves, Token
    <3> QED
      BY <1>0, <3>1, <3>2, GivenType
  <2>2. CASE cookies # "live"
    BY <1>5, <2>2, EndType DEF ReauthAccount
  <2> QED
    BY <2>1, <2>2
<1>6. ASSUME NEW p \in Proc, ReauthDesigner(p) PROVE Typed
  BY <1>0, <1>6, EndType DEF ReauthDesigner, CallRecord, Token
<1>7. ASSUME NEW p \in Proc, OpenToken(p) PROVE Typed
  BY <1>7, GoesType DEF OpenToken
<1>8. ASSUME NEW p \in Proc, WriteToken(p) PROVE Typed
  BY <1>8, GoesType DEF WriteToken
<1>9. ASSUME NEW p \in Proc, OpenCache(p) PROVE Typed
  BY <1>0, <1>9, GivenType DEF OpenCache
<1>10. ASSUME NEW p \in Proc, WriteCache(p) PROVE Typed
  BY <1>10, EndType DEF WriteCache
<1>11. ASSUME NEW p \in Proc, NetworkFails(p) \/ WriteTokenFails(p) \/ WriteCacheFails(p)
      PROVE  Typed
  BY <1>11, EndType, GoesType DEF NetworkFails, WriteTokenFails, WriteCacheFails
<1>12. ASSUME NEW f \in Family, AccessExpires(f) \/ RefreshExpires(f) PROVE Typed
  BY <1>0, <1>12 DEF AccessExpires, RefreshExpires, CallRecord, Token
<1>13. CASE RefresherTicks \/ RefresherStops
  BY <1>13, GoesType DEF RefresherTicks, RefresherStops, Proc
<1>14. CASE CookiesExpire \/ SaveCookies \/ Stop \/ UNCHANGED singleVars
  BY <1>0, <1>14 DEF CookiesExpire, SaveCookies, Stop, singleVars
<1>15. CASE Die
  BY <1>15, SingleRecords DEF Die
<1> QED
  BY <1>1, <1>2, <1>3, <1>4, <1>5, <1>6, <1>7, <1>8, <1>9, <1>10, <1>11, <1>12, <1>13, <1>14, <1>15
     DEF SingleNext, SingleStep, RedeemAccount, RedeemDesigner, Family

\* Every step keeps files and calls well typed.
LEMMA SingleStepType ==
  ASSUME MaxEvents \in Nat, SingleTypeOK, [SingleNext]_singleVars
  PROVE  SingleTypeOK'
<1>1. proc' \in [Proc -> CallRecord]
  BY ProcType
<1>2. refresh' \in [Family -> Stored]
  <2> USE DEF Stored, Token, Files
  <2>1. ASSUME NEW p \in Proc, WriteToken(p) PROVE refresh' \in [Family -> Stored]
    BY <2>1 DEF SingleTypeOK, WriteToken, CallRecord
  <2>2. ASSUME NEW p \in Proc, OpenToken(p) PROVE refresh' \in [Family -> Stored]
    BY <2>2 DEF SingleTypeOK, OpenToken
  <2>3. ASSUME NEW f \in Family, RefreshExpires(f) PROVE refresh' \in [Family -> Stored]
    BY <2>3 DEF SingleTypeOK, RefreshExpires
  <2>4. \/ refresh' = refresh
        \/ \E p \in Proc : WriteToken(p) \/ OpenToken(p)
        \/ \E f \in Family : RefreshExpires(f)
    BY DEF SingleNext, SingleStep, Call, RefresherTicks, ReadCache, ReadToken, Redeem, RedeemAccount,
           RedeemDesigner, ReauthAccount, ReauthDesigner, NetworkFails, WriteTokenFails,
           OpenCache, WriteCache, WriteCacheFails, AccessExpires, CookiesExpire,
           SaveCookies, Stop, RefresherStops, Die, singleVars
  <2> QED
    BY <2>1, <2>2, <2>3, <2>4 DEF SingleTypeOK
<1>3. cache' \in [Family -> Stored]
  <2> USE DEF Stored, Token, Files
  <2>1. ASSUME NEW p \in Proc, WriteCache(p) PROVE cache' \in [Family -> Stored]
    BY <2>1 DEF SingleTypeOK, WriteCache, CallRecord
  <2>2. ASSUME NEW p \in Proc, OpenCache(p) PROVE cache' \in [Family -> Stored]
    BY <2>2 DEF SingleTypeOK, OpenCache
  <2>3. ASSUME NEW f \in Family, AccessExpires(f) PROVE cache' \in [Family -> Stored]
    BY <2>3 DEF SingleTypeOK, AccessExpires
  <2>4. \/ cache' = cache
        \/ \E p \in Proc : WriteCache(p) \/ OpenCache(p)
        \/ \E f \in Family : AccessExpires(f)
    BY DEF SingleNext, SingleStep, Call, RefresherTicks, ReadCache, ReadToken, Redeem, RedeemAccount,
           RedeemDesigner, ReauthAccount, ReauthDesigner, NetworkFails, WriteTokenFails,
           OpenToken, WriteToken, WriteCacheFails, RefreshExpires, CookiesExpire,
           SaveCookies, Stop, RefresherStops, Die, singleVars
  <2> QED
    BY <2>1, <2>2, <2>3, <2>4 DEF SingleTypeOK
<1>4. cookies' \in Token \cup {None} /\ stopCh' \in BOOLEAN /\ torn' \in BOOLEAN
  <2>1. cookies' \in {cookies, "dead", "live"} /\ stopCh' \in {stopCh, TRUE, FALSE}
    BY DEF SingleNext, SingleStep, Files, Fixed, Call, RefresherTicks, ReadCache, ReadToken,
           Redeem, RedeemAccount, RedeemDesigner, ReauthAccount, ReauthDesigner,
           NetworkFails, OpenToken, WriteToken, WriteTokenFails, OpenCache,
           WriteCache, WriteCacheFails, AccessExpires, RefreshExpires, CookiesExpire,
           SaveCookies, Stop, RefresherStops, Die, singleVars
  <2>2. torn' \in BOOLEAN
    <3>1. ASSUME NEW p \in Proc, WriteToken(p) PROVE torn' \in BOOLEAN
      BY <3>1 DEF SingleTypeOK, WriteToken
    <3>2. ASSUME NEW p \in Proc, WriteTokenFails(p) PROVE torn' \in BOOLEAN
      BY <3>2 DEF SingleTypeOK, WriteTokenFails
    <3>3. CASE Die
      BY <3>3 DEF SingleTypeOK, Die
    <3>4. torn' = torn \/ Die \/ \E p \in Proc : WriteToken(p) \/ WriteTokenFails(p)
      BY DEF SingleNext, SingleStep, Fixed, Call, RefresherTicks, ReadCache, ReadToken, Redeem,
             RedeemAccount, RedeemDesigner, ReauthAccount, ReauthDesigner, NetworkFails,
             OpenToken, OpenCache, WriteCache, WriteCacheFails, AccessExpires,
             RefreshExpires, CookiesExpire, SaveCookies, Stop, RefresherStops, singleVars
    <3> QED
      BY <3>1, <3>2, <3>3, <3>4 DEF SingleTypeOK
  <2> QED
    BY <2>1, <2>2 DEF SingleTypeOK, Token
<1>5. events' \in 0..MaxEvents
  <2>1. events' = events \/ Event
    BY DEF SingleNext, SingleStep, Quiet, Call, RefresherTicks, ReadCache, ReadToken, Redeem,
           RedeemAccount, RedeemDesigner, ReauthAccount, ReauthDesigner, NetworkFails,
           OpenToken, WriteToken, WriteTokenFails, OpenCache, WriteCache,
           WriteCacheFails, AccessExpires, RefreshExpires, CookiesExpire, SaveCookies,
           Stop, RefresherStops, Die, singleVars
  <2> QED
    BY <2>1 DEF SingleTypeOK, Event
<1> QED
  BY <1>1, <1>2, <1>3, <1>4, <1>5 DEF SingleTypeOK

-----------------------------------------------------------------------------
\* A call that begins or ends writes nothing.
LEMMA EndKeeps ==
  ASSUME SingleTypeOK, KeptInv, NEW p \in Proc, ~At(p, "writeToken"), End(p),
         UNCHANGED <<refresh, torn>>
  PROVE  KeptInv'
<1>1. proc'[p].pc \notin {"openToken", "writeToken"} /\ \A q \in Proc \ {p} : proc'[q] = proc[q]
  BY DEF SingleTypeOK, End, Idle, CallRecord
<1> QED
  BY <1>1 DEF KeptInv, At, Of

\* Nor does one that goes on to another step than that of writing.
LEMMA GoesKeeps ==
  ASSUME SingleTypeOK, KeptInv, NEW p \in Proc, ~At(p, "writeToken"), UNCHANGED <<refresh, torn>>,
         \A q \in Proc \ {p} : proc'[q] = proc[q],
         proc'[p].pc = "writeToken" => proc[p].pc = "openToken" /\ proc'[p].rt = proc[p].rt,
         proc'[p].pc = "openToken" => proc'[p].rt \in Token
  PROVE  KeptInv'
BY DEF KeptInv, At, Of

\* Every step leaves the account's file with a token, or with the trace of what happened to it.
LEMMA StepKept ==
  ASSUME SingleTypeOK, KeptInv, [SingleNext]_singleVars
  PROVE  KeptInv'
<1>0. proc \in [Proc -> CallRecord]
  BY DEF SingleTypeOK
<1>1. ASSUME NEW p \in Proc, Call(p) PROVE KeptInv'
  <2>1. proc'[p].pc = "cache" /\ (\A q \in Proc \ {p} : proc'[q] = proc[q])
    BY <1>0, <1>1 DEF Call, Idle
  <2> QED
    BY <1>1, <2>1, GoesKeeps DEF Call, At, Files, Fixed
<1>2. ASSUME NEW p \in Proc, ReadCache(p) PROVE KeptInv'
  <2>1. ~At(p, "writeToken") /\ UNCHANGED <<refresh, torn>>
    BY <1>2 DEF ReadCache, At, Files, Fixed
  <2>2. CASE Goes(p, "read")
    BY <1>0, <2>1, <2>2, GoesKeeps DEF Goes, CallRecord
  <2> QED
    BY <1>2, <2>1, <2>2, EndKeeps DEF ReadCache
<1>3. ASSUME NEW p \in Proc, ReadToken(p) PROVE KeptInv'
  <2>1. ~At(p, "writeToken") /\ UNCHANGED <<refresh, torn>>
    BY <1>3 DEF ReadToken, At, Files, Fixed
  <2>2. End(p) \/ (proc'[p].pc \in {"redeem", "sso"} /\ \A q \in Proc \ {p} : proc'[q] = proc[q])
    <3>1. Of(p) \in Family
      BY <1>0 DEF Of, CallRecord
    <3> QED
      BY <1>0, <1>3, <3>1 DEF ReadToken, Goes, CallRecord, Family
  <2> QED
    BY <2>1, <2>2, EndKeeps, GoesKeeps
<1>4. ASSUME NEW p \in Proc, NEW f \in Family, Redeem(p, f) PROVE KeptInv'
  <2>1. ~At(p, "writeToken") /\ UNCHANGED <<refresh, torn>>
    BY <1>4 DEF Redeem, At, Files, Fixed
  <2>2. CASE proc[p].rt = "live"
    <3>1. PICK token \in {"live", None} :
             proc' = [proc EXCEPT ![p].pc = Saves(token), ![p].rt = token, ![p].at = "live"]
      BY <1>4, <2>2 DEF Redeem
    <3>2. /\ proc'[p].pc = Saves(token) /\ proc'[p].rt = token
          /\ \A q \in Proc \ {p} : proc'[q] = proc[q]
      BY <1>0, <3>1 DEF CallRecord
    <3> QED
      BY <2>1, <3>2, GoesKeeps DEF Saves, Token
  <2>3. CASE proc[p].rt # "live"
    <3>1. End(p) \/ Goes(p, "sso")
      BY <1>4, <2>3 DEF Redeem
    <3>2. CASE Goes(p, "sso")
      BY <1>0, <2>1, <3>2, GoesKeeps DEF Goes, CallRecord
    <3> QED
      BY <2>1, <3>1, <3>2, EndKeeps
  <2> QED
    BY <2>2, <2>3
<1>5. ASSUME NEW p \in Proc, ReauthAccount(p) PROVE KeptInv'
  <2>1. ~At(p, "writeToken") /\ UNCHANGED <<refresh, torn>>
    BY <1>5 DEF ReauthAccount, At, Files, Fixed
  <2>2. CASE cookies = "live"
    <3>1. PICK token \in {"live", None} :
             proc' = [proc EXCEPT ![p].pc = Saves(token), ![p].rt = token,
                                  ![p].at = "live", ![p].sso = TRUE]
      BY <1>5, <2>2 DEF ReauthAccount
    <3>2. /\ proc'[p].pc = Saves(token) /\ proc'[p].rt = token
          /\ \A q \in Proc \ {p} : proc'[q] = proc[q]
      BY <1>0, <3>1 DEF CallRecord
    <3> QED
      BY <2>1, <3>2, GoesKeeps DEF Saves, Token
  <2> QED
    BY <1>5, <2>1, <2>2, EndKeeps DEF ReauthAccount
<1>6. ASSUME NEW p \in Proc, ReauthDesigner(p) PROVE KeptInv'
  <2>1. ~At(p, "writeToken") /\ UNCHANGED <<refresh, torn>>
    BY <1>6 DEF ReauthDesigner, At, Files, Fixed
  <2>2. CASE cookies = "live"
    <3>1. proc'[p].pc = "openToken" /\ proc'[p].rt = "live" /\ \A q \in Proc \ {p} : proc'[q] = proc[q]
      BY <1>0, <1>6, <2>2 DEF ReauthDesigner, CallRecord
    <3> QED
      BY <2>1, <3>1, GoesKeeps DEF Token
  <2> QED
    BY <1>6, <2>1, <2>2, EndKeeps DEF ReauthDesigner
<1>7. ASSUME NEW p \in Proc, OpenToken(p) PROVE KeptInv'
  <2>1. proc'[p] = [proc[p] EXCEPT !.pc = "writeToken"] /\ \A q \in Proc \ {p} : proc'[q] = proc[q]
    BY <1>0, <1>7 DEF OpenToken, Goes
  <2>2. proc'[p].pc = "writeToken" /\ proc'[p].of = proc[p].of /\ proc'[p].rt = proc[p].rt
    BY <1>0, <2>1 DEF CallRecord
  <2>3. refresh' = [refresh EXCEPT ![Of(p)] = Empty] /\ torn' = torn /\ At(p, "openToken")
    BY <1>7 DEF OpenToken, Fixed
  <2>4. refresh'["m365"] = IF Of(p) = "m365" THEN Empty ELSE refresh["m365"]
    BY <2>3 DEF SingleTypeOK, Family
  <2>5. \A q \in Proc : proc'[q].pc \in {"openToken", "writeToken"} => proc'[q].rt \in Token
    BY <2>1, <2>2, <2>3 DEF KeptInv, At
  <2>6. CASE Of(p) = "m365"
    <3>1. refresh'["m365"] = Empty /\ proc'[p].of = "m365"
      BY <2>2, <2>4, <2>6 DEF Of
    <3> QED
      BY <2>2, <2>5, <3>1 DEF KeptInv, At, Of, None, Empty, Mixed
  <2>7. CASE Of(p) # "m365"
    <3>1. refresh'["m365"] = refresh["m365"]
      BY <2>4, <2>7
    <3> QED
      BY <2>1, <2>3, <2>5, <3>1 DEF KeptInv, At, Of
  <2> QED
    BY <2>6, <2>7
<1>8. ASSUME NEW p \in Proc, WriteToken(p) PROVE KeptInv'
  <2>1. PICK overlap \in {FALSE, refresh[Of(p)] # Empty} :
           /\ refresh' = [refresh EXCEPT ![Of(p)] = IF overlap THEN Mixed ELSE proc[p].rt]
           /\ torn' = IF Of(p) = "m365" THEN overlap ELSE torn
    BY <1>8 DEF WriteToken
  <2>2. /\ proc'[p].pc \in {"redeem", "openCache"} /\ proc'[p].rt = proc[p].rt
        /\ \A q \in Proc \ {p} : proc'[q] = proc[q]
    BY <1>0, <1>8 DEF WriteToken, Goes, CallRecord
  <2>3. proc[p].rt \in Token
    BY <1>8 DEF WriteToken, KeptInv, At
  <2>4. CASE Of(p) # "m365"
    <3>1. refresh'["m365"] = refresh["m365"] /\ torn' = torn
      BY <2>1, <2>4 DEF SingleTypeOK, Family
    <3> QED
      BY <2>2, <2>4, <3>1 DEF KeptInv, At, Of
  <2>5. CASE Of(p) = "m365" /\ overlap
    <3>1. refresh'["m365"] = Mixed /\ torn'
      BY <2>1, <2>5 DEF SingleTypeOK, Family
    <3> QED
      BY <2>2, <3>1 DEF KeptInv, None, Empty, Mixed
  <2>6. CASE Of(p) = "m365" /\ ~overlap
    <3>1. refresh'["m365"] = proc[p].rt
      BY <2>1, <2>6 DEF SingleTypeOK, Family
    <3> QED
      BY <2>2, <2>3, <3>1 DEF KeptInv, None, Empty, Mixed, Token
  <2> QED
    BY <2>4, <2>5, <2>6
<1>9. ASSUME NEW p \in Proc, OpenCache(p) PROVE KeptInv'
  <2>1. proc'[p].pc = "writeCache" /\ \A q \in Proc \ {p} : proc'[q] = proc[q]
    BY <1>0, <1>9 DEF OpenCache, CallRecord
  <2> QED
    BY <1>9, <2>1, GoesKeeps DEF OpenCache, At, Fixed
<1>10. ASSUME NEW p \in Proc, WriteCache(p) \/ WriteCacheFails(p) PROVE KeptInv'
  BY <1>10, EndKeeps DEF WriteCache, WriteCacheFails, At, Files, Fixed
<1>11. ASSUME NEW p \in Proc, NetworkFails(p) PROVE KeptInv'
  BY <1>11, EndKeeps DEF NetworkFails, At, Files, Fixed
<1>12. ASSUME NEW p \in Proc, WriteTokenFails(p) PROVE KeptInv'
  <2>1. proc'[p].pc \notin {"openToken", "writeToken"} /\ \A q \in Proc \ {p} : proc'[q] = proc[q]
    <3>1. CASE Goes(p, "openCache")
      BY <1>0, <3>1 DEF Goes, CallRecord
    <3>2. CASE End(p)
      BY <1>0, <3>2 DEF End, Idle, CallRecord
    <3> QED
      BY <1>12, <3>1, <3>2 DEF WriteTokenFails
  <2>2. refresh' = refresh /\ torn' = (torn \/ Of(p) = "m365")
    BY <1>12 DEF WriteTokenFails, Files
  <2> QED
    BY <2>1, <2>2 DEF KeptInv, At, Of
<1>13. ASSUME NEW f \in Family, AccessExpires(f) PROVE KeptInv'
  <2>1. \A q \in Proc : proc'[q].pc = proc[q].pc /\ proc'[q].of = proc[q].of /\ proc'[q].rt = proc[q].rt
    BY <1>0, <1>13 DEF AccessExpires, CallRecord
  <2> QED
    BY <1>13, <2>1 DEF AccessExpires, KeptInv, At, Of, Fixed
<1>14. ASSUME NEW f \in Family, RefreshExpires(f) PROVE KeptInv'
  <2>1. \A q \in Proc : /\ proc'[q].pc = proc[q].pc /\ proc'[q].of = proc[q].of
                        /\ proc'[q].rt = proc[q].rt \/ proc'[q].rt = "dead"
    BY <1>0, <1>14 DEF RefreshExpires, CallRecord
  <2>2. refresh'["m365"] = refresh["m365"] \/ refresh'["m365"] = "dead"
    BY <1>14 DEF RefreshExpires, SingleTypeOK, Family
  <2> QED
    BY <1>14, <2>1, <2>2 DEF RefreshExpires, KeptInv, At, Of, Fixed, Token, None,
       Empty, Mixed
<1>15. CASE RefresherTicks \/ RefresherStops
  <2> DEFINE p == "refresher"
  <2>1. p \in Proc /\ ~At(p, "writeToken") /\ UNCHANGED <<refresh, torn>>
    BY <1>15 DEF Proc, RefresherTicks, RefresherStops, At, Files, Fixed
  <2>2. proc'[p].pc \in {"read", "stopped"} /\ \A q \in Proc \ {p} : proc'[q] = proc[q]
    BY <1>0, <1>15, <2>1 DEF RefresherTicks, RefresherStops, Goes, CallRecord
  <2> QED
    BY <2>1, <2>2, GoesKeeps
<1>16. CASE CookiesExpire \/ SaveCookies \/ Stop \/ UNCHANGED singleVars
  BY <1>16 DEF CookiesExpire, SaveCookies, Stop, singleVars, Files, Fixed, KeptInv, At,
     Of
<1>17. CASE Die
  <2>1. \A p \in Proc : proc'[p].pc = "idle"
    BY <1>17 DEF Die, Idle
  <2> QED
    BY <1>17, <2>1 DEF Die, KeptInv, Files
<1> QED
  BY <1>1, <1>2, <1>3, <1>4, <1>5, <1>6, <1>7, <1>8, <1>9, <1>10, <1>11, <1>12, <1>13, <1>14, <1>15,
     <1>16, <1>17 DEF SingleNext, SingleStep, RedeemAccount, RedeemDesigner, Family

\* The invariant gives the property: what is neither a token nor none is empty or a mixture.
LEMMA KeptInvIsKept == SingleIInv => TokenKept
BY DEF SingleIInv, SingleTypeOK, KeptInv, TokenKept, Family, Stored

\* The invariant holds of every behaviour.
LEMMA SingleInvariant == SingleSpec => []SingleIInv
<1>1. SingleIInv /\ [SingleNext]_singleVars => SingleIInv'
  BY SingleStepType, StepKept, TokenManagerAssumption DEF SingleIInv
<1>2. SingleInit => SingleIInv
  BY SingleInitInv, TokenManagerAssumption
<1> QED
  BY <1>1, <1>2, PTL DEF SingleSpec

\* Whatever expires, fails or crashes, and however many requests write at once, files and calls of
\* the token manager hold what they may.
THEOREM SingleTypeCorrect == SingleSpec => []SingleTypeOK
BY SingleInvariant, PTL DEF SingleIInv

\* The account's refresh token is never lost to the exchanges themselves (saveTokens,
\* writeRefreshToken), for any number of requests: only a write that failed, was cut short by a crash
\* or overlapped another leaves its file without one.
THEOREM RefreshTokenKept == SingleSpec => []TokenKept
BY SingleInvariant, KeptInvIsKept, PTL
=============================================================================
