-------------------------- MODULE ToolTurnsProofs --------------------------
(***************************************************************************)
(* Proofs about ToolTurns.  Ids tie what the client holds to what the      *)
(* server reads: no two calls have one, so every result answers one call,  *)
(* the rounds that the server counts are the exchanges of the turn, and    *)
(* the calls that it finds settled are at least as many as the rounds in   *)
(* which they were answered.                                               *)
(***************************************************************************)
EXTENDS ToolTurns, SequenceTheorems, FiniteSetTheorems, WellFoundedInduction, TLAPS

-----------------------------------------------------------------------------
(* The invariant. *)

\* Calls by their places in an answer, and the items of a history.
CallLists == UNION {[places -> Call] : places \in SUBSET (1..MaxCalls)}
ItemType == [user : BOOLEAN, calls : CallLists, answered : SUBSET Nat, progress : BOOLEAN]

Typed ==
  /\ mode \in [dialect : Dialects, looped : BOOLEAN]
  /\ history \in Seq(ItemType)
  /\ \A i \in DOMAIN history : history[i].answered \subseteq Ids(history[i].calls)
  /\ open \in BOOLEAN
  /\ server \in [pc : PC, choice : ToolChoices \cup {"auto"}, asks : 0..(MaxLoop + 2), reply : Replies,
                 seen : SUBSET Local, calls : CallLists, ledger : [rounds : Nat, completed : SUBSET Call]]
  /\ left \in [turns : 0..MaxTurns, mishaps : 0..MaxMishaps]

\* The user makes no calls, an exchange has some.
Exchanges ==
  /\ \A i \in DOMAIN history : history[i].user <=> ~HasCalls(history[i].calls)
  /\ \A i \in DOMAIN history : history[i].user => history[i].answered = {} /\ ~history[i].progress
  /\ At("calls") => HasCalls(server.calls)

\* No id is used twice, and those of an answer on its way are new to the history.
Unique ==
  /\ \A i, j \in DOMAIN history :
       \A k \in DOMAIN history[i].calls, l \in DOMAIN history[j].calls :
         history[i].calls[k].id = history[j].calls[l].id => i = j /\ k = l
  /\ \A k, l \in DOMAIN server.calls : server.calls[k].id = server.calls[l].id => k = l
  /\ \A i \in DOMAIN history : Ids(history[i].calls) \cap Ids(server.calls) = {}

\* Ids have a greatest.
UpTo(n) ==
  /\ \A i \in DOMAIN history : \A id \in Ids(history[i].calls) : id <= n
  /\ \A id \in Ids(server.calls) : id <= n
Bounded == \E n \in Nat : UpTo(n)

\* A handler at work knows its history, and tools are run here only if the client asked for it.
Handling == server.pc \in {"ask", "repair", "judge", "act", "conclude"}
Informed ==
  /\ Handling => server.ledger = Ledger(Active(Received))
  /\ At("act") => mode.looped

\* Whoever may still hand calls to the client has room for a round.
Room ==
  Lists => /\ Rounds <= MaxRounds + 1
           /\ Handling \/ At("calls") => Rounds <= MaxRounds

\* Whoever is handed a call has had it answered once at most.
Unsettled ==
  Lists /\ ~mode.looped =>
    \A w \in Work :
      /\ AnsweredRounds(w) <= 2
      /\ At("calls") /\ (\E k \in DOMAIN server.calls : server.calls[k].work = w) => AnsweredRounds(w) <= 1

IInv ==
  /\ Typed /\ Exchanges /\ Unique /\ Bounded
  /\ Informed /\ Room /\ Unsettled /\ HonestClientsAccepted

-----------------------------------------------------------------------------
(* Calls and messages. *)

\* A list of calls is a function on some of the places.
LEMMA CallsAre ==
  ASSUME NEW c
  PROVE  c \in CallLists <=> DOMAIN c \subseteq 1..MaxCalls /\ c \in [DOMAIN c -> Call]
BY DEF CallLists

\* No calls.
LEMMA NoCalls ==
  /\ DOMAIN <<>> = {} /\ <<>> \in CallLists
  /\ ~HasCalls(<<>>) /\ Ids(<<>>) = {} /\ Range(<<>>) = {}
<1>1. DOMAIN <<>> = {}
  OBVIOUS
<1>2. <<>> \in [{} -> Call]
  OBVIOUS
<1> QED
  BY <1>1, <1>2 DEF CallLists, HasCalls, Ids, Range

\* A message comes from one item, at one of its places: its calls are at the first, its results at
\* the last.
LEMMA MessageOf ==
  ASSUME NEW i \in DOMAIN history, NEW m \in Messages(i)
  PROVE  /\ m.at \in {<<i, 1>>, <<i, 2>>, <<i, 3>>}
         /\ m.calls = <<>> \/ (m.calls = history[i].calls /\ Lists)
         /\ HasCalls(m.calls) => m.at = <<i, 1>> /\ m.calls = history[i].calls /\ Lists
         /\ m.results # {} => m.at = <<i, 3>> /\ m.results = history[i].answered
         /\ \A n \in Messages(i) : m.at = n.at => m = n
<1> DEFINE first == Msg(<<i, 1>>, history[i].user, IF mode.dialect = "responses" THEN <<>> ELSE history[i].calls,
                        {}, FALSE)
           middle == Msg(<<i, 2>>, TRUE, <<>>, {}, TRUE)
           last == Msg(<<i, 3>>, mode.dialect = "messages", <<>>, history[i].answered, FALSE)
<1>1. Messages(i) \subseteq {first, middle, last}
  BY DEF Messages
<1>2. /\ first.at = <<i, 1>> /\ first.results = {}
      /\ first.calls = <<>> \/ (first.calls = history[i].calls /\ Lists)
  BY DEF Msg, Lists
<1>3. middle.at = <<i, 2>> /\ middle.calls = <<>> /\ middle.results = {}
  BY DEF Msg
<1>4. last.at = <<i, 3>> /\ last.calls = <<>> /\ last.results = history[i].answered
  BY DEF Msg
<1>5. /\ <<i, 1>> # <<i, 2>> /\ <<i, 1>> # <<i, 3>> /\ <<i, 2>> # <<i, 3>>
  OBVIOUS
<1> HIDE DEF first, middle, last
<1>6. \A n \in Messages(i) : m.at = n.at => m = n
  BY <1>1, <1>2, <1>3, <1>4, <1>5
<1>7. m \in {first, middle, last}
  BY <1>1
<1> QED
  BY <1>2, <1>3, <1>4, <1>6, <1>7, NoCalls

\* Every message is one of an item.
LEMMA ReceivedFrom ==
  ASSUME NEW m \in Received
  PROVE  \E i \in DOMAIN history : m \in Messages(i)
BY DEF Received

\* The first message of an item; and the last, if something was answered.
LEMMA FirstMessage ==
  ASSUME NEW i \in DOMAIN history, Lists
  PROVE  Msg(<<i, 1>>, history[i].user, history[i].calls, {}, FALSE) \in Messages(i)
BY DEF Messages, Lists

LEMMA LastMessage ==
  ASSUME NEW i \in DOMAIN history, history[i].answered # {}
  PROVE  \E m \in Messages(i) : m.results = history[i].answered
<1> DEFINE last == Msg(<<i, 3>>, mode.dialect = "messages", <<>>, history[i].answered, FALSE)
<1>1. last \in Messages(i)
  BY DEF Messages
<1>2. last.results = history[i].answered
  BY DEF Msg
<1> QED
  BY <1>1, <1>2

-----------------------------------------------------------------------------
(* What the server reads. *)

\* A history with these ids is accepted.
LEMMA HonestHistory ==
  ASSUME Typed, Unique
  PROVE  Valid(Received)
<1>1. ASSUME NEW m \in Received, NEW n \in Received,
             NEW k \in DOMAIN m.calls, NEW l \in DOMAIN n.calls, m.calls[k].id = n.calls[l].id
      PROVE  m = n /\ k = l
  <2>1. PICK i \in DOMAIN history : m \in Messages(i)
    BY ReceivedFrom
  <2>2. PICK j \in DOMAIN history : n \in Messages(j)
    BY ReceivedFrom
  <2>3. HasCalls(m.calls) /\ HasCalls(n.calls)
    BY <1>1 DEF HasCalls
  <2>4. m.at = <<i, 1>> /\ m.calls = history[i].calls
    BY <2>1, <2>3, MessageOf
  <2>5. n.at = <<j, 1>> /\ n.calls = history[j].calls
    BY <2>2, <2>3, MessageOf
  <2>6. i = j /\ k = l
    BY <1>1, <2>4, <2>5 DEF Unique
  <2> QED
    BY <2>1, <2>2, <2>4, <2>5, <2>6, MessageOf
<1>2. ASSUME NEW m \in Received, NEW n \in Received, NEW id \in m.results, id \in n.results
      PROVE  m = n
  <2>1. PICK i \in DOMAIN history : m \in Messages(i)
    BY ReceivedFrom
  <2>2. PICK j \in DOMAIN history : n \in Messages(j)
    BY ReceivedFrom
  <2>3. m.at = <<i, 3>> /\ m.results = history[i].answered
    BY <1>2, <2>1, MessageOf
  <2>4. n.at = <<j, 3>> /\ n.results = history[j].answered
    BY <1>2, <2>2, MessageOf
  <2>5. id \in Ids(history[i].calls) /\ id \in Ids(history[j].calls)
    BY <1>2, <2>3, <2>4 DEF Typed
  <2>6. i = j
    BY <2>5 DEF Unique, Ids
  <2> QED
    BY <2>1, <2>2, <2>3, <2>4, <2>6, MessageOf
<1>3. ASSUME Lists, NEW m \in Received, NEW id \in m.results
      PROVE  id \in {c.id : c \in CallsIn(Received)}
  <2>1. PICK i \in DOMAIN history : m \in Messages(i)
    BY ReceivedFrom
  <2>2. id \in Ids(history[i].calls)
    BY <1>3, <2>1, MessageOf DEF Typed
  <2>3. PICK k \in DOMAIN history[i].calls : history[i].calls[k].id = id
    BY <2>2 DEF Ids
  <2> DEFINE first == Msg(<<i, 1>>, history[i].user, history[i].calls, {}, FALSE)
  <2>4. first \in Received
    BY <1>3, FirstMessage DEF Received
  <2>5. history[i].calls[k] \in Range(first.calls)
    BY DEF Range, Msg
  <2> QED
    BY <2>3, <2>4, <2>5 DEF CallsIn
<1>4. ASSUME ~Lists, NEW m \in Received PROVE Range(m.calls) = {}
  <2>1. m.calls = <<>>
    BY <1>4, ReceivedFrom, MessageOf
  <2> QED
    BY <2>1, NoCalls
<1>5. CallsIn(Received) = {} \/ ResultsIn(Received) \subseteq {c.id : c \in CallsIn(Received)}
  <2>1. CASE Lists
    BY <1>3, <2>1 DEF ResultsIn
  <2>2. CASE ~Lists
    BY <1>4, <2>2 DEF CallsIn
  <2> QED
    BY <2>1, <2>2
<1> QED
  BY <1>1, <1>2, <1>5 DEF Valid

\* A turn begins with an item of the user's.
LEMMA WhatBegins ==
  ASSUME Exchanges, NEW i \in DOMAIN history, NEW m \in Messages(i)
  PROVE  BeginsTurn(m) <=> history[i].user
<1> DEFINE first == Msg(<<i, 1>>, history[i].user, IF mode.dialect = "responses" THEN <<>> ELSE history[i].calls,
                        {}, FALSE)
           middle == Msg(<<i, 2>>, TRUE, <<>>, {}, TRUE)
           last == Msg(<<i, 3>>, mode.dialect = "messages", <<>>, history[i].answered, FALSE)
<1>1. CASE m = first
  BY <1>1 DEF BeginsTurn, Msg
<1>2. CASE m = middle /\ history[i].progress
  BY <1>2 DEF BeginsTurn, Msg, Exchanges
<1>3. CASE m = last /\ history[i].answered # {}
  BY <1>3 DEF BeginsTurn, Msg, Exchanges
<1> QED
  BY <1>1, <1>2, <1>3 DEF Messages

\* The messages of an exchange are active if it belongs to the turn.
LEMMA ActiveIsTurn ==
  ASSUME Typed, Exchanges, NEW i \in DOMAIN history, ~history[i].user, NEW m \in Messages(i)
  PROVE  m \in Active(Received) <=> i \in Turn
<1>1. m \in Received
  BY DEF Received
<1>2. /\ DOMAIN history = 1..Len(history) /\ Len(history) \in Nat
      /\ m.at[1] = i /\ m.at[2] \in 1..3
  BY MessageOf DEF Typed
<1>3. ASSUME i \in Turn, NEW n \in Received, BeginsTurn(n) PROVE ~Before(m, n)
  <2>1. PICK j \in DOMAIN history : n \in Messages(j)
    BY ReceivedFrom
  <2>2. history[j].user
    BY <1>3, <2>1, WhatBegins
  <2>3. j < i
    BY <1>2, <1>3, <2>2 DEF Turn
  <2>4. n.at[1] = j
    BY <2>1, MessageOf
  <2> QED
    BY <1>2, <2>3, <2>4 DEF Before
<1>4. ASSUME NEW j \in i..Len(history), history[j].user PROVE \E n \in Received : BeginsTurn(n) /\ Before(m, n)
  <2>1. j \in DOMAIN history /\ i < j
    BY <1>2, <1>4
  <2> DEFINE n == Msg(<<j, 1>>, history[j].user, IF mode.dialect = "responses" THEN <<>> ELSE history[j].calls,
                      {}, FALSE)
  <2>2. n \in Messages(j)
    BY DEF Messages
  <2>3. n \in Received /\ BeginsTurn(n)
    BY <1>4, <2>1, <2>2, WhatBegins DEF Received
  <2>4. n.at[1] = j
    BY DEF Msg
  <2> HIDE DEF n
  <2>5. Before(m, n)
    BY <1>2, <2>1, <2>4 DEF Before
  <2> QED
    BY <2>3, <2>5
<1>5. CASE i \in Turn
  BY <1>1, <1>3, <1>5 DEF Active
<1>6. CASE i \notin Turn
  <2>1. \E j \in i..Len(history) : history[j].user
    BY <1>6 DEF Turn
  <2> QED
    BY <1>4, <1>6, <2>1 DEF Active
<1> QED
  BY <1>5, <1>6

\* A turn has so many rounds.
LEMMA TurnFinite ==
  ASSUME Typed
  PROVE  /\ IsFiniteSet(Turn) /\ Rounds \in Nat
         /\ \A w : /\ IsFiniteSet({i \in Turn : AnsweredIn(history[i], w)})
                   /\ AnsweredRounds(w) \in Nat
<1>1. IsFiniteSet(DOMAIN history)
  BY FS_Interval DEF Typed
<1>2. Turn \in SUBSET DOMAIN history
  BY DEF Turn
<1>3. IsFiniteSet(Turn)
  BY <1>1, <1>2, FS_Subset
<1>4. ASSUME NEW w PROVE /\ IsFiniteSet({i \in Turn : AnsweredIn(history[i], w)})
                         /\ AnsweredRounds(w) \in Nat
  <2>1. {i \in Turn : AnsweredIn(history[i], w)} \in SUBSET Turn
    OBVIOUS
  <2> QED
    BY <1>3, <2>1, FS_Subset, FS_CardinalityType DEF AnsweredRounds
<1> QED
  BY <1>3, <1>4, FS_CardinalityType DEF Rounds

-----------------------------------------------------------------------------
(* What the ledger counts. *)

\* The rounds of the ledger are those of the turn.
LEMMA RoundsCounted ==
  ASSUME Typed, Exchanges, Lists
  PROVE  Ledger(Active(Received)).rounds = Rounds
<1> DEFINE Counted == {m \in Active(Received) : HasCalls(m.calls)}
           first == [i \in Turn |-> Msg(<<i, 1>>, history[i].user, history[i].calls, {}, FALSE)]
<1>1. \A i \in Turn : i \in DOMAIN history /\ ~history[i].user /\ HasCalls(history[i].calls)
  BY DEF Turn, Exchanges, Typed
<1>2. ASSUME NEW i \in Turn
      PROVE  first[i] \in Counted /\ first[i].at[1] = i
  <2>1. first[i] \in Messages(i)
    BY <1>1, FirstMessage
  <2>2. first[i] \in Active(Received)
    BY <1>1, <2>1, ActiveIsTurn
  <2>3. first[i].calls = history[i].calls /\ first[i].at = <<i, 1>>
    BY DEF Msg
  <2> HIDE DEF first
  <2>4. first[i] \in Counted
    BY <1>1, <2>2, <2>3
  <2> QED
    BY <2>3, <2>4
<1>3. ASSUME NEW m \in Counted PROVE \E i \in Turn : first[i] = m
  <2>1. PICK i \in DOMAIN history : m \in Messages(i)
    BY ReceivedFrom DEF Active
  <2>2. m.at = <<i, 1>> /\ m.calls = history[i].calls
    BY <2>1, MessageOf
  <2>3. ~history[i].user
    BY <2>2 DEF Exchanges
  <2>4. i \in Turn
    BY <2>1, <2>3, ActiveIsTurn
  <2>5. first[i] \in Messages(i) /\ first[i].at = <<i, 1>>
    BY <2>4, FirstMessage DEF Msg
  <2> QED
    BY <2>1, <2>2, <2>4, <2>5, MessageOf
<1> HIDE DEF first
<1>4. first \in [Turn -> Counted]
  BY <1>2 DEF first
<1>5. first \in Injection(Turn, Counted)
  BY <1>2, <1>4 DEF Injection, IsInjective
<1>6. first \in Surjection(Turn, Counted)
  BY <1>3, <1>4 DEF Surjection
<1>7. ExistsBijection(Turn, Counted)
  BY <1>5, <1>6 DEF ExistsBijection, Bijection
<1>8. Cardinality(Counted) = Cardinality(Turn)
  BY <1>7, TurnFinite, FS_Bijection
<1> QED
  BY <1>8 DEF Ledger, Rounds

\* The call that an exchange has had answered.
LEMMA AnsweredIsCompleted ==
  ASSUME Typed, Exchanges, Lists, NEW i \in Turn, NEW w, AnsweredIn(history[i], w)
  PROVE  \E c \in Ledger(Active(Received)).completed : c.work = w /\ c.id \in Ids(history[i].calls)
<1>1. i \in DOMAIN history /\ ~history[i].user
  BY DEF Turn, Typed
<1>2. PICK k \in DOMAIN history[i].calls :
        history[i].calls[k].work = w /\ history[i].calls[k].id \in history[i].answered
  BY DEF AnsweredIn
<1> DEFINE first == Msg(<<i, 1>>, history[i].user, history[i].calls, {}, FALSE)
<1>3. first \in Active(Received)
  BY <1>1, FirstMessage, ActiveIsTurn
<1>4. history[i].calls[k] \in CallsIn(Active(Received))
  <2>1. history[i].calls[k] \in Range(first.calls)
    BY DEF Range, Msg
  <2> QED
    BY <1>3, <2>1 DEF CallsIn
<1>5. history[i].calls[k].id \in ResultsIn(Active(Received))
  <2>1. PICK m \in Messages(i) : m.results = history[i].answered
    BY <1>1, <1>2, LastMessage
  <2>2. m \in Active(Received)
    BY <1>1, <2>1, ActiveIsTurn
  <2> QED
    BY <1>2, <2>1, <2>2 DEF ResultsIn
<1> QED
  BY <1>2, <1>4, <1>5 DEF Ledger, Ids

\* Completed calls are calls of the history.
LEMMA CompletedAre ==
  ASSUME Typed, NEW c \in Ledger(Active(Received)).completed
  PROVE  c \in Call /\ \E i \in DOMAIN history : c \in Range(history[i].calls)
<1>1. PICK m \in Received : c \in Range(m.calls)
  BY DEF Ledger, Active, CallsIn
<1>2. PICK i \in DOMAIN history : m \in Messages(i)
  BY ReceivedFrom
<1>3. HasCalls(m.calls)
  BY <1>1 DEF HasCalls, Range
<1>4. m.calls = history[i].calls
  BY <1>2, <1>3, MessageOf
<1>5. history[i].calls \in [DOMAIN history[i].calls -> Call]
  <2>1. history[i] \in ItemType
    BY DEF Typed
  <2> QED
    BY <2>1, CallsAre DEF ItemType
<1> QED
  BY <1>1, <1>4, <1>5 DEF Range

\* No call has been answered in more rounds than it has been completed.
LEMMA RepeatsCounted ==
  ASSUME Typed, Exchanges, Unique, Bounded, Lists, NEW w
  PROVE  /\ Cardinality({c \in Ledger(Active(Received)).completed : c.work = w}) \in Nat
         /\ AnsweredRounds(w) <= Cardinality({c \in Ledger(Active(Received)).completed : c.work = w})
<1> DEFINE Done == {c \in Ledger(Active(Received)).completed : c.work = w}
           Answers == {i \in Turn : AnsweredIn(history[i], w)}
<1>1. PICK n \in Nat : UpTo(n)
  BY DEF Bounded
<1>2. ASSUME NEW c \in Done PROVE c \in Call /\ c.id \in 0..n
  <2>1. c \in Call
    BY CompletedAre
  <2>2. PICK i \in DOMAIN history : c \in Range(history[i].calls)
    BY CompletedAre
  <2>3. c.id \in Ids(history[i].calls)
    BY <2>2 DEF Range, Ids
  <2> QED
    BY <1>1, <2>1, <2>3 DEF UpTo, Call
<1>3. IsFiniteSet(Done)
  <2> DEFINE id == [c \in Done |-> c.id]
  <2>1. id \in [Done -> 0..n]
    BY <1>2
  <2>2. \A c, d \in Done : c.id = d.id => c = d
    BY <1>2 DEF Call
  <2>3. id \in Injection(Done, 0..n)
    BY <2>1, <2>2 DEF Injection, IsInjective
  <2>4. IsFiniteSet(0..n)
    BY FS_Interval
  <2> QED
    BY <2>3, <2>4, FS_Injection
<1>4. AnsweredRounds(w) <= Cardinality(Done)
  <2> DEFINE of(i) == CHOOSE c \in Done : c.id \in Ids(history[i].calls)
             f == [i \in Answers |-> of(i)]
  <2>1. ASSUME NEW i \in Answers PROVE of(i) \in Done /\ of(i).id \in Ids(history[i].calls)
    <3>1. \E c \in Done : c.id \in Ids(history[i].calls)
      BY AnsweredIsCompleted
    <3> QED
      BY <3>1
  <2>2. ASSUME NEW i \in Answers, NEW j \in Answers, of(i) = of(j) PROVE i = j
    <3>1. i \in DOMAIN history /\ j \in DOMAIN history
      BY DEF Turn
    <3> QED
      BY <2>1, <2>2, <3>1 DEF Unique, Ids
  <2>3. f \in Injection(Answers, Done)
    BY <2>1, <2>2 DEF Injection, IsInjective
  <2> QED
    BY <1>3, <2>3, FS_Injection DEF AnsweredRounds
<1> QED
  BY <1>3, <1>4, FS_CardinalityType

-----------------------------------------------------------------------------
(* New ids. *)

\* A set of numbers with a bound has a greatest element.
LEMMA GreatestExists ==
  ASSUME NEW S \in SUBSET Nat, S # {}, NEW n \in Nat, \A s \in S : s <= n
  PROVE  Max(S) \in S /\ \A s \in S : s <= Max(S)
<1> DEFINE Above == {b \in Nat : \A s \in S : s <= b}
<1>1. PICK b \in Above : \A c \in Above : ~(<<c, b>> \in OpToRel(<, Nat))
  <2>1. Above \subseteq Nat /\ Above # {}
    OBVIOUS
  <2> QED
    BY <2>1, NatLessThanWellFounded, WFMin
<1>2. \A c \in Above : ~(c < b)
  BY <1>1 DEF OpToRel
<1>3. b \in S
  <2>1. SUFFICES ASSUME b \notin S PROVE FALSE
    OBVIOUS
  <2>2. \A s \in S : s <= b - 1
    BY <2>1
  <2>3. PICK s \in S : TRUE
    OBVIOUS
  <2>4. b - 1 \in Nat
    BY <2>2, <2>3
  <2> QED
    BY <1>2, <2>2, <2>4
<1>4. \A s \in S : b >= s
  OBVIOUS
<1>5. Max(S) \in S /\ \A s \in S : Max(S) >= s
  BY <1>3, <1>4 DEF Max
<1> QED
  BY <1>5

\* The calls that may go to a client with this history.
Fit(calls) ==
  /\ calls \in CallLists
  /\ \A k, l \in DOMAIN calls : calls[k].id = calls[l].id => k = l
  /\ \A i \in DOMAIN history : Ids(history[i].calls) \cap Ids(calls) = {}
  /\ \E n \in Nat : /\ \A i \in DOMAIN history : \A id \in Ids(history[i].calls) : id <= n
                    /\ \A id \in Ids(calls) : id <= n

\* The ids of a history are numbers.
LEMMA IdsAreNat ==
  ASSUME Typed, NEW i \in DOMAIN history
  PROVE  /\ Ids(history[i].calls) \subseteq Nat
         /\ history[i].calls \in [DOMAIN history[i].calls -> Call]
         /\ DOMAIN history[i].calls \subseteq 1..MaxCalls
<1>1. history[i] \in ItemType
  BY DEF Typed
<1>2. history[i].calls \in CallLists
  BY <1>1 DEF ItemType
<1> QED
  BY <1>2, CallsAre DEF Ids, Call

\* What Labelled makes of the work in an answer: the same work at the same places, under new ids.
LEMMA LabelledFits ==
  ASSUME Typed, Bounded, NEW works, DOMAIN works \subseteq 1..MaxCalls, works \in [DOMAIN works -> Work]
  PROVE  /\ Fit(Labelled(works))
         /\ DOMAIN Labelled(works) = DOMAIN works
         /\ \A k \in DOMAIN works : Labelled(works)[k].work = works[k]
<1> DEFINE minted == UNION {Ids(history[i].calls) : i \in DOMAIN history}
           newest == IF minted = {} THEN 0 ELSE Max(minted)
           calls == [k \in DOMAIN works |-> [id |-> newest + k, work |-> works[k]]]
<1>1. minted \in SUBSET Nat
  BY IdsAreNat
<1>2. PICK n \in Nat : UpTo(n)
  BY DEF Bounded
<1>3. \A id \in minted : id <= n
  BY <1>2 DEF UpTo
<1>4. newest \in Nat /\ \A id \in minted : id <= newest
  <2>1. CASE minted = {}
    BY <2>1
  <2>2. CASE minted # {}
    <3> HIDE DEF minted
    <3> QED
      BY <1>1, <1>3, <2>2, GreatestExists
  <2> QED
    BY <2>1, <2>2
<1>5. Labelled(works) = calls
  BY DEF Labelled
<1> HIDE DEF newest
<1>6. DOMAIN works \subseteq Nat /\ \A k \in DOMAIN works : k >= 1 /\ k <= MaxCalls
  BY ToolTurnsAssumption
<1>7. \A k \in DOMAIN works : calls[k] \in Call /\ calls[k].id = newest + k /\ calls[k].work = works[k]
  BY <1>4, <1>6 DEF Call
<1>8. calls \in CallLists
  <2>1. calls \in [DOMAIN works -> Call]
    BY <1>7
  <2> QED
    BY <2>1, CallsAre
<1> HIDE DEF calls, minted
<1>9. DOMAIN calls = DOMAIN works
  BY DEF calls
<1>10. \A id \in Ids(calls) : id > newest /\ id <= newest + MaxCalls
  <2>1. \A k \in DOMAIN calls : newest + k > newest /\ newest + k <= newest + MaxCalls
    BY <1>4, <1>6, <1>9, ToolTurnsAssumption
  <2> QED
    BY <1>7, <1>9, <2>1 DEF Ids
<1>11. \A k, l \in DOMAIN calls : calls[k].id = calls[l].id => k = l
  BY <1>4, <1>6, <1>7, <1>9
<1>12. \A i \in DOMAIN history : Ids(history[i].calls) \subseteq minted
  BY DEF minted
<1>13. \A i \in DOMAIN history : Ids(history[i].calls) \cap Ids(calls) = {}
  <2>1. \A id \in minted : id \in Nat /\ id <= newest
    BY <1>1, <1>4
  <2>2. \A id \in Ids(calls) : id \notin minted
    BY <1>4, <1>10, <2>1
  <2> QED
    BY <1>12, <2>2
<1>14. /\ newest + MaxCalls \in Nat
       /\ \A i \in DOMAIN history : \A id \in Ids(history[i].calls) : id <= newest + MaxCalls
       /\ \A id \in Ids(calls) : id <= newest + MaxCalls
  <2>1. \A id \in minted : id \in Nat /\ id <= newest
    BY <1>1, <1>4
  <2>2. \A id \in minted : id <= newest + MaxCalls
    BY <1>4, <2>1, ToolTurnsAssumption
  <2> QED
    BY <1>4, <1>10, <1>12, <2>2, ToolTurnsAssumption
<1>15. Fit(calls)
  BY <1>8, <1>11, <1>13, <1>14 DEF Fit
<1> QED
  BY <1>5, <1>7, <1>9, <1>15

\* What is under way fits, and so does nothing.
LEMMA SameFits ==
  ASSUME Typed, Unique, Bounded
  PROVE  Fit(server.calls) /\ Fit(<<>>)
<1>1. PICK n \in Nat : UpTo(n)
  BY DEF Bounded
<1>2. server.calls \in CallLists
  BY DEF Typed
<1>3. Fit(server.calls)
  BY <1>1, <1>2 DEF Fit, Unique, UpTo
<1>4. Fit(<<>>)
  BY <1>1, NoCalls DEF Fit, UpTo
<1> QED
  BY <1>3, <1>4

-----------------------------------------------------------------------------
(* Steps that leave the history alone. *)

\* The type of the request under way.
ServerType ==
  [pc : PC, choice : ToolChoices \cup {"auto"}, asks : 0..(MaxLoop + 2), reply : Replies,
   seen : SUBSET Local, calls : CallLists, ledger : [rounds : Nat, completed : SUBSET Call]]

\* The answers of the model.
LEMMA RepliesAre ==
  ASSUME NEW r \in Replies
  PROVE  DOMAIN r.calls \subseteq 1..MaxCalls /\ r.calls \in [DOMAIN r.calls -> Work]
<1>1. CASE r.calls \in Batches
  <2>1. PICK n \in 1..MaxCalls : r.calls \in [1..n -> Work]
    BY <1>1 DEF Batches
  <2> QED
    BY <2>1, ToolTurnsAssumption
<1>2. CASE r.calls = <<>>
  BY <1>2, NoCalls
<1> QED
  BY <1>1, <1>2 DEF Replies

\* At rest.
LEMMA IdleTyped == Idle \in ServerType /\ Idle.calls = <<>> /\ Idle.pc = "idle"
<1>1. NoReply \in Replies
  BY DEF NoReply, Replies
<1>2. 0 \in 0..(MaxLoop + 2)
  BY ToolTurnsAssumption
<1> QED
  BY <1>1, <1>2, NoCalls DEF Idle, ServerType, PC

\* What a step preserves that leaves the history and the language alone and does not touch the calls
\* but to hand out some that fit.
LEMMA HistoryStays ==
  ASSUME IInv, UNCHANGED <<mode, history>>, open' \in BOOLEAN,
         left' \in [turns : 0..MaxTurns, mishaps : 0..MaxMishaps],
         server' \in ServerType, Fit(server'.calls), server'.pc = "calls" => HasCalls(server'.calls)
  PROVE  /\ Typed' /\ Exchanges' /\ Unique' /\ Bounded'
         /\ Lists' = Lists /\ Active(Received)' = Active(Received) /\ Rounds' = Rounds
         /\ \A w : AnsweredRounds(w)' = AnsweredRounds(w)
<1>1. Typed'
  BY DEF IInv, Typed, ServerType
<1>2. Exchanges'
  BY DEF IInv, Exchanges, HasCalls, At
<1>3. Unique'
  <2>1. /\ \A k, l \in DOMAIN server'.calls : server'.calls[k].id = server'.calls[l].id => k = l
        /\ \A i \in DOMAIN history : Ids(history[i].calls) \cap Ids(server'.calls) = {}
    BY DEF Fit
  <2>2. \A i \in DOMAIN history : Ids(history[i].calls)' = Ids(history[i].calls)
    BY DEF Ids
  <2>3. Ids(server.calls)' = Ids(server'.calls)
    BY DEF Ids
  <2> QED
    BY <2>1, <2>2, <2>3 DEF IInv, Unique
<1>4. Bounded'
  BY DEF Fit, Bounded, UpTo, Ids
<1>5. Lists' = Lists
  BY DEF Lists
<1>6. Active(Received)' = Active(Received)
  BY DEF Active, Received, Messages
<1>7. Turn' = Turn
  BY DEF Turn
<1>8. \A w : AnsweredRounds(w)' = AnsweredRounds(w)
  BY <1>7 DEF AnsweredRounds, AnsweredIn
<1> QED
  BY <1>1, <1>2, <1>3, <1>4, <1>5, <1>6, <1>7, <1>8 DEF Rounds


\* When such a step preserves the invariant.
LEMMA Proceeds ==
  ASSUME IInv, UNCHANGED <<mode, history>>, open' \in BOOLEAN,
         left' \in [turns : 0..MaxTurns, mishaps : 0..MaxMishaps],
         server' \in ServerType, Fit(server'.calls), server'.pc = "calls" => HasCalls(server'.calls),
         server'.pc # "bad",
         Handling' => server'.ledger = Ledger(Active(Received)),
         server'.pc = "act" => mode.looped,
         Lists /\ (Handling' \/ server'.pc = "calls") => Rounds <= MaxRounds,
         Lists /\ ~mode.looped /\ server'.pc = "calls" =>
           \A k \in DOMAIN server'.calls : AnsweredRounds(server'.calls[k].work) <= 1
  PROVE  IInv'
<1>1. /\ Typed' /\ Exchanges' /\ Unique' /\ Bounded'
      /\ Lists' = Lists /\ Active(Received)' = Active(Received) /\ Rounds' = Rounds
      /\ \A w : AnsweredRounds(w)' = AnsweredRounds(w)
  BY HistoryStays
<1>2. Informed'
  <2>1. Ledger(Active(Received))' = Ledger(Active(Received))
    BY <1>1 DEF Ledger
  <2> QED
    BY <2>1 DEF Informed, At
<1>3. Room'
  BY <1>1 DEF IInv, Room, At
<1>4. Unsettled'
  <2>1. (Lists /\ ~mode.looped)' = (Lists /\ ~mode.looped)
    BY <1>1
  <2>2. ASSUME Lists, ~mode.looped, NEW w \in Work PROVE AnsweredRounds(w)' <= 2
    BY <1>1, <2>2 DEF IInv, Unsettled
  <2>3. ASSUME Lists, ~mode.looped, NEW w \in Work,
               server'.pc = "calls", NEW k \in DOMAIN server'.calls, server'.calls[k].work = w
        PROVE  AnsweredRounds(w)' <= 1
    BY <1>1, <2>3
  <2> QED
    BY <2>1, <2>2, <2>3 DEF Unsettled, At
<1>5. HonestClientsAccepted'
  BY DEF HonestClientsAccepted, At
<1> QED
  BY <1>1, <1>2, <1>3, <1>4, <1>5 DEF IInv

\* A request that ends without calls.
LEMMA Ends ==
  ASSUME IInv, UNCHANGED <<mode, history>>, open' \in BOOLEAN,
         left' \in [turns : 0..MaxTurns, mishaps : 0..MaxMishaps],
         server' \in ServerType, server'.calls = <<>>,
         server'.pc \in {"idle", "text", "claim", "settled", "notice", "limit", "error"}
  PROVE  IInv'
<1>1. Fit(server'.calls)
  BY SameFits DEF IInv
<1>2. ~Handling' /\ server'.pc \notin {"calls", "bad", "act"}
  BY DEF Handling
<1> QED
  BY <1>1, <1>2, Proceeds

\* The types of a state in the invariant.
LEMMA TypesOf ==
  ASSUME IInv
  PROVE  /\ server \in ServerType /\ open \in BOOLEAN
         /\ left \in [turns : 0..MaxTurns, mishaps : 0..MaxMishaps]
         /\ mode.looped \in BOOLEAN
BY DEF IInv, Typed, ServerType

LEMMA Leaves ==
  ASSUME IInv, UNCHANGED <<mode, history, open, left>>,
         NEW pc \in {"text", "claim", "settled", "notice", "limit", "error"}, Leave(pc)
  PROVE  IInv'
<1>1. server' \in ServerType /\ server'.calls = <<>> /\ server'.pc = pc
  <2>1. server.choice \in ToolChoices \cup {"auto"} /\ pc \in PC
    BY TypesOf DEF ServerType, PC
  <2> QED
    BY <2>1, IdleTyped DEF Leave, ServerType
<1> QED
  BY <1>1, TypesOf, Ends

\* A handler that goes on.
LEMMA GoesOn ==
  ASSUME IInv, UNCHANGED <<mode, history, open, left>>, Handling,
         server' \in ServerType, server'.calls = server.calls, server'.ledger = server.ledger,
         server'.pc \in {"ask", "repair", "judge", "act", "conclude", "error"},
         server'.pc = "act" => mode.looped
  PROVE  IInv'
<1>1. Fit(server'.calls)
  BY SameFits DEF IInv
<1>2. server.ledger = Ledger(Active(Received))
  BY DEF IInv, Informed
<1>3. Lists => Rounds <= MaxRounds
  BY DEF IInv, Room
<1> QED
  BY <1>1, <1>2, <1>3, TypesOf, Proceeds

\* A handler that hands calls to the client.
LEMMA Hands ==
  ASSUME IInv, UNCHANGED <<mode, history, open, left>>, Handling,
         NEW works, DOMAIN works \subseteq 1..MaxCalls, works \in [DOMAIN works -> Work],
         HasCalls(works), Hand(works),
         Lists /\ ~mode.looped => \A k \in DOMAIN works : AnsweredRounds(works[k]) <= 1
  PROVE  IInv'
<1>1. /\ Fit(Labelled(works)) /\ DOMAIN Labelled(works) = DOMAIN works
      /\ \A k \in DOMAIN works : Labelled(works)[k].work = works[k]
  BY LabelledFits DEF IInv
<1>2. server' \in ServerType /\ server'.calls = Labelled(works) /\ server'.pc = "calls"
  <2>1. server.choice \in ToolChoices \cup {"auto"} /\ "calls" \in PC
    BY TypesOf DEF ServerType, PC
  <2>2. Labelled(works) \in CallLists
    BY <1>1 DEF Fit
  <2> QED
    BY <2>1, <2>2, IdleTyped DEF Hand, ServerType
<1>3. Lists => Rounds <= MaxRounds
  BY DEF IInv, Room
<1>4. ~Handling'
  BY <1>2 DEF Handling
<1>5. HasCalls(server'.calls)
  BY <1>1, <1>2 DEF HasCalls
<1>6. Lists /\ ~mode.looped => \A k \in DOMAIN server'.calls : AnsweredRounds(server'.calls[k].work) <= 1
  BY <1>1, <1>2
<1> QED
  BY <1>1, <1>2, <1>3, <1>4, <1>5, <1>6, TypesOf, Proceeds

-----------------------------------------------------------------------------
(* The server. *)

LEMMA AskStep == ASSUME IInv, Ask PROVE IInv'
<1>1. PICK reply \in Replies : server' = [server EXCEPT !.pc = AfterAsk(reply), !.reply = reply]
  BY DEF Ask
<1>2. AfterAsk(reply) \in {"repair", "judge", "act", "conclude"} /\ (AfterAsk(reply) = "act" => mode.looped)
  BY TypesOf DEF AfterAsk
<1>3. server' \in ServerType
  BY <1>1, <1>2, TypesOf DEF ServerType, PC
<1>4. server'.pc = AfterAsk(reply) /\ server'.calls = server.calls /\ server'.ledger = server.ledger
  BY <1>1, TypesOf DEF ServerType
<1>5. Handling
  BY DEF Ask, At, Handling
<1> QED
  BY <1>2, <1>3, <1>4, <1>5, GoesOn DEF Ask

LEMMA AskFailsStep == ASSUME IInv, AskFails PROVE IInv'
BY Leaves DEF AskFails

LEMMA RepairStep == ASSUME IInv, Repair PROVE IInv'
<1>1. PICK reply \in Replies :
        server' = [server EXCEPT !.pc = IF mode.looped THEN "act" ELSE "conclude",
                                 !.reply = IF HasCalls(reply.calls) THEN reply ELSE @]
  BY DEF Repair
<1>2. server' \in ServerType
  BY <1>1, TypesOf DEF ServerType, PC
<1>3. server'.pc \in {"act", "conclude"} /\ (server'.pc = "act" => mode.looped)
      /\ server'.calls = server.calls /\ server'.ledger = server.ledger
  BY <1>1, TypesOf DEF ServerType
<1>4. Handling
  BY DEF Repair, At, Handling
<1> QED
  BY <1>2, <1>3, <1>4, GoesOn DEF Repair

LEMMA JudgeStep == ASSUME IInv, Judge PROVE IInv'
<1>1. Handling
  BY DEF Judge, At, Handling
<1>2. \/ server.asks < 2 /\ server' = [server EXCEPT !.pc = "ask", !.asks = @ + 1]
      \/ server' = [server EXCEPT !.pc = "error"]
      \/ server' = [server EXCEPT !.pc = "conclude"]
  <2>1. server.asks < 1 => server.asks < 2
    BY TypesOf DEF ServerType
  <2> QED
    BY <2>1 DEF Judge
<1>3. server.asks < 2 => server.asks + 1 \in 0..(MaxLoop + 2)
  BY TypesOf, ToolTurnsAssumption DEF ServerType
<1>4. server' \in ServerType /\ server'.pc \in {"ask", "error", "conclude"}
      /\ server'.calls = server.calls /\ server'.ledger = server.ledger
  BY <1>2, <1>3, TypesOf DEF ServerType, PC
<1> QED
  BY <1>1, <1>4, GoesOn DEF Judge

\* The work that passes a test stays at its places.
LEMMA Restricted ==
  ASSUME NEW works, works \in [DOMAIN works -> Work], DOMAIN works \subseteq 1..MaxCalls, NEW S \in SUBSET DOMAIN works
  PROVE  /\ DOMAIN Restrict(works, S) = S /\ DOMAIN Restrict(works, S) \subseteq 1..MaxCalls
         /\ Restrict(works, S) \in [DOMAIN Restrict(works, S) -> Work]
         /\ \A k \in S : Restrict(works, S)[k] = works[k]
BY DEF Restrict

\* What dropSettledToolCalls keeps has been answered once at most.
LEMMA KeptAre ==
  ASSUME IInv, Handling, NEW works, works \in [DOMAIN works -> Work], DOMAIN works \subseteq 1..MaxCalls
  PROVE  /\ DOMAIN Kept(works) \subseteq 1..MaxCalls
         /\ Kept(works) \in [DOMAIN Kept(works) -> Work]
         /\ Lists => \A k \in DOMAIN Kept(works) : AnsweredRounds(Kept(works)[k]) <= 1
<1> DEFINE S == {k \in DOMAIN works : ~Settled(works[k])}
<1>1. Kept(works) = Restrict(works, S)
  BY DEF Kept, RestrictValues
<1>2. S \in SUBSET DOMAIN works
  OBVIOUS
<1>3. ASSUME Lists, NEW k \in S PROVE AnsweredRounds(works[k]) <= 1
  <2> DEFINE w == works[k]
             done == {c \in server.ledger.completed : c.work = w}
  <2>1. ~(Cardinality(done) >= 2)
    BY <1>3 DEF Settled
  <2>2. done = {c \in Ledger(Active(Received)).completed : c.work = w}
    BY DEF IInv, Informed
  <2>3. Cardinality(done) \in Nat /\ AnsweredRounds(w) <= Cardinality(done)
    BY <1>3, <2>2, RepeatsCounted DEF IInv
  <2>4. AnsweredRounds(w) \in Nat
    BY TurnFinite DEF IInv
  <2> HIDE DEF w, done
  <2>5. AnsweredRounds(w) <= 1
    BY <2>1, <2>3, <2>4
  <2> QED
    BY <2>5 DEF w
<1> HIDE DEF S
<1> QED
  BY <1>1, <1>2, <1>3, Restricted

\* The texts of an answer.
LEMMA TextsAre == TextOut \subseteq {"text", "claim", "notice"}
BY DEF TextOut

\* The end of a handler that has its answer.
LEMMA Concludes ==
  ASSUME IInv, NEW kept, DOMAIN kept \subseteq 1..MaxCalls, kept \in [DOMAIN kept -> Work],
         Lists => \A k \in DOMAIN kept : AnsweredRounds(kept[k]) <= 1,
         NEW texts \in SUBSET {"text", "claim", "notice"},
         Concluded(kept, texts)
  PROVE  IInv'
<1>1. Handling /\ UNCHANGED <<mode, history, open, left>>
  BY DEF Concluded, At, Handling
<1>2. CASE HasCalls(kept) /\ Hand(kept)
  BY <1>1, <1>2, Hands
<1>3. CASE Leave("settled")
  BY <1>1, <1>3, Leaves
<1>4. CASE \E pc \in texts : Leave(pc)
  BY <1>1, <1>4, Leaves
<1> QED
  BY <1>2, <1>3, <1>4 DEF Concluded

LEMMA ConcludeStep ==
  ASSUME IInv, ConcludeChat \/ ConcludeMessages \/ ConcludeResponses
  PROVE  IInv'
<1> DEFINE works == server.reply.calls
<1>1. DOMAIN works \subseteq 1..MaxCalls /\ works \in [DOMAIN works -> Work]
  BY TypesOf, RepliesAre DEF ServerType
<1>2. Handling
  BY DEF ConcludeChat, ConcludeMessages, ConcludeResponses, Concluded, At, Handling
<1>3. /\ DOMAIN Kept(works) \subseteq 1..MaxCalls
      /\ Kept(works) \in [DOMAIN Kept(works) -> Work]
      /\ Lists => \A k \in DOMAIN Kept(works) : AnsweredRounds(Kept(works)[k]) <= 1
  BY <1>1, <1>2, KeptAre
<1>4. CASE Concluded(Kept(works), TextOut)
  BY <1>3, <1>4, TextsAre, Concludes
<1>5. CASE ConcludeResponses
  <2> DEFINE kept == IF server.choice = "required" THEN works ELSE Kept(works)
             texts == TextOut \cup {IF server.reply.text = "claim" THEN "claim" ELSE "text"}
  <2>1. ~Lists /\ Concluded(kept, texts)
    BY <1>5 DEF ConcludeResponses, Lists
  <2>2. texts \in SUBSET {"text", "claim", "notice"}
    BY TextsAre
  <2>3. DOMAIN kept \subseteq 1..MaxCalls /\ kept \in [DOMAIN kept -> Work]
    BY <1>1, <1>3
  <2> HIDE DEF kept, texts
  <2> QED
    BY <2>1, <2>2, <2>3, Concludes
<1> QED
  BY <1>4, <1>5 DEF ConcludeChat, ConcludeMessages

\* Only tools of the server run in its loop.
LEMMA RanLocal ==
  ASSUME NEW works, \A k \in DOMAIN works : works[k] \in Local, server.seen \subseteq Local
  PROVE  Ran(works).seen \subseteq Local
BY DEF Ran

LEMMA ActStep == ASSUME IInv, Act PROVE IInv'
<1> DEFINE works == server.reply.calls
           Theirs == {k \in DOMAIN works : works[k] \notin Local}
           theirs == RestrictValues(works, LAMBDA w : w \notin Local)
<1>1. DOMAIN works \subseteq 1..MaxCalls /\ works \in [DOMAIN works -> Work]
  BY TypesOf, RepliesAre DEF ServerType
<1>2. /\ DOMAIN theirs = Theirs /\ DOMAIN theirs \subseteq 1..MaxCalls
      /\ theirs \in [DOMAIN theirs -> Work]
  <2>1. theirs = Restrict(works, Theirs)
    BY DEF RestrictValues
  <2>2. Theirs \in SUBSET DOMAIN works
    OBVIOUS
  <2> HIDE DEF theirs, Theirs, works
  <2> QED
    BY <1>1, <2>1, <2>2, Restricted
<1>3. Handling /\ mode.looped /\ UNCHANGED <<mode, history, open, left>>
  BY DEF Act, At, Handling, IInv, Informed
<1>4. CASE Leave("text") \/ Leave("error")
  BY <1>3, <1>4, Leaves
<1>5. CASE HasCalls(theirs) /\ Hand(theirs)
  <2> HIDE DEF theirs
  <2> QED
    BY <1>2, <1>3, <1>5, Hands
<1>6. CASE /\ ~HasCalls(theirs) /\ server.asks < MaxLoop - 1
           /\ server' = [server EXCEPT !.pc = IF Ran(works).stopped THEN "error" ELSE "ask", !.asks = @ + 1,
                                       !.seen = Ran(works).seen]
  <2>1. \A k \in DOMAIN works : works[k] \in Local
    BY <1>2, <1>6 DEF HasCalls
  <2>2. Ran(works).seen \subseteq Local
    BY <2>1, TypesOf, RanLocal DEF ServerType
  <2>3. server.asks + 1 \in 0..(MaxLoop + 2)
    BY <1>6, TypesOf, ToolTurnsAssumption DEF ServerType
  <2> HIDE DEF works, theirs
  <2>4. server' \in ServerType /\ server'.pc \in {"ask", "error"}
        /\ server'.calls = server.calls /\ server'.ledger = server.ledger
    BY <1>6, <2>2, <2>3, TypesOf DEF ServerType, PC
  <2> QED
    BY <1>3, <2>4, GoesOn
<1> QED
  BY <1>4, <1>5, <1>6 DEF Act

-----------------------------------------------------------------------------
(* The client, while it leaves its history alone. *)

\* The ledger of a history has its types.
LEMMA LedgerTyped ==
  ASSUME IInv
  PROVE  Ledger(Active(Received)) \in [rounds : Nat, completed : SUBSET Call]
<1> DEFINE ledger == Ledger(Active(Received))
           counted == {m \in Active(Received) : HasCalls(m.calls)}
<1>1. ledger = [rounds |-> ledger.rounds, completed |-> ledger.completed]
  BY DEF Ledger
<1>2. ledger.completed \subseteq Call
  BY CompletedAre DEF IInv
<1>3. ledger.rounds \in Nat
  <2>1. CASE Lists
    BY <2>1, RoundsCounted, TurnFinite DEF IInv
  <2>2. CASE ~Lists
    <3>1. counted = {}
      BY <2>2, ReceivedFrom, MessageOf DEF Active
    <3>2. Cardinality(counted) = 0
      BY <3>1, FS_EmptySet
    <3> HIDE DEF counted
    <3>3. ledger.rounds = Cardinality(counted)
      BY DEF Ledger, counted
    <3> QED
      BY <3>2, <3>3
  <2> QED
    BY <2>1, <2>2
<1> HIDE DEF ledger
<1>4. ledger \in [rounds : Nat, completed : SUBSET Call]
  BY <1>1, <1>2, <1>3
<1> QED
  BY <1>4 DEF ledger

LEMMA HandleStep == ASSUME IInv, NEW dialect, Handle(dialect) PROVE IInv'
<1> DEFINE ledger == Ledger(Active(Received))
<1>1. PICK choice \in ToolChoices :
        server' = [Idle EXCEPT !.choice = choice, !.ledger = ledger,
                               !.pc = IF ~Valid(Received) THEN "bad" ELSE IF Exceeded(ledger) THEN "limit" ELSE "ask"]
  BY DEF Handle
<1>2. Valid(Received)
  BY HonestHistory DEF IInv
<1>3. UNCHANGED <<mode, history, open, left>>
  BY DEF Handle
<1>4. ledger \in [rounds : Nat, completed : SUBSET Call]
  BY LedgerTyped
<1>5. Lists /\ ~Exceeded(ledger) => Rounds <= MaxRounds
  BY <1>4, RoundsCounted, TurnFinite, ToolTurnsAssumption DEF Exceeded, IInv
<1> HIDE DEF ledger
<1>6. /\ server' \in ServerType /\ server'.calls = <<>> /\ server'.ledger = ledger
      /\ server'.pc = IF Exceeded(ledger) THEN "limit" ELSE "ask"
  BY <1>1, <1>2, <1>4, IdleTyped DEF ServerType, PC
<1>7. Handling' => ~Exceeded(ledger)
  BY <1>6 DEF Handling
<1>8. Fit(server'.calls)
  BY <1>6, SameFits DEF IInv
<1> QED
  BY <1>3, <1>5, <1>6, <1>7, <1>8, TypesOf, Proceeds DEF ledger

LEMMA EndTurnStep == ASSUME IInv, EndTurn PROVE IInv'
<1>1. UNCHANGED <<mode, history, left>> /\ open' \in BOOLEAN /\ server' = Idle
  BY DEF EndTurn
<1> QED
  BY <1>1, IdleTyped, TypesOf, Ends

LEMMA RetryStep == ASSUME IInv, Retry PROVE IInv'
<1>1. UNCHANGED <<mode, history, open>> /\ server' = Idle
  BY DEF Retry
<1>2. left' \in [turns : 0..MaxTurns, mishaps : 0..MaxMishaps]
  BY TypesOf, ToolTurnsAssumption DEF Retry
<1> QED
  BY <1>1, <1>2, IdleTyped, TypesOf, Ends

-----------------------------------------------------------------------------
(* Steps that change the history. *)

LEMMA StartsIn == Init => IInv
<1> SUFFICES ASSUME Init PROVE IInv
  OBVIOUS
<1>1. history = <<>> /\ DOMAIN history = {} /\ server = Idle
  BY NoCalls DEF Init
<1>2. server \in ServerType /\ server.calls = <<>> /\ server.pc = "idle"
  BY <1>1, IdleTyped
<1>3. Typed
  <2>1. left \in [turns : 0..MaxTurns, mishaps : 0..MaxMishaps]
    BY ToolTurnsAssumption DEF Init
  <2>2. mode \in [dialect : Dialects, looped : BOOLEAN]
    BY DEF Init
  <2>3. history \in Seq(ItemType) /\ open \in BOOLEAN
    <3>1. <<>> \in Seq(ItemType)
      OBVIOUS
    <3> QED
      BY <3>1 DEF Init
  <2> QED
    BY <1>1, <1>2, <2>1, <2>2, <2>3 DEF Typed, ServerType
<1>4. Exchanges
  BY <1>1, <1>2 DEF Exchanges, At
<1>5. Unique
  BY <1>1, <1>2, NoCalls DEF Unique
<1>6. Bounded
  <2>1. UpTo(0)
    BY <1>1, <1>2, NoCalls DEF UpTo
  <2> QED
    BY <2>1 DEF Bounded
<1>7. ~Handling /\ ~At("act") /\ ~At("calls") /\ ~At("bad")
  BY <1>2 DEF Handling, At
<1>8. Turn = {}
  BY <1>1 DEF Turn
<1>9. Rounds = 0 /\ \A w : AnsweredRounds(w) = 0
  <2>1. \A w : {i \in Turn : AnsweredIn(history[i], w)} = {}
    BY <1>8
  <2> QED
    BY <1>8, <2>1, FS_EmptySet DEF Rounds, AnsweredRounds
<1> QED
  BY <1>3, <1>4, <1>5, <1>6, <1>7, <1>9, ToolTurnsAssumption
  DEF IInv, Informed, Room, Unsettled, HonestClientsAccepted

\* What is left to prove when the client is at rest with a history that is well formed.
LEMMA Rests ==
  ASSUME Typed', Exchanges', Unique', Bounded', server'.pc = "idle",
         Lists' => Rounds' <= MaxRounds + 1,
         Lists' /\ ~mode'.looped => \A w \in Work : AnsweredRounds(w)' <= 2
  PROVE  IInv'
<1>1. ~Handling' /\ ~At("act")' /\ ~At("calls")' /\ ~At("bad")'
  BY DEF Handling, At
<1> QED
  BY <1>1 DEF IInv, Informed, Room, Unsettled, HonestClientsAccepted

\* One more item.
LEMMA OneMore ==
  ASSUME IInv, NEW item \in ItemType, item.answered \subseteq Ids(item.calls),
         item.user <=> ~HasCalls(item.calls), item.user => item.answered = {} /\ ~item.progress,
         history' = Append(history, item), UNCHANGED mode, open' \in BOOLEAN,
         left' \in [turns : 0..MaxTurns, mishaps : 0..MaxMishaps],
         server' \in ServerType, server'.pc = "idle",
         Fit(item.calls), Fit(server'.calls), Ids(item.calls) \cap Ids(server'.calls) = {}
  PROVE  /\ Typed' /\ Exchanges' /\ Unique' /\ Bounded'
         /\ Len(history) \in Nat /\ DOMAIN history = 1..Len(history)
         /\ DOMAIN history' = 1..(Len(history) + 1) /\ history'[Len(history) + 1] = item
         /\ \A i \in DOMAIN history : history'[i] = history[i]
<1> DEFINE n == Len(history)
<1>1. history \in Seq(ItemType)
  BY DEF IInv, Typed
<1>2. /\ n \in Nat /\ DOMAIN history = 1..n
      /\ history' \in Seq(ItemType) /\ DOMAIN history' = 1..(n + 1)
      /\ history'[n + 1] = item /\ \A i \in DOMAIN history : history'[i] = history[i]
  BY <1>1
<1> HIDE DEF n
<1>3. \A i \in DOMAIN history' : i \in DOMAIN history \/ i = n + 1
  BY <1>2
<1>4. Typed'
  <2>1. \A i \in DOMAIN history' : history'[i].answered \subseteq Ids(history'[i].calls)
    BY <1>2, <1>3 DEF IInv, Typed
  <2>2. /\ history' \in Seq(ItemType) /\ mode' \in [dialect : Dialects, looped : BOOLEAN]
        /\ open' \in BOOLEAN /\ left' \in [turns : 0..MaxTurns, mishaps : 0..MaxMishaps]
    BY <1>2 DEF IInv, Typed
  <2>3. \A i \in DOMAIN history' : Ids(history[i].calls)' = Ids(history'[i].calls)
    BY DEF Ids
  <2> QED
    BY <2>1, <2>2, <2>3 DEF Typed, ServerType
<1>5. Exchanges'
  <2>1. \A i \in DOMAIN history' :
          /\ history'[i].user <=> ~HasCalls(history'[i].calls)
          /\ history'[i].user => history'[i].answered = {} /\ ~history'[i].progress
    BY <1>2, <1>3 DEF IInv, Exchanges
  <2>2. \A i \in DOMAIN history' : HasCalls(history[i].calls)' = HasCalls(history'[i].calls)
    BY DEF HasCalls
  <2> QED
    BY <2>1, <2>2 DEF Exchanges, At
<1>6. \A i \in DOMAIN history : Ids(history[i].calls) \cap Ids(item.calls) = {}
  BY DEF Fit
<1>7. Unique'
  <2>1. ASSUME NEW i \in DOMAIN history', NEW j \in DOMAIN history',
               NEW k \in DOMAIN history'[i].calls, NEW l \in DOMAIN history'[j].calls,
               history'[i].calls[k].id = history'[j].calls[l].id
        PROVE  i = j /\ k = l
    <3>1. CASE i \in DOMAIN history /\ j \in DOMAIN history
      BY <1>2, <2>1, <3>1 DEF IInv, Unique
    <3>2. /\ history'[i].calls[k].id \in Ids(history'[i].calls)
          /\ history'[i].calls[k].id \in Ids(history'[j].calls)
      BY <2>1 DEF Ids
    <3>3. ~(i \in DOMAIN history /\ j = n + 1) /\ ~(i = n + 1 /\ j \in DOMAIN history)
      BY <1>2, <1>6, <3>2
    <3>4. CASE i = n + 1 /\ j = n + 1
      BY <1>2, <2>1, <3>4 DEF Fit
    <3> QED
      BY <1>3, <3>1, <3>3, <3>4
  <2>2. \A k, l \in DOMAIN server'.calls : server'.calls[k].id = server'.calls[l].id => k = l
    BY DEF Fit
  <2>3. \A i \in DOMAIN history' : Ids(history'[i].calls) \cap Ids(server'.calls) = {}
    BY <1>2, <1>3 DEF Fit
  <2>4. \A i \in DOMAIN history' : Ids(history[i].calls)' = Ids(history'[i].calls)
    BY DEF Ids
  <2>5. Ids(server.calls)' = Ids(server'.calls)
    BY DEF Ids
  <2> QED
    BY <2>1, <2>2, <2>3, <2>4, <2>5 DEF Unique
<1>8. Bounded'
  <2>1. PICK a \in Nat : /\ \A i \in DOMAIN history : \A id \in Ids(history[i].calls) : id <= a
                         /\ \A id \in Ids(item.calls) : id <= a
    BY DEF Fit
  <2>2. PICK b \in Nat : \A id \in Ids(server'.calls) : id <= b
    BY DEF Fit
  <2>3. \A i \in DOMAIN history : Ids(history[i].calls) \subseteq Nat
    BY IdsAreNat DEF IInv
  <2>4. Ids(item.calls) \subseteq Nat /\ Ids(server'.calls) \subseteq Nat
    <3>1. item.calls \in CallLists /\ server'.calls \in CallLists
      BY DEF Fit
    <3> QED
      BY <3>1, CallsAre DEF Ids, Call
  <2>5. ASSUME NEW i \in DOMAIN history, NEW id \in Ids(history[i].calls) PROVE id <= a + b
    <3>1. id \in Nat /\ id <= a
      BY <2>1, <2>3
    <3> QED
      BY <3>1
  <2>6. \A id \in Ids(item.calls) \cup Ids(server'.calls) : id <= a + b
    BY <2>1, <2>2, <2>4
  <2>7. \A i \in DOMAIN history' : \A id \in Ids(history'[i].calls) : id <= a + b
    BY <1>2, <1>3, <2>5, <2>6
  <2>8. UpTo(a + b)'
    <3>1. \A i \in DOMAIN history' : Ids(history[i].calls)' = Ids(history'[i].calls)
      BY DEF Ids
    <3>2. Ids(server.calls)' = Ids(server'.calls)
      BY DEF Ids
    <3> QED
      BY <2>6, <2>7, <3>1, <3>2 DEF UpTo
  <2> QED
    BY <2>8 DEF Bounded
<1> QED
  BY <1>2, <1>4, <1>5, <1>7, <1>8 DEF n

LEMMA SpeakStep == ASSUME IInv, Speak PROVE IInv'
<1>1. UserItem \in ItemType /\ UserItem.user /\ UserItem.calls = <<>> /\ UserItem.answered = {} /\ ~UserItem.progress
  BY NoCalls DEF UserItem, Item, ItemType
<1>2. Fit(UserItem.calls) /\ Fit(server'.calls)
  BY <1>1, SameFits DEF IInv, Speak
<1>3. /\ server' \in ServerType /\ server'.pc = "idle" /\ open' \in BOOLEAN
      /\ history' = Append(history, UserItem) /\ mode' = mode
  BY TypesOf DEF Speak, At
<1>4. left' \in [turns : 0..MaxTurns, mishaps : 0..MaxMishaps]
  BY TypesOf, ToolTurnsAssumption DEF Speak
<1>5. Ids(UserItem.calls) = {} /\ ~HasCalls(UserItem.calls)
  BY <1>1, NoCalls
<1>6. /\ Typed' /\ Exchanges' /\ Unique' /\ Bounded'
      /\ Len(history) \in Nat /\ DOMAIN history' = 1..(Len(history) + 1)
      /\ history'[Len(history) + 1] = UserItem
  BY <1>1, <1>2, <1>3, <1>4, <1>5, OneMore
<1>7. Turn' = {}
  <2>1. Len(history') = Len(history) + 1
    BY <1>3 DEF IInv, Typed
  <2>2. \A i \in DOMAIN history' : Len(history) + 1 \in i..Len(history')
    BY <1>6, <2>1
  <2>3. \A i \in DOMAIN history' : \E j \in i..Len(history') : history'[j].user
    BY <1>1, <1>6, <2>2
  <2> QED
    BY <2>3 DEF Turn
<1>8. Rounds' = 0 /\ \A w : AnsweredRounds(w)' = 0
  <2>1. \A w : {i \in Turn : AnsweredIn(history[i], w)}' = {}
    BY <1>7
  <2> QED
    BY <1>7, <2>1, FS_EmptySet DEF Rounds, AnsweredRounds
<1> QED
  BY <1>3, <1>6, <1>8, Rests, ToolTurnsAssumption

LEMMA RunToolsStep == ASSUME IInv, RunTools PROVE IInv'
<1> DEFINE n == Len(history)
<1>1. PICK unanswered \in {{}, LastId(server.calls)}, progress \in {FALSE, mode.dialect = "responses"} :
        /\ history' = Append(history, Item(FALSE, server.calls, Ids(server.calls) \ unanswered, progress))
        /\ unanswered # {} => left.mishaps > 0
        /\ left' = IF unanswered = {} THEN left ELSE [left EXCEPT !.mishaps = @ - 1]
  BY DEF RunTools
<1> DEFINE item == Item(FALSE, server.calls, Ids(server.calls) \ unanswered, progress)
<1>2. /\ ~item.user /\ item.calls = server.calls /\ item.answered = Ids(server.calls) \ unanswered
      /\ item.progress \in BOOLEAN
  BY DEF Item
<1>3. At("calls") /\ HasCalls(server.calls)
  BY DEF RunTools, IInv, Exchanges
<1>4. server.calls \in CallLists
  BY TypesOf DEF ServerType
<1>5. item \in ItemType
  <2>1. Ids(server.calls) \subseteq Nat
    BY <1>4, CallsAre DEF Ids, Call
  <2> QED
    BY <1>4, <2>1 DEF Item, ItemType
<1>6. /\ server' \in ServerType /\ server'.pc = "idle" /\ server'.calls = <<>>
      /\ mode' = mode /\ open' \in BOOLEAN
  BY IdleTyped, TypesOf DEF RunTools
<1>7. left' \in [turns : 0..MaxTurns, mishaps : 0..MaxMishaps]
  BY <1>1, TypesOf, ToolTurnsAssumption
<1>8. Fit(item.calls) /\ Fit(server'.calls) /\ Ids(server'.calls) = {}
  BY <1>2, <1>6, SameFits, NoCalls DEF IInv
<1>9. history' = Append(history, item)
  BY <1>1
<1> HIDE DEF item
<1>10. /\ Typed' /\ Exchanges' /\ Unique' /\ Bounded'
       /\ n \in Nat /\ DOMAIN history = 1..n /\ DOMAIN history' = 1..(n + 1)
       /\ history'[n + 1] = item /\ \A i \in DOMAIN history : history'[i] = history[i]
  BY <1>2, <1>3, <1>5, <1>6, <1>7, <1>8, <1>9, OneMore
<1>11. Turn' = Turn \cup {n + 1} /\ n + 1 \notin Turn
  <2>1. Len(history') = n + 1
    BY <1>9 DEF IInv, Typed
  <2> HIDE DEF n
  <2>2. Turn' = {i \in 1..(n + 1) : \A j \in i..(n + 1) : ~history'[j].user}
    BY <1>10, <2>1 DEF Turn
  <2>3. Turn = {i \in 1..n : \A j \in i..n : ~history[j].user}
    BY <1>10 DEF Turn, n
  <2>4. n + 1 \in Turn'
    BY <1>2, <1>10, <2>2
  <2>5. ASSUME NEW i \in 1..n PROVE i \in Turn' <=> i \in Turn
    <3>1. i..(n + 1) = (i..n) \cup {n + 1}
      BY <1>10
    <3>2. \A j \in i..n : j \in DOMAIN history
      BY <1>10
    <3>3. (\A j \in i..(n + 1) : ~history'[j].user) <=> (\A j \in i..n : ~history[j].user)
      BY <1>2, <1>10, <3>1, <3>2
    <3>4. i \in 1..(n + 1)
      BY <1>10
    <3> QED
      BY <2>2, <2>3, <3>3, <3>4
  <2>6. Turn' \subseteq 1..(n + 1) /\ Turn \subseteq 1..n
    BY <2>2, <2>3
  <2>7. \A i \in 1..(n + 1) : i \in 1..n \/ i = n + 1
    BY <1>10
  <2>8. n + 1 \notin 1..n
    BY <1>10
  <2> QED
    BY <2>4, <2>5, <2>6, <2>7, <2>8
<1> HIDE DEF n
<1>12. Lists' => Rounds' <= MaxRounds + 1
  <2>1. Rounds' = Rounds + 1
    BY <1>11, TurnFinite, FS_AddElement DEF Rounds, IInv
  <2>2. Lists' => Rounds <= MaxRounds
    BY <1>3, <1>6 DEF IInv, Room, Lists
  <2> QED
    BY <2>1, <2>2, TurnFinite, ToolTurnsAssumption DEF IInv
<1>13. ASSUME Lists', ~mode'.looped, NEW w \in Work PROVE AnsweredRounds(w)' <= 2
  <2> DEFINE Answers == {i \in Turn : AnsweredIn(history[i], w)}
  <2>1. Lists /\ ~mode.looped
    BY <1>6, <1>13 DEF Lists
  <2>2. IsFiniteSet(Answers) /\ Cardinality(Answers) = AnsweredRounds(w) /\ AnsweredRounds(w) \in Nat
    BY TurnFinite DEF AnsweredRounds, IInv
  <2>3. Answers' = {i \in Turn' : AnsweredIn(history'[i], w)} /\ AnsweredRounds(w)' = Cardinality(Answers')
    BY DEF AnsweredRounds, AnsweredIn
  <2>4. \A i \in Turn : history'[i] = history[i]
    BY <1>10 DEF Turn
  <2>5. CASE AnsweredIn(item, w)
    <3>1. Answers' = Answers \cup {n + 1} /\ n + 1 \notin Answers
      BY <1>10, <1>11, <2>3, <2>4, <2>5
    <3>2. \E k \in DOMAIN server.calls : server.calls[k].work = w
      BY <1>2, <2>5 DEF AnsweredIn
    <3>3. AnsweredRounds(w) <= 1
      BY <1>3, <2>1, <3>2 DEF IInv, Unsettled
    <3> HIDE DEF Answers
    <3>4. Cardinality(Answers \cup {n + 1}) = Cardinality(Answers) + 1
      BY <2>2, <3>1, FS_AddElement
    <3> QED
      BY <2>2, <2>3, <3>1, <3>3, <3>4
  <2>6. CASE ~AnsweredIn(item, w)
    <3>1. Answers' = Answers
      BY <1>10, <1>11, <2>3, <2>4, <2>6
    <3>2. AnsweredRounds(w) <= 2
      BY <2>1 DEF IInv, Unsettled
    <3> HIDE DEF Answers
    <3> QED
      BY <2>2, <2>3, <3>1, <3>2
  <2> QED
    BY <2>5, <2>6
<1> QED
  BY <1>6, <1>10, <1>12, <1>13, Rests

\* What is left of a sequence without one of its items.
LEMMA Removed ==
  ASSUME NEW T, NEW s \in Seq(T), NEW i \in 1..Len(s)
  PROVE  /\ RemoveAt(s, i) \in Seq(T) /\ Len(RemoveAt(s, i)) = Len(s) - 1
         /\ \A j \in 1..(Len(s) - 1) : RemoveAt(s, i)[j] = IF j < i THEN s[j] ELSE s[j + 1]
<1> DEFINE r == RemoveAt(s, i)
           front == SubSeq(s, 1, i - 1)
           back == SubSeq(s, i + 1, Len(s))
<1>1. /\ front \in Seq(T) /\ Len(front) = i - 1 /\ \A j \in 1..(i - 1) : front[j] = s[j]
  BY SubSeqProperties
<1>2. /\ back \in Seq(T) /\ Len(back) = Len(s) - i
      /\ \A j \in 1..(Len(s) - i) : back[j] = s[(i + 1) + j - 1]
  BY SubSeqProperties
<1>3. r = front \o back
  BY DEF RemoveAt
<1> HIDE DEF front, back, r
<1>4. /\ r \in Seq(T) /\ Len(r) = Len(front) + Len(back)
      /\ \A j \in 1..(Len(front) + Len(back)) :
           r[j] = IF j <= Len(front) THEN front[j] ELSE back[j - Len(front)]
  BY <1>1, <1>2, <1>3, ConcatProperties
<1>5. Len(front) + Len(back) = Len(s) - 1 /\ Len(front) = i - 1
  BY <1>1, <1>2
<1>6. ASSUME NEW j \in 1..(Len(s) - 1), j < i PROVE r[j] = s[j]
  BY <1>1, <1>4, <1>5, <1>6
<1>7. ASSUME NEW j \in 1..(Len(s) - 1), j >= i PROVE r[j] = s[j + 1]
  <2>1. r[j] = back[j - (i - 1)] /\ j - (i - 1) \in 1..(Len(s) - i)
    <3>1. j \in 1..(Len(front) + Len(back)) /\ ~(j <= Len(front)) /\ Len(front) = i - 1
      BY <1>5, <1>7
    <3>2. r[j] = back[j - Len(front)]
      BY <1>4, <3>1
    <3> QED
      BY <1>7, <3>1, <3>2
  <2>2. (i + 1) + (j - (i - 1)) - 1 = j + 1
    OBVIOUS
  <2> QED
    BY <1>2, <2>1, <2>2
<1> QED
  BY <1>4, <1>5, <1>6, <1>7 DEF r

LEMMA TrimStep == ASSUME IInv, Trim PROVE IInv'
<1> DEFINE n == Len(history)
<1>1. PICK gone \in DOMAIN history : ~history[gone].user /\ history' = RemoveAt(history, gone)
  BY DEF Trim
<1> DEFINE old(j) == IF j < gone THEN j ELSE j + 1
           new(j) == IF j < gone THEN j ELSE j - 1
<1>2. history \in Seq(ItemType) /\ n \in Nat /\ DOMAIN history = 1..n /\ gone \in 1..n
  BY DEF IInv, Typed
<1>3. /\ history' \in Seq(ItemType) /\ Len(history') = n - 1
      /\ \A j \in 1..(n - 1) : history'[j] = IF j < gone THEN history[j] ELSE history[j + 1]
  BY <1>1, <1>2, Removed
<1> HIDE DEF n
<1>4. DOMAIN history' = 1..(n - 1)
  BY <1>3
<1>5. \A j \in DOMAIN history' : old(j) \in DOMAIN history /\ history'[j] = history[old(j)]
  BY <1>2, <1>3, <1>4
<1>6. \A j, k \in DOMAIN history' : old(j) = old(k) => j = k
  BY <1>2, <1>4
<1>7. UNCHANGED <<mode, open, server>> /\ server.pc = "idle"
  BY DEF Trim, At
<1>8. \A j \in DOMAIN history' : Ids(history[j].calls)' = Ids(history'[j].calls)
  BY DEF Ids
<1>9. Ids(server.calls)' = Ids(server.calls)
  BY <1>7 DEF Ids
<1>10. Typed'
  <2>1. left' \in [turns : 0..MaxTurns, mishaps : 0..MaxMishaps]
    BY TypesOf, ToolTurnsAssumption DEF Trim
  <2>2. \A j \in DOMAIN history' : history'[j].answered \subseteq Ids(history'[j].calls)
    <3> HIDE DEF old
    <3> QED
      BY <1>5 DEF IInv, Typed
  <2> QED
    BY <1>3, <1>7, <1>8, <2>1, <2>2 DEF IInv, Typed
<1>11. Exchanges'
  <2> HIDE DEF old
  <2>1. \A j \in DOMAIN history' :
          /\ history'[j].user <=> ~HasCalls(history'[j].calls)
          /\ history'[j].user => history'[j].answered = {} /\ ~history'[j].progress
    BY <1>5 DEF IInv, Exchanges
  <2>2. \A j \in DOMAIN history' : HasCalls(history[j].calls)' = HasCalls(history'[j].calls)
    BY DEF HasCalls
  <2> QED
    BY <1>7, <2>1, <2>2 DEF IInv, Exchanges, At
<1>12. Unique'
  <2> HIDE DEF old
  <2>1. ASSUME NEW i \in DOMAIN history', NEW j \in DOMAIN history',
               NEW k \in DOMAIN history'[i].calls, NEW l \in DOMAIN history'[j].calls,
               history'[i].calls[k].id = history'[j].calls[l].id
        PROVE  i = j /\ k = l
    <3>1. old(i) = old(j) /\ k = l
      BY <1>5, <2>1 DEF IInv, Unique
    <3> QED
      BY <1>6, <3>1
  <2>2. \A j \in DOMAIN history' : Ids(history'[j].calls) \cap Ids(server.calls) = {}
    BY <1>5 DEF IInv, Unique
  <2> QED
    BY <1>7, <1>8, <1>9, <2>1, <2>2 DEF IInv, Unique
<1>13. Bounded'
  <2> HIDE DEF old
  <2>1. PICK b \in Nat : UpTo(b)
    BY DEF IInv, Bounded
  <2>2. \A j \in DOMAIN history' : \A id \in Ids(history'[j].calls) : id <= b
    BY <1>5, <2>1 DEF UpTo
  <2>3. UpTo(b)'
    BY <1>8, <1>9, <2>1, <2>2 DEF UpTo
  <2> QED
    BY <2>3 DEF Bounded
<1>14. \A j \in Turn' : old(j) \in Turn
  <2>1. SUFFICES ASSUME NEW j \in Turn' PROVE old(j) \in Turn
    OBVIOUS
  <2>2. j \in 1..(n - 1) /\ \A l \in j..(n - 1) : ~history'[l].user
    BY <1>3, <1>4 DEF Turn
  <2>3. ASSUME NEW k \in old(j)..n PROVE ~history[k].user
    <3>1. CASE k = gone
      BY <1>1, <3>1
    <3>2. CASE k # gone
      <4>1. k \in 1..n /\ new(k) \in j..(n - 1) /\ new(k) \in DOMAIN history' /\ old(new(k)) = k
        BY <1>2, <1>4, <2>2, <2>3, <3>2
      <4> HIDE DEF old, new
      <4> QED
        BY <1>5, <2>2, <4>1
    <3> QED
      BY <3>1, <3>2
  <2>4. old(j) \in DOMAIN history
    BY <1>4, <1>5, <2>2
  <2> HIDE DEF old
  <2> QED
    BY <2>3, <2>4 DEF Turn, n
<1>15. \A j \in Turn' : j \in DOMAIN history'
  BY DEF Turn
<1> HIDE DEF old
<1>16. ASSUME NEW S, NEW R \in SUBSET Turn, IsFiniteSet(R), S \subseteq Turn', \A j \in S : old(j) \in R
       PROVE  Cardinality(S) <= Cardinality(R) /\ Cardinality(S) \in Nat
  <2> DEFINE f == [j \in S |-> old(j)]
  <2>1. f \in Injection(S, R)
    BY <1>6, <1>15, <1>16 DEF Injection, IsInjective
  <2> QED
    BY <1>16, <2>1, FS_Injection, FS_CardinalityType
<1>17. Rounds' <= Rounds /\ Rounds' \in Nat /\ Rounds \in Nat
  BY <1>14, <1>16, TurnFinite DEF IInv, Rounds
<1>18. ASSUME NEW w PROVE AnsweredRounds(w)' <= AnsweredRounds(w) /\ AnsweredRounds(w)' \in Nat /\ AnsweredRounds(w) \in Nat
  <2> DEFINE S == {j \in Turn' : AnsweredIn(history'[j], w)}
             R == {j \in Turn : AnsweredIn(history[j], w)}
  <2>1. AnsweredRounds(w)' = Cardinality(S) /\ AnsweredRounds(w) = Cardinality(R)
    BY DEF AnsweredRounds, AnsweredIn
  <2>2. R \in SUBSET Turn /\ S \subseteq Turn' /\ \A j \in S : old(j) \in R
    BY <1>5, <1>14, <1>15
  <2>3. IsFiniteSet(R) /\ AnsweredRounds(w) \in Nat
    BY TurnFinite DEF IInv
  <2> HIDE DEF S, R
  <2> QED
    BY <1>16, <2>1, <2>2, <2>3
<1>19. Lists' => Rounds' <= MaxRounds + 1
  BY <1>7, <1>17, ToolTurnsAssumption DEF IInv, Room, Lists
<1>20. ASSUME Lists', ~mode'.looped, NEW w \in Work PROVE AnsweredRounds(w)' <= 2
  <2>1. AnsweredRounds(w) <= 2
    BY <1>7, <1>20 DEF IInv, Unsettled, Lists
  <2> QED
    BY <1>18, <2>1
<1> QED
  BY <1>7, <1>10, <1>11, <1>12, <1>13, <1>19, <1>20, Rests

-----------------------------------------------------------------------------
(* The theorems. *)

LEMMA NextKeeps == IInv /\ [Next]_vars => IInv'
<1> SUFFICES ASSUME IInv, [Next]_vars PROVE IInv'
  OBVIOUS
<1>1. CASE Speak
  BY <1>1, SpeakStep
<1>2. CASE Trim
  BY <1>2, TrimStep
<1>3. CASE PostChat \/ PostMessages \/ PostResponses
  BY <1>3, HandleStep DEF PostChat, PostMessages, PostResponses
<1>4. CASE RunTools
  BY <1>4, RunToolsStep
<1>5. CASE EndTurn \/ Retry
  BY <1>5, EndTurnStep, RetryStep
<1>6. CASE Ask \/ AskFails \/ Repair \/ Judge
  BY <1>6, AskStep, AskFailsStep, RepairStep, JudgeStep
<1>7. CASE ConcludeChat \/ ConcludeMessages \/ ConcludeResponses
  BY <1>7, ConcludeStep
<1>8. CASE Act
  BY <1>8, ActStep
<1>9. CASE UNCHANGED vars
  <2>1. UNCHANGED <<mode, history, open, server, left>>
    BY <1>9 DEF vars
  <2>2. Handling' = Handling
    BY <2>1 DEF Handling
  <2>3. /\ server' \in ServerType /\ open' \in BOOLEAN
        /\ left' \in [turns : 0..MaxTurns, mishaps : 0..MaxMishaps]
    BY <2>1, TypesOf
  <2>4. Fit(server'.calls)
    BY <2>1, SameFits DEF IInv
  <2>5. /\ server'.pc = "calls" => HasCalls(server'.calls)
        /\ server'.pc # "bad" /\ (server'.pc = "act" => mode.looped)
        /\ Handling' => server'.ledger = Ledger(Active(Received))
        /\ Lists /\ (Handling' \/ server'.pc = "calls") => Rounds <= MaxRounds
    BY <2>1, <2>2 DEF IInv, Exchanges, HonestClientsAccepted, Informed, Room, At
  <2>6. ASSUME Lists, ~mode.looped, server'.pc = "calls", NEW k \in DOMAIN server'.calls
        PROVE  AnsweredRounds(server'.calls[k].work) <= 1
    <3>1. server.calls[k].work \in Work
      <4>1. server.calls \in CallLists
        BY TypesOf DEF ServerType
      <4> QED
        BY <2>1, <2>6, <4>1, CallsAre DEF Call
    <3> QED
      BY <2>1, <2>6, <3>1 DEF IInv, Unsettled, At
  <2> QED
    BY <2>1, <2>3, <2>4, <2>5, <2>6, Proceeds
<1> QED
  BY <1>1, <1>2, <1>3, <1>4, <1>5, <1>6, <1>7, <1>8, <1>9 DEF Next, Client, Server

THEOREM Invariance == Spec => []IInv
<1> QED
  BY StartsIn, NextKeeps, PTL DEF Spec

\* Types: what the server is given and what it holds is always of its kind, no result of the history
\* answers a call of another exchange, the server runs no tool of the client, and no handler asks
\* more often than its loop and its retries allow (runToolLoop, parseResponsesSimulationWithRetry).
THEOREM TypeCorrect == Spec => []TypeOK
<1>1. IInv => TypeOK
  <2> SUFFICES ASSUME IInv PROVE TypeOK
    OBVIOUS
  <2>1. \A c \in CallLists : AreCalls(c)
    BY CallsAre DEF AreCalls, Range
  <2>2. ASSUME NEW i \in DOMAIN history
        PROVE  /\ history[i].user \in BOOLEAN /\ history[i].progress \in BOOLEAN
               /\ AreCalls(history[i].calls) /\ history[i].answered \subseteq Ids(history[i].calls)
    <3>1. history[i] \in ItemType
      BY DEF IInv, Typed
    <3> QED
      BY <2>1, <3>1 DEF IInv, Typed, ItemType
  <2> QED
    BY <2>1, <2>2 DEF IInv, Typed, TypeOK
<1> QED
  BY <1>1, Invariance, PTL

\* However a history was interrupted, trimmed, sent again or left with calls unanswered, its ids are
\* unique and its results answer calls that are there: validateToolResultMessages passes it.
THEOREM HonestAreAccepted == Spec => []HonestClientsAccepted
<1>1. IInv => HonestClientsAccepted
  BY DEF IInv
<1> QED
  BY <1>1, Invariance, PTL

\* The rounds that the server counts in a history are those of the client's turn, so that no turn has
\* more than one above the limit (exceededToolRoundLimit over activeToolMessages).
THEOREM RoundsAreBounded == Spec => []RoundsBounded
<1>1. IInv => RoundsBounded
  BY DEF IInv, Room, RoundsBounded
<1> QED
  BY <1>1, Invariance, PTL

\* Every round in which a call was answered has a completed call of its own in the ledger, so that a
\* call is handed out twice at most (FilterRepeated over BuildLedger, dropSettledToolCalls).
THEOREM RepeatsEnd == Spec => []RepeatsStop
<1>1. IInv => RepeatsStop
  BY DEF IInv, Unsettled, RepeatsStop
<1> QED
  BY <1>1, Invariance, PTL
=============================================================================
