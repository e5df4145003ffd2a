--------------------------- MODULE StreamsProofs ---------------------------
(***************************************************************************)
(* Proofs about Streams.  What a handler has written is described by Nest: *)
(* its events come as they should, so many have started and stopped, and   *)
(* these are open.  The operators of the model are shown to keep Telling   *)
(* until the last chunk, to reach Calling with nothing open, and to leave  *)
(* an answer that has Ended; the invariant says which of the three holds   *)
(* where the handler is.                                                   *)
(***************************************************************************)
EXTENDS Streams, FiniteSetTheorems, TLAPS

-----------------------------------------------------------------------------
(* Lists of events. *)

\* What a handler may write.
Event ==
  [ev : {"start", "delta", "stop", "first", "call", "finish"}, index : Nat,
   of : {"thinking", "text", "reasoning", "message", "call", "compaction",
         "error", "tool_calls", "length", "stop"}]

\* A block or an item.
At(i, of) == [index |-> i, of |-> of]

\* Every event comes as it should.
Nested(out) == \A i \in DOMAIN out : InOrder(out, i, out[i])

\* Of a list of events: they come as they should, n have started, m stopped, and those of L are open.
Nest(out, n, m, L) ==
  /\ Nested(out)
  /\ Count(out, Len(out) + 1, "start") = n
  /\ Count(out, Len(out) + 1, "stop") = m
  /\ \A d \in L : IsOpen(out, Len(out) + 1, d)

-----------------------------------------------------------------------------
\* An event that is appended is the last one, those before it stay where they are.
LEMMA Appended ==
  ASSUME NEW out \in Seq(Event), NEW e \in Event
  PROVE  /\ Append(out, e) \in Seq(Event) /\ Append(out, e) # <<>>
         /\ Len(out) \in Nat /\ Len(Append(out, e)) = Len(out) + 1
         /\ DOMAIN out = 1..Len(out)
         /\ DOMAIN Append(out, e) = 1..(Len(out) + 1)
         /\ Append(out, e)[Len(out) + 1] = e
         /\ \A i \in 1..Len(out) : Append(out, e)[i] = out[i]
         /\ \A i \in DOMAIN out : out[i] \in Event
OBVIOUS

\* What came before an event stays.
LEMMA BeforeStays ==
  ASSUME NEW out \in Seq(Event), NEW e \in Event, NEW i \in 1..(Len(out) + 1)
  PROVE  /\ Edges(Append(out, e), i) = Edges(out, i)
         /\ \A ev : Count(Append(out, e), i, ev) = Count(out, i, ev)
         /\ \A d : IsOpen(Append(out, e), i, d) = IsOpen(out, i, d)
<1>0. /\ Len(out) \in Nat
      /\ \A j \in 1..(i - 1) : j \in 1..Len(out) /\ Append(out, e)[j] = out[j]
  BY Appended
<1>1. Edges(Append(out, e), i) = Edges(out, i)
  BY <1>0 DEF Edges
<1>2. \A j \in Edges(out, i) : Append(out, e)[j] = out[j]
  BY <1>0 DEF Edges
<1>3. ASSUME NEW ev PROVE Count(Append(out, e), i, ev) = Count(out, i, ev)
  <2>1. {j \in Edges(Append(out, e), i) : Append(out, e)[j].ev = ev} = {j \in Edges(out, i) : out[j].ev = ev}
    BY <1>1, <1>2
  <2> QED
    BY <2>1 DEF Count
<1>4. ASSUME NEW d PROVE IsOpen(Append(out, e), i, d) = IsOpen(out, i, d)
  BY <1>1, <1>2 DEF IsOpen
<1> QED
  BY <1>1, <1>3, <1>4

\* The edges of a list are finite in number.
LEMMA CountType ==
  ASSUME NEW out \in Seq(Event), NEW ev
  PROVE  /\ IsFiniteSet({j \in Edges(out, Len(out) + 1) : out[j].ev = ev})
         /\ Count(out, Len(out) + 1, ev) \in Nat
<1>1. Len(out) \in Nat /\ IsFiniteSet(1..Len(out))
  BY FS_Interval
<1>2. {j \in Edges(out, Len(out) + 1) : out[j].ev = ev} \in SUBSET (1..Len(out))
  BY <1>1 DEF Edges
<1> QED
  BY <1>1, <1>2, FS_Subset, FS_CardinalityType DEF Count

\* What an event adds to what has been started and stopped.
LEMMA CountNext ==
  ASSUME NEW out \in Seq(Event), NEW e \in Event, NEW ev \in {"start", "stop"}
  PROVE  Count(Append(out, e), Len(out) + 2, ev)
           = IF e.ev = ev THEN Count(out, Len(out) + 1, ev) + 1 ELSE Count(out, Len(out) + 1, ev)
<1> DEFINE S == {j \in Edges(out, Len(out) + 1) : out[j].ev = ev}
           T == {j \in Edges(Append(out, e), Len(out) + 2) : Append(out, e)[j].ev = ev}
<1>1. T = IF e.ev = ev THEN S \cup {Len(out) + 1} ELSE S
  BY Appended DEF Edges
<1>2. IsFiniteSet(S) /\ Len(out) + 1 \notin S
  <2>1. Len(out) \in Nat /\ Edges(out, Len(out) + 1) \subseteq 1..Len(out)
    BY Appended DEF Edges
  <2>2. IsFiniteSet(S)
    BY CountType
  <2>3. Len(out) + 1 \notin 1..Len(out)
    BY <2>1
  <2> QED
    BY <2>1, <2>2, <2>3
<1>3. Cardinality(S \cup {Len(out) + 1}) = Cardinality(S) + 1
  BY <1>2, FS_AddElement
<1> QED
  BY <1>1, <1>3 DEF Count

\* What an event leaves open.
LEMMA OpenNext ==
  ASSUME NEW out \in Seq(Event), NEW e \in Event, NEW d
  PROVE  /\ (e.ev = "start" /\ Same(e, d)) => IsOpen(Append(out, e), Len(out) + 2, d)
         /\ (IsOpen(out, Len(out) + 1, d) /\ ~(e.ev = "stop" /\ Same(e, d)))
              => IsOpen(Append(out, e), Len(out) + 2, d)
<1> DEFINE new == Append(out, e)
<1>1. \A k \in Edges(new, Len(out) + 2) : k = Len(out) + 1 \/ k \in Edges(out, Len(out) + 1)
  BY Appended DEF Edges
<1>2. \A k \in Edges(out, Len(out) + 1) : k \in 1..Len(out) /\ k \in Edges(new, Len(out) + 2) /\ new[k] = out[k]
  BY Appended DEF Edges
<1>3. new[Len(out) + 1] = e /\ Len(out) \in Nat
  BY Appended
<1>4. CASE e.ev = "start" /\ Same(e, d)
  <2>1. Len(out) + 1 \in Edges(new, Len(out) + 2)
    BY <1>3, <1>4 DEF Edges
  <2>2. \A k \in Edges(new, Len(out) + 2) : ~(k > Len(out) + 1)
    BY <1>1, <1>2, <1>3
  <2> QED
    BY <1>3, <1>4, <2>1, <2>2 DEF IsOpen
<1>5. CASE IsOpen(out, Len(out) + 1, d) /\ ~(e.ev = "stop" /\ Same(e, d))
  <2>1. PICK j \in Edges(out, Len(out) + 1) :
           /\ out[j].ev = "start" /\ Same(out[j], d)
           /\ \A k \in Edges(out, Len(out) + 1) : k > j => ~(out[k].ev = "stop" /\ Same(out[k], d))
    BY <1>5 DEF IsOpen
  <2>2. j \in Edges(new, Len(out) + 2) /\ new[j] = out[j]
    BY <1>2
  <2>3. \A k \in Edges(new, Len(out) + 2) : k > j => ~(new[k].ev = "stop" /\ Same(new[k], d))
    BY <1>1, <1>2, <1>3, <1>5, <2>1
  <2> QED
    BY <2>1, <2>2, <2>3 DEF IsOpen
<1> QED
  BY <1>4, <1>5

\* An event that comes as it should leaves a list whose events do.
LEMMA NestedNext ==
  ASSUME NEW out \in Seq(Event), NEW e \in Event, Nested(out), InOrder(out, Len(out) + 1, e)
  PROVE  Nested(Append(out, e))
<1>1. ASSUME NEW i \in DOMAIN Append(out, e) PROVE InOrder(Append(out, e), i, Append(out, e)[i])
  <2>1. i \in 1..(Len(out) + 1)
    BY Appended
  <2>2. InOrder(Append(out, e), i, Append(out, e)[i]) = InOrder(out, i, Append(out, e)[i])
    BY <2>1, BeforeStays DEF InOrder
  <2>3. InOrder(out, i, Append(out, e)[i])
    <3>1. CASE i = Len(out) + 1
      BY <3>1, Appended
    <3>2. CASE i # Len(out) + 1
      <4>1. i \in DOMAIN out /\ Append(out, e)[i] = out[i]
        BY <2>1, <3>2, Appended
      <4> QED
        BY <4>1 DEF Nested
    <3> QED
      BY <3>1, <3>2
  <2> QED
    BY <2>2, <2>3
<1> QED
  BY <1>1 DEF Nested

\* IsOpen looks at what an event is about only.
LEMMA OpenOf ==
  ASSUME NEW out, NEW i, NEW e
  PROVE  IsOpen(out, i, e) = IsOpen(out, i, At(e.index, e.of))
BY DEF IsOpen, Same, At

\* A start with the next index keeps the events in order, and what it starts is open.
LEMMA NestStart ==
  ASSUME NEW out \in Seq(Event), NEW n \in Nat, NEW m \in Nat, NEW L, NEW of,
         E("start", n, of) \in Event, Nest(out, n, m, L), Is("anthropic") => n = m
  PROVE  Nest(Append(out, E("start", n, of)), n + 1, m, L \cup {At(n, of)})
<1> DEFINE e == E("start", n, of)
<1>1. e.ev = "start" /\ e.index = n /\ Same(e, At(n, of))
  BY DEF E, Same, At
<1> HIDE DEF e
<1>2. Nested(Append(out, e))
  BY <1>1, NestedNext DEF Nest, InOrder, e
<1>3. \A d \in L \cup {At(n, of)} : IsOpen(Append(out, e), Len(out) + 2, d)
  BY <1>1, OpenNext DEF Nest, e
<1>4. /\ Count(Append(out, e), Len(out) + 2, "start") = n + 1
      /\ Count(Append(out, e), Len(out) + 2, "stop") = m
  BY <1>1, CountNext DEF Nest, e
<1>5. Len(Append(out, e)) + 1 = Len(out) + 2
  BY Appended DEF e
<1> QED
  BY <1>2, <1>3, <1>4, <1>5 DEF Nest, e

\* A delta about what is open keeps the events in order.
LEMMA NestDelta ==
  ASSUME NEW out \in Seq(Event), NEW n \in Nat, NEW m \in Nat, NEW L, NEW i, NEW of,
         E("delta", i, of) \in Event, Nest(out, n, m, L), At(i, of) \in L
  PROVE  Nest(Append(out, E("delta", i, of)), n, m, L)
<1> DEFINE e == E("delta", i, of)
<1>1. e.ev = "delta" /\ e.index = i /\ e.of = of
  BY DEF E
<1> HIDE DEF e
<1>2. IsOpen(out, Len(out) + 1, e)
  BY <1>1, OpenOf DEF Nest
<1>3. Nested(Append(out, e))
  BY <1>1, <1>2, NestedNext DEF Nest, InOrder, e
<1>4. \A d \in L : IsOpen(Append(out, e), Len(out) + 2, d)
  BY <1>1, OpenNext DEF Nest, e
<1>5. /\ Count(Append(out, e), Len(out) + 2, "start") = n
      /\ Count(Append(out, e), Len(out) + 2, "stop") = m
  BY <1>1, CountNext DEF Nest, e
<1>6. Len(Append(out, e)) + 1 = Len(out) + 2
  BY Appended DEF e
<1> QED
  BY <1>3, <1>4, <1>5, <1>6 DEF Nest, e

\* A stop of what is open keeps the events in order; nothing else is closed by it.
LEMMA NestStop ==
  ASSUME NEW out \in Seq(Event), NEW n \in Nat, NEW m \in Nat, NEW L, NEW i, NEW of,
         E("stop", i, of) \in Event, Nest(out, n, m, L), At(i, of) \in L,
         \A d \in L : d = At(d.index, d.of)
  PROVE  Nest(Append(out, E("stop", i, of)), n, m + 1, L \ {At(i, of)})
<1> DEFINE e == E("stop", i, of)
<1>1. e.ev = "stop" /\ e.index = i /\ e.of = of
  BY DEF E
<1> HIDE DEF e
<1>2. IsOpen(out, Len(out) + 1, e)
  BY <1>1, OpenOf DEF Nest
<1>3. Nested(Append(out, e))
  BY <1>1, <1>2, NestedNext DEF Nest, InOrder, e
<1>4. \A d \in L \ {At(i, of)} : ~Same(e, d)
  BY <1>1 DEF Same
<1>5. \A d \in L \ {At(i, of)} : IsOpen(Append(out, e), Len(out) + 2, d)
  BY <1>4, OpenNext DEF Nest, e
<1>6. /\ Count(Append(out, e), Len(out) + 2, "start") = n
      /\ Count(Append(out, e), Len(out) + 2, "stop") = m + 1
  BY <1>1, CountNext DEF Nest, e
<1>7. Len(Append(out, e)) + 1 = Len(out) + 2
  BY Appended DEF e
<1> QED
  BY <1>3, <1>5, <1>6, <1>7 DEF Nest, e

\* An end keeps the events in order when all that started has stopped, or when it is an error.
LEMMA NestFinish ==
  ASSUME NEW out \in Seq(Event), NEW n \in Nat, NEW m \in Nat, NEW L, NEW of,
         E("finish", 0, of) \in Event, Nest(out, n, m, L), of = "error" \/ n = m
  PROVE  Nest(Append(out, E("finish", 0, of)), n, m, L)
<1> DEFINE e == E("finish", 0, of)
<1>1. e.ev = "finish" /\ e.of = of
  BY DEF E
<1> HIDE DEF e
<1>2. Nested(Append(out, e))
  BY <1>1, NestedNext DEF Nest, InOrder, e
<1>3. \A d \in L : IsOpen(Append(out, e), Len(out) + 2, d)
  BY <1>1, OpenNext DEF Nest, e
<1>4. /\ Count(Append(out, e), Len(out) + 2, "start") = n
      /\ Count(Append(out, e), Len(out) + 2, "stop") = m
  BY <1>1, CountNext DEF Nest, e
<1>5. Len(Append(out, e)) + 1 = Len(out) + 2
  BY Appended DEF e
<1> QED
  BY <1>2, <1>3, <1>4, <1>5 DEF Nest, e

\* Nothing has been said yet.
LEMMA NestEmpty == Nest(<<>>, 0, 0, {})
<1>1. \A ev : {j \in Edges(<<>>, 1) : <<>>[j].ev = ev} = {}
  BY DEF Edges
<1>2. Len(<<>>) + 1 = 1 /\ DOMAIN <<>> = {}
  OBVIOUS
<1> QED
  BY <1>1, <1>2, FS_EmptySet DEF Nest, Nested, Count

-----------------------------------------------------------------------------
(* What the handlers write. *)

Record ==
  [pc : {"begin", "receive", "drain", "parse", "finish", "calls", "done"}, text : Nat, held : BOOLEAN,
   mixed : BOOLEAN, truncated : BOOLEAN, draining : BOOLEAN, parsed : {"none", "content", "error"},
   calls : Nat, unsent : Nat, role : BOOLEAN, open : SUBSET {"thinking", "text", "reasoning", "message"},
   closed : BOOLEAN, block : Nat, message : Nat, out : Seq(Event)]

\* Before the calls and the end.
Body(out) == \A i \in DOMAIN out : out[i].ev \notin {"finish", "call"} /\ out[i].of # "call"

\* From x to y something has been written that is neither a call nor the end.
Says(x, y) ==
  /\ y \in Record
  /\ y.pc = x.pc /\ y.text = x.text /\ y.mixed = x.mixed /\ y.truncated = x.truncated /\ y.closed = x.closed
  /\ y.calls = x.calls /\ y.parsed = x.parsed /\ y.unsent = x.unsent
  /\ Body(x.out) => Body(y.out)

\* Chat: what is said first carries the role, and nothing else does.
Headed(out) ==
  \A i \in DOMAIN out : /\ out[i].ev = "first" => i = 1
                        /\ out[i].ev \in {"delta", "call"} => i > 1
Spoken(x) == Headed(x.out) /\ (x.role <=> x.out # <<>>)

\* Anthropic: at most one block is open, and it has the index blockIndex.
OneBlock(x) ==
  \/ x.open = {} /\ Nest(x.out, x.block, x.block, {})
  \/ \E of \in {"thinking", "text"} :
       x.open = {of} /\ Nest(x.out, x.block + 1, x.block, {At(x.block, of)})

\* What the handlers write are events, and carry what they are given.
LEMMA Events ==
  /\ \A ev \in {"start", "delta", "stop"}, i \in Nat,
        of \in {"thinking", "text", "reasoning", "message", "call", "compaction"} : E(ev, i, of) \in Event
  /\ \A ev \in {"first", "delta", "call"}, i \in Nat,
        of \in {"thinking", "text", "call"} : E(ev, i, of) \in Event
  /\ \A of \in {"error", "tool_calls", "length", "stop"} : E("finish", 0, of) \in Event
  /\ \A ev, i, of : E(ev, i, of).ev = ev /\ E(ev, i, of).index = i /\ E(ev, i, of).of = of
BY DEF E, Event

\* Writing changes nothing but the list of events.
LEMMA WriteRecord ==
  ASSUME NEW x \in Record, NEW e \in Event
  PROVE  /\ Write(x, e) \in Record
         /\ Write(x, e) = [x EXCEPT !.out = Append(x.out, e)]
         /\ Write(x, e).out = Append(x.out, e)
         /\ Write(x, e).open = x.open /\ Write(x, e).block = x.block /\ Write(x, e).message = x.message
         /\ Write(x, e).role = x.role
<1>1. x.out \in Seq(Event) /\ Append(x.out, e) \in Seq(Event)
  BY Appended DEF Record
<1>2. Write(x, e) = [x EXCEPT !.out = Append(x.out, e)]
  BY DEF Write
<1> QED
  BY <1>1, <1>2 DEF Record

\* Writing anything but a call or the end leaves the rest of a handler as it is.
LEMMA WriteSays ==
  ASSUME NEW x \in Record, NEW e \in Event, e.ev \notin {"finish", "call"}, e.of # "call"
  PROVE  Says(x, Write(x, e))
<1>1. x.out \in Seq(Event)
  BY DEF Record
<1>2. Body(x.out) => Body(Append(x.out, e))
  BY <1>1, Appended DEF Body
<1>3. Write(x, e) = [x EXCEPT !.out = Append(x.out, e)] /\ Write(x, e) \in Record
  BY WriteRecord
<1> DEFINE y == [x EXCEPT !.out = Append(x.out, e)]
<1>4. /\ y.pc = x.pc /\ y.text = x.text /\ y.mixed = x.mixed /\ y.truncated = x.truncated
      /\ y.closed = x.closed /\ y.calls = x.calls /\ y.parsed = x.parsed /\ y.unsent = x.unsent
      /\ y.out = Append(x.out, e)
  BY DEF Record
<1> QED
  BY <1>2, <1>3, <1>4 DEF Says

\* Saying one thing after another is saying something.
LEMMA SaysSays ==
  ASSUME NEW x, NEW y, NEW z, Says(x, y), Says(y, z)
  PROVE  Says(x, z)
BY DEF Says

\* The fields that tell which blocks and items are open.
LEMMA MarkOpen ==
  ASSUME NEW x \in Record, NEW open \in SUBSET {"thinking", "text", "reasoning", "message"}
  PROVE  LET y == [x EXCEPT !.open = open]
         IN  Says(x, y) /\ y.open = open /\ y.block = x.block /\ y.message = x.message /\ y.out = x.out
BY DEF Says, Record

\* Chat: Say keeps the role where it belongs, at the head of the answer.
LEMMA SayKeeps ==
  ASSUME NEW x \in Record, NEW of \in {"thinking", "text"}, Spoken(x)
  PROVE  Says(x, Say(x, of)) /\ Spoken(Say(x, of))
<1> DEFINE e == E(If(x.role, "delta", "first"), 0, of)
<1>1. e \in Event /\ e.ev = (IF x.role THEN "delta" ELSE "first") /\ e.of = of
  BY Events DEF If, Record
<1>2. Say(x, of) = [Write(x, e) EXCEPT !.role = TRUE]
  BY DEF Say
<1> HIDE DEF e
<1>3. Says(x, Write(x, e)) /\ Write(x, e).out = Append(x.out, e) /\ Write(x, e) \in Record
  BY <1>1, WriteSays, WriteRecord
<1>4. Says(Write(x, e), Say(x, of)) /\ Say(x, of).role /\ Say(x, of).out = Append(x.out, e)
  BY <1>2, <1>3 DEF Says, Record
<1>5. Headed(Append(x.out, e)) /\ Append(x.out, e) # <<>>
  <2>1. x.out \in Seq(Event) /\ (Len(x.out) = 0 <=> x.out = <<>>)
    BY DEF Record
  <2> QED
    BY <1>1, <2>1, Appended DEF Headed, Spoken
<1> QED
  BY <1>3, <1>4, <1>5, SaysSays DEF Spoken

\* Anthropic: what OpenBlock writes and what it leaves.
LEMMA OpenBlockSays ==
  ASSUME NEW x \in Record, NEW of \in {"thinking", "text"}
  PROVE  /\ Says(x, OpenBlock(x, of))
         /\ OpenBlock(x, of).open = x.open \cup {of} /\ OpenBlock(x, of).block = x.block
         /\ of \notin x.open => OpenBlock(x, of).out = Append(x.out, E("start", x.block, of))
         /\ of \in x.open => OpenBlock(x, of) = x
<1>1. CASE of \in x.open
  BY <1>1 DEF OpenBlock, Says
<1>2. CASE of \notin x.open
  <2> DEFINE e == E("start", x.block, of)
             w == Write(x, e)
             open == x.open \cup {of}
  <2>1. e \in Event /\ e.ev = "start" /\ e.of = of
    BY Events DEF Record
  <2>2. OpenBlock(x, of) = [w EXCEPT !.open = w.open \cup {of}]
    BY <1>2 DEF OpenBlock
  <2> HIDE DEF e
  <2>3. /\ Says(x, w) /\ w \in Record /\ w.out = Append(x.out, e)
        /\ w.open = x.open /\ w.block = x.block
    BY <2>1, WriteSays, WriteRecord
  <2>4. open \in SUBSET {"thinking", "text", "reasoning", "message"}
    BY DEF Record
  <2> HIDE DEF w, open
  <2>5. OpenBlock(x, of) = [w EXCEPT !.open = open]
    BY <2>2, <2>3 DEF open
  <2>6. /\ Says(w, [w EXCEPT !.open = open]) /\ [w EXCEPT !.open = open].open = open
        /\ [w EXCEPT !.open = open].block = w.block /\ [w EXCEPT !.open = open].out = w.out
    BY <2>3, <2>4, MarkOpen
  <2>7. Says(x, OpenBlock(x, of))
    BY <2>3, <2>5, <2>6, SaysSays
  <2> QED
    BY <1>2, <2>3, <2>5, <2>6, <2>7 DEF e, open
<1> QED
  BY <1>1, <1>2

\* Anthropic: opening a block while no other one is open leaves one open block.
LEMMA OpenBlockKeeps ==
  ASSUME NEW x \in Record, NEW of \in {"thinking", "text"}, OneBlock(x), x.open \subseteq {of}
  PROVE  OneBlock(OpenBlock(x, of)) /\ OpenBlock(x, of).open = {of}
<1>1. CASE of \in x.open
  BY <1>1, OpenBlockSays
<1>2. CASE of \notin x.open
  <2>1. x.open = {} /\ Nest(x.out, x.block, x.block, {}) /\ x.block \in Nat /\ x.out \in Seq(Event)
    BY <1>2 DEF OneBlock, Record
  <2>2. Nest(Append(x.out, E("start", x.block, of)), x.block + 1, x.block, {} \cup {At(x.block, of)})
    BY <2>1, Events, NestStart
  <2> QED
    BY ZenonT(40), <1>2, <2>1, <2>2, OpenBlockSays DEF OneBlock
<1> QED
  BY <1>1, <1>2

\* What BlockDelta writes and what it leaves.
LEMMA BlockDeltaSays ==
  ASSUME NEW x \in Record, NEW of \in {"thinking", "text"}
  PROVE  /\ Says(x, BlockDelta(x, of))
         /\ BlockDelta(x, of).open = x.open \cup {of} /\ BlockDelta(x, of).block = x.block
         /\ BlockDelta(x, of).out = Append(OpenBlock(x, of).out, E("delta", x.block, of))
<1> DEFINE y == OpenBlock(x, of)
           e == E("delta", x.block, of)
<1>1. e \in Event /\ e.ev = "delta" /\ e.of = of
  BY Events DEF Record
<1>2. Says(x, y) /\ y \in Record /\ y.open = x.open \cup {of} /\ y.block = x.block
  BY OpenBlockSays DEF Says
<1>3. BlockDelta(x, of) = Write(y, e)
  BY DEF BlockDelta
<1> HIDE DEF y, e
<1> QED
  BY SMTT(30), <1>1, <1>2, <1>3, WriteSays, WriteRecord, SaysSays DEF y, e

\* Anthropic: a delta while no other block is open leaves one open block.
LEMMA BlockDeltaKeeps ==
  ASSUME NEW x \in Record, NEW of \in {"thinking", "text"}, OneBlock(x), x.open \subseteq {of}
  PROVE  OneBlock(BlockDelta(x, of)) /\ BlockDelta(x, of).open = {of}
<1> DEFINE y == OpenBlock(x, of)
<1>1. /\ y \in Record /\ OneBlock(y) /\ y.open = {of} /\ y.block = x.block
      /\ y.block \in Nat /\ y.out \in Seq(Event)
  BY OpenBlockSays, OpenBlockKeeps DEF Says, Record
<1> HIDE DEF y
<1>2. Nest(y.out, y.block + 1, y.block, {At(y.block, of)})
  BY <1>1 DEF OneBlock
<1>3. Nest(Append(y.out, E("delta", y.block, of)), y.block + 1, y.block, {At(y.block, of)})
  BY SMTT(30), <1>1, <1>2, Events, NestDelta
<1> QED
  BY ZenonT(40), <1>1, <1>3, BlockDeltaSays DEF OneBlock, y

\* What CloseBlock writes and what it leaves.
LEMMA CloseBlockSays ==
  ASSUME NEW x \in Record, NEW of \in {"thinking", "text"}
  PROVE  /\ Says(x, CloseBlock(x, of))
         /\ CloseBlock(x, of).open = x.open \ {of}
         /\ of \in x.open => /\ CloseBlock(x, of).out = Append(x.out, E("stop", x.block, of))
                             /\ CloseBlock(x, of).block = x.block + 1
         /\ of \notin x.open => CloseBlock(x, of) = x
<1>1. CASE of \notin x.open
  BY <1>1 DEF CloseBlock, Says
<1>2. CASE of \in x.open
  <2> DEFINE e == E("stop", x.block, of)
             w == Write(x, e)
             open == x.open \ {of}
             n == x.block + 1
  <2>1. e \in Event /\ e.ev = "stop" /\ e.of = of
    BY Events DEF Record
  <2>2. CloseBlock(x, of) = [w EXCEPT !.open = w.open \ {of}, !.block = w.block + 1]
    BY <1>2 DEF CloseBlock
  <2> HIDE DEF e
  <2>3. /\ Says(x, w) /\ w \in Record /\ w.out = Append(x.out, e)
        /\ w.open = x.open /\ w.block = x.block
    BY <2>1, WriteSays, WriteRecord
  <2>4. open \in SUBSET {"thinking", "text", "reasoning", "message"} /\ n \in Nat
    BY DEF Record
  <2> HIDE DEF w, open, n
  <2>5. CloseBlock(x, of) = [w EXCEPT !.open = open, !.block = n]
    BY <2>2, <2>3 DEF open, n
  <2>6. /\ Says(w, CloseBlock(x, of)) /\ CloseBlock(x, of).open = open
        /\ CloseBlock(x, of).block = n /\ CloseBlock(x, of).out = w.out
    BY ZenonT(40), <2>3, <2>4, <2>5 DEF Record, Says
  <2>7. Says(x, CloseBlock(x, of))
    BY <2>3, <2>5, <2>6, SaysSays
  <2> QED
    BY <1>2, <2>3, <2>5, <2>6, <2>7 DEF e, open, n
<1> QED
  BY <1>1, <1>2

\* Anthropic: closing a block, whether open or not, leaves the blocks in order.
LEMMA CloseBlockKeeps ==
  ASSUME NEW x \in Record, NEW of \in {"thinking", "text"}, OneBlock(x)
  PROVE  OneBlock(CloseBlock(x, of))
<1>1. CASE of \notin x.open
  BY <1>1, CloseBlockSays
<1>2. CASE of \in x.open
  <2>1. /\ x.open = {of} /\ Nest(x.out, x.block + 1, x.block, {At(x.block, of)})
        /\ x.block \in Nat /\ x.block + 1 \in Nat /\ x.out \in Seq(Event)
    <3>1. x.open # {} /\ (\A o : x.open = {o} => o = of)
      BY <1>2
    <3>2. x.open = {of} /\ Nest(x.out, x.block + 1, x.block, {At(x.block, of)})
      BY <3>1 DEF OneBlock
    <3> QED
      BY <3>2 DEF Record
  <2>2. \A d \in {At(x.block, of)} : d = At(d.index, d.of)
    BY DEF At
  <2>3. Nest(Append(x.out, E("stop", x.block, of)), x.block + 1, x.block + 1,
             {At(x.block, of)} \ {At(x.block, of)})
    BY <2>1, <2>2, Events, NestStop
  <2> QED
    BY <1>2, <2>1, <2>3, CloseBlockSays DEF OneBlock
<1> QED
  BY <1>1, <1>2

\* Responses: the items that are open, and those there have been.
Alive(x) ==
  (IF "reasoning" \in x.open THEN {At(0, "reasoning")} ELSE {})
    \cup (IF "message" \in x.open THEN {At(MessageIndex(x), "message")} ELSE {})
ItemCount(x) == MessageIndex(x) + If("message" \in x.open, 1, 0)

Items(x) ==
  /\ x.open \subseteq {"reasoning", "message"}
  /\ "message" \in x.open => x.message = MessageIndex(x)
  /\ Nest(x.out, ItemCount(x), 0, Alive(x))

\* What Reason writes and what it leaves.
LEMMA ReasonSays ==
  ASSUME NEW x \in Record
  PROVE  /\ Says(x, Reason(x)) /\ Reason(x).open = x.open \cup {"reasoning"}
         /\ Reason(x).message = x.message /\ Reason(x).block = x.block
         /\ Reason(x).out =
              Append(IF "reasoning" \in x.open THEN x.out ELSE Append(x.out, E("start", 0, "reasoning")),
                     E("delta", 0, "reasoning"))
<1> DEFINE s == E("start", 0, "reasoning")
           d == E("delta", 0, "reasoning")
           y == IF "reasoning" \in x.open THEN x
                ELSE [Write(x, s) EXCEPT !.open = @ \cup {"reasoning"}]
<1>1. s \in Event /\ d \in Event /\ s.ev = "start" /\ d.ev = "delta" /\ s.of # "call" /\ d.of # "call"
  BY Events
<1>2. Reason(x) = Write(y, d)
  BY DEF Reason
<1> HIDE DEF s, d
<1>3. /\ Says(x, y) /\ y \in Record /\ y.open = x.open \cup {"reasoning"}
      /\ y.message = x.message /\ y.block = x.block
      /\ y.out = IF "reasoning" \in x.open THEN x.out ELSE Append(x.out, s)
  <2>1. CASE "reasoning" \in x.open
    BY <2>1 DEF Says
  <2>2. CASE "reasoning" \notin x.open
    <3> DEFINE w == Write(x, s)
               open == x.open \cup {"reasoning"}
    <3>1. /\ Says(x, w) /\ w \in Record /\ w.out = Append(x.out, s)
          /\ w.open = x.open /\ w.message = x.message /\ w.block = x.block
      BY <1>1, WriteSays, WriteRecord
    <3>2. open \in SUBSET {"thinking", "text", "reasoning", "message"}
      BY DEF Record
    <3>3. y = [w EXCEPT !.open = w.open \cup {"reasoning"}]
      BY <2>2
    <3> HIDE DEF w, open, y
    <3>4. y = [w EXCEPT !.open = open]
      BY <3>1, <3>3 DEF open
    <3>5. /\ Says(w, y) /\ y.open = open /\ y.message = w.message /\ y.block = w.block /\ y.out = w.out
          /\ y \in Record
      BY <3>1, <3>2, <3>4 DEF Says, Record
    <3> QED
      BY <2>2, <3>1, <3>5, SaysSays DEF open
  <2> QED
    BY <2>1, <2>2
<1> HIDE DEF y
<1>4. /\ Says(y, Write(y, d)) /\ Write(y, d).out = Append(y.out, d) /\ Write(y, d).open = y.open
      /\ Write(y, d).message = y.message /\ Write(y, d).block = y.block
  BY <1>1, <1>3, WriteSays, WriteRecord
<1> QED
  BY <1>2, <1>3, <1>4, SaysSays DEF s, d

\* Responses: reasoning that comes before the message keeps the items in order.
LEMMA ReasonKeeps ==
  ASSUME NEW x \in Record, Items(x), "message" \notin x.open
  PROVE  Items(Reason(x)) /\ "message" \notin Reason(x).open
<1> DEFINE out == IF "reasoning" \in x.open THEN x.out ELSE Append(x.out, E("start", 0, "reasoning"))
           L == {At(0, "reasoning")}
<1>1. x.out \in Seq(Event) /\ out \in Seq(Event)
  BY Events, Appended DEF Record
<1>2. Nest(out, 1, 0, L)
  <2>1. CASE "reasoning" \in x.open
    <3>1. ItemCount(x) = 1 /\ Alive(x) = L
      BY <2>1 DEF ItemCount, MessageIndex, If, Alive
    <3> QED
      BY <2>1, <3>1 DEF Items
  <2>2. CASE "reasoning" \notin x.open
    <3>1. ItemCount(x) = 0 /\ Alive(x) = {}
      BY <2>2 DEF ItemCount, MessageIndex, If, Alive
    <3>2. Nest(x.out, 0, 0, {}) /\ E("start", 0, "reasoning") \in Event
      BY <3>1, Events DEF Items
    <3>3. Nest(Append(x.out, E("start", 0, "reasoning")), 0 + 1, 0, {} \cup {At(0, "reasoning")})
      BY <1>1, <3>2, NestStart
    <3> QED
      BY <2>2, <3>3
  <2> QED
    BY <2>1, <2>2
<1> HIDE DEF out
<1>3. Nest(Append(out, E("delta", 0, "reasoning")), 1, 0, L)
  BY <1>1, <1>2, Events, NestDelta
<1>4. Reason(x).open = {"reasoning"} /\ Reason(x).out = Append(out, E("delta", 0, "reasoning"))
  BY ReasonSays DEF Items, out
<1>5. ItemCount(Reason(x)) = 1 /\ Alive(Reason(x)) = L
  BY <1>4 DEF ItemCount, MessageIndex, If, Alive
<1> QED
  BY <1>3, <1>4, <1>5 DEF Items

\* What OpenMessage writes and what it leaves.
LEMMA OpenMessageSays ==
  ASSUME NEW x \in Record
  PROVE  /\ Says(x, OpenMessage(x)) /\ OpenMessage(x).open = x.open \cup {"message"}
         /\ "message" \in x.open => OpenMessage(x) = x
         /\ "message" \notin x.open =>
              /\ OpenMessage(x).message = MessageIndex(x)
              /\ OpenMessage(x).out = Append(x.out, E("start", MessageIndex(x), "message"))
<1>1. CASE "message" \in x.open
  BY <1>1 DEF OpenMessage, Says
<1>2. CASE "message" \notin x.open
  <2> DEFINE i == MessageIndex(x)
             e == E("start", i, "message")
             w == Write(x, e)
             open == x.open \cup {"message"}
  <2>0. i \in Nat
    BY DEF MessageIndex, If
  <2>1. e \in Event /\ e.ev = "start" /\ e.of # "call"
    BY <2>0, Events
  <2>2. OpenMessage(x) = [w EXCEPT !.open = w.open \cup {"message"}, !.message = i]
    BY <1>2 DEF OpenMessage
  <2> HIDE DEF e, i
  <2>3. Says(x, w) /\ w \in Record /\ w.out = Append(x.out, e) /\ w.open = x.open
    BY <2>1, WriteSays, WriteRecord
  <2>4. open \in SUBSET {"thinking", "text", "reasoning", "message"}
    BY DEF Record
  <2> HIDE DEF w, open
  <2>5. OpenMessage(x) = [w EXCEPT !.open = open, !.message = i]
    BY <2>2, <2>3 DEF open
  <2>6. /\ Says(w, OpenMessage(x)) /\ OpenMessage(x).open = open
        /\ OpenMessage(x).message = i /\ OpenMessage(x).out = w.out
    BY ZenonT(40), <2>0, <2>3, <2>4, <2>5 DEF Record, Says
  <2>7. Says(x, OpenMessage(x))
    BY <2>3, <2>6, SaysSays
  <2> QED
    BY <1>2, <2>3, <2>6, <2>7 DEF e, i, open
<1> QED
  BY <1>1, <1>2

\* Responses: the message starts with the next index.
LEMMA OpenMessageKeeps ==
  ASSUME NEW x \in Record, Items(x), ~Is("anthropic")
  PROVE  Items(OpenMessage(x))
<1>1. CASE "message" \in x.open
  BY <1>1, OpenMessageSays
<1>2. CASE "message" \notin x.open
  <2> DEFINE y == OpenMessage(x)
             i == MessageIndex(x)
  <2>1. /\ y.open = x.open \cup {"message"} /\ y.message = i
        /\ y.out = Append(x.out, E("start", i, "message"))
    BY <1>2, OpenMessageSays
  <2>2. i \in Nat /\ x.out \in Seq(Event) /\ E("start", i, "message") \in Event
    BY Events DEF MessageIndex, If, Record
  <2>3. MessageIndex(y) = i
    BY <2>1 DEF MessageIndex
  <2>4. ItemCount(x) = i /\ ItemCount(y) = i + 1
    BY <1>2, <2>1, <2>2, <2>3 DEF ItemCount, If
  <2>5. Alive(y) = Alive(x) \cup {At(i, "message")}
    BY <1>2, <2>1, <2>3 DEF Alive
  <2> HIDE DEF y, i
  <2>6. Nest(y.out, i + 1, 0, Alive(x) \cup {At(i, "message")})
    <3>1. Nest(x.out, i, 0, Alive(x))
      BY <2>4 DEF Items
    <3>2. Nest(Append(x.out, E("start", i, "message")), i + 1, 0, Alive(x) \cup {At(i, "message")})
      BY <2>2, <3>1, NestStart
    <3> QED
      BY <2>1, <3>2
  <2> QED
    BY <2>1, <2>3, <2>4, <2>5, <2>6 DEF Items, y
<1> QED
  BY <1>1, <1>2

\* What MessageDelta writes and what it leaves.
LEMMA MessageDeltaSays ==
  ASSUME NEW x \in Record
  PROVE  /\ Says(x, MessageDelta(x)) /\ MessageDelta(x).open = x.open \cup {"message"}
         /\ MessageDelta(x).message = OpenMessage(x).message
         /\ MessageDelta(x).out =
              Append(OpenMessage(x).out, E("delta", MessageAt(OpenMessage(x)), "message"))
<1> DEFINE y == OpenMessage(x)
           e == E("delta", MessageAt(y), "message")
<1>1. Says(x, y) /\ y \in Record /\ y.open = x.open \cup {"message"}
  BY OpenMessageSays DEF Says
<1>2. MessageDelta(x) = Write(y, e)
  BY DEF MessageDelta
<1> HIDE DEF y
<1>3. MessageAt(y) \in Nat
  BY <1>1 DEF MessageAt, MessageIndex, If, Record
<1>4. e \in Event /\ e.ev = "delta" /\ e.of # "call"
  BY <1>3, Events
<1> HIDE DEF e
<1>5. /\ Says(y, Write(y, e)) /\ Write(y, e).open = y.open /\ Write(y, e).message = y.message
      /\ Write(y, e).out = Append(y.out, e)
  BY <1>1, <1>4, WriteSays, WriteRecord
<1> QED
  BY <1>1, <1>2, <1>5, SaysSays DEF y, e

\* The message is where it was said to be, however its index is found.
LEMMA MessagePlace ==
  ASSUME NEW x \in Record, Items(x), "message" \in x.open
  PROVE  /\ MessageAt(x) = MessageIndex(x) /\ MessageIndex(x) \in Nat
         /\ At(MessageIndex(x), "message") \in Alive(x)
BY DEF Items, MessageAt, Alive, MessageIndex, If

\* Responses: the delta of the message is about the item that is open.
LEMMA MessageDeltaKeeps ==
  ASSUME NEW x \in Record, Items(x), ~Is("anthropic")
  PROVE  Items(MessageDelta(x))
<1> DEFINE y == OpenMessage(x)
           z == MessageDelta(x)
           i == MessageIndex(y)
<1>1. Items(y) /\ "message" \in y.open /\ y \in Record /\ y.open = x.open \cup {"message"}
  BY OpenMessageKeeps, OpenMessageSays DEF Says
<1>2. MessageAt(y) = i /\ i \in Nat /\ At(i, "message") \in Alive(y)
  BY <1>1, MessagePlace
<1>3. z.open = y.open /\ z.message = y.message /\ z.out = Append(y.out, E("delta", i, "message"))
  BY <1>1, <1>2, MessageDeltaSays
<1>4. MessageIndex(z) = i /\ ItemCount(z) = ItemCount(y) /\ Alive(z) = Alive(y)
  BY <1>3 DEF MessageIndex, ItemCount, Alive
<1>5. ItemCount(y) \in Nat
  BY DEF ItemCount, MessageIndex, If
<1> HIDE DEF y, z, i
<1>6. y.out \in Seq(Event) /\ E("delta", i, "message") \in Event
  BY <1>1, <1>2, Events DEF Record
<1>7. Nest(z.out, ItemCount(y), 0, Alive(y))
  BY <1>1, <1>2, <1>3, <1>5, <1>6, NestDelta DEF Items
<1> QED
  BY <1>1, <1>3, <1>4, <1>7 DEF Items, z, i

-----------------------------------------------------------------------------
(* Until the calls are to be written. *)

\* The order of blocks and items, as long as thinking has not come back after text.
Orderly(x) ==
  /\ Is("anthropic") =>
       /\ OneBlock(x)
       /\ "text" \in x.open => x.text > 0 /\ ~Tools
       /\ x.closed => Tools /\ x.text > 0 /\ x.open = {}
  /\ Is("responses") => Items(x) /\ ("message" \in x.open => x.text > 0)

Telling(x) ==
  /\ x \in Record /\ Body(x.out)
  /\ x.mixed => x.text > 0
  /\ Is("chat") => Spoken(x)
  /\ Is("compact") => x.out = <<>>
  /\ ~x.mixed => Orderly(x)

\* What writes nothing.
LEMMA QuietKeeps ==
  ASSUME NEW x, NEW y \in Record, Telling(x),
         y.out = x.out, y.open = x.open, y.block = x.block, y.message = x.message, y.role = x.role,
         y.closed = x.closed, y.mixed = x.mixed, y.text >= x.text
  PROVE  Telling(y)
<1>1. x \in Record /\ x.text \in Nat /\ y.text \in Nat
  BY DEF Telling, Record
<1>2. x.text > 0 => y.text > 0
  BY <1>1
<1>3. MessageIndex(y) = MessageIndex(x) /\ ItemCount(y) = ItemCount(x) /\ Alive(y) = Alive(x)
  BY DEF MessageIndex, ItemCount, Alive
<1>4. Items(x) => Items(y)
  BY <1>3 DEF Items
<1>5. OneBlock(x) => OneBlock(y)
  BY DEF OneBlock
<1>6. Orderly(x) => Orderly(y)
  BY <1>2, <1>4, <1>5 DEF Orderly
<1> QED
  BY <1>2, <1>6 DEF Telling, Spoken

\* Whether the filter holds something back does not matter.
LEMMA Held ==
  ASSUME NEW x, NEW b \in BOOLEAN, Telling(x)
  PROVE  Telling([x EXCEPT !.held = b]) /\ [x EXCEPT !.held = b].pc = x.pc
<1> DEFINE y == [x EXCEPT !.held = b]
<1>1. /\ y \in Record /\ y.pc = x.pc /\ y.out = x.out /\ y.open = x.open /\ y.block = x.block
      /\ y.message = x.message /\ y.role = x.role
      /\ y.closed = x.closed /\ y.mixed = x.mixed /\ y.text >= x.text
  BY DEF Telling, Record
<1> HIDE DEF y
<1>2. Telling(y)
  BY <1>1, QuietKeeps
<1> QED
  BY <1>1, <1>2 DEF y

\* Flushing what the filter holds writes what was to be said, or nothing of it.
LEMMA FlushedKeeps ==
  ASSUME NEW x, NEW said, Telling(x), Telling(said), said.pc = x.pc, NEW y \in Flushed(x, said)
  PROVE  Telling(y) /\ y.pc = x.pc
<1>1. y = x \/ y = [x EXCEPT !.held = FALSE] \/ y = [said EXCEPT !.held = FALSE]
  BY DEF Flushed
<1> QED
  BY <1>1, Held

\* What a chunk of thinking makes a handler say.
Thought(x) ==
  CASE Is("chat") -> Say(x, "thinking")
    [] Is("anthropic") -> BlockDelta(x, "thinking")
    [] Is("responses") -> Reason(x)
    [] OTHER -> x

\* Thinking keeps the blocks and items in order as long as no text has come.
LEMMA ThoughtKeeps ==
  ASSUME NEW x, Telling(x)
  PROVE  /\ Says(x, Thought(x))
         /\ Is("chat") => Spoken(Thought(x))
         /\ Is("compact") => Thought(x).out = <<>>
         /\ ~x.mixed /\ x.text = 0 => Orderly(Thought(x))
<1>1. x \in Record /\ x.text \in Nat
  BY DEF Telling, Record
<1>2. CASE Is("chat")
  <2>1. Thought(x) = Say(x, "thinking") /\ ~Is("compact") /\ ~Is("anthropic") /\ ~Is("responses")
    BY <1>2 DEF Thought, Is
  <2> QED
    BY <1>1, <1>2, <2>1, SayKeeps DEF Telling, Orderly
<1>3. CASE Is("anthropic")
  <2>1. Thought(x) = BlockDelta(x, "thinking") /\ ~Is("compact") /\ ~Is("chat") /\ ~Is("responses")
    BY <1>3 DEF Thought, Is
  <2>2. Says(x, Thought(x))
    BY <1>1, <2>1, BlockDeltaSays
  <2>3. ASSUME ~x.mixed, x.text = 0 PROVE Orderly(Thought(x))
    <3>1. OneBlock(x) /\ "text" \notin x.open /\ ~x.closed
      BY <1>1, <1>3, <2>3 DEF Telling, Orderly
    <3>2. x.open \subseteq {"thinking"}
      BY <3>1 DEF OneBlock
    <3>3. OneBlock(Thought(x)) /\ Thought(x).open = {"thinking"} /\ Thought(x).closed = x.closed
      BY <1>1, <2>1, <2>2, <3>1, <3>2, BlockDeltaKeeps DEF Says
    <3> QED
      BY <2>1, <3>1, <3>3 DEF Orderly
  <2> QED
    BY <2>1, <2>2, <2>3
<1>4. CASE Is("responses")
  <2>1. Thought(x) = Reason(x) /\ ~Is("compact") /\ ~Is("chat") /\ ~Is("anthropic")
    BY <1>4 DEF Thought, Is
  <2>2. Says(x, Thought(x))
    BY <1>1, <2>1, ReasonSays
  <2>3. ASSUME ~x.mixed, x.text = 0 PROVE Orderly(Thought(x))
    <3>1. Items(x) /\ "message" \notin x.open
      BY <1>1, <1>4, <2>3 DEF Telling, Orderly
    <3> QED
      BY <1>1, <2>1, <3>1, ReasonKeeps DEF Orderly
  <2> QED
    BY <2>1, <2>2, <2>3
<1>5. CASE ~Is("chat") /\ ~Is("anthropic") /\ ~Is("responses")
  <2>1. Thought(x) = x
    BY <1>5 DEF Thought
  <2> QED
    BY <1>1, <1>5, <2>1 DEF Telling, Says
<1> QED
  BY <1>2, <1>3, <1>4, <1>5

\* That thinking has come back after text is noted.
LEMMA Noted ==
  ASSUME NEW x, NEW s, Telling(x), Says(x, s), Is("chat") => Spoken(s), Is("compact") => s.out = <<>>,
         ~x.mixed /\ x.text = 0 => Orderly(s)
  PROVE  Telling([s EXCEPT !.mixed = x.text > 0]) /\ [s EXCEPT !.mixed = x.text > 0].pc = x.pc
<1> DEFINE y == [s EXCEPT !.mixed = x.text > 0]
<1>1. /\ x \in Record /\ s \in Record /\ x.text \in Nat /\ s.text = x.text /\ s.pc = x.pc
      /\ (x.text > 0) \in BOOLEAN
  BY DEF Telling, Says, Record
<1>2. /\ y \in Record /\ y.pc = s.pc /\ y.out = s.out /\ y.open = s.open /\ y.block = s.block
      /\ y.message = s.message /\ y.role = s.role
      /\ y.closed = s.closed /\ y.text = s.text
  BY <1>1 DEF Record
<1>3. y.mixed <=> x.text > 0
  BY <1>1 DEF Record
<1> HIDE DEF y
<1>4. Body(y.out) /\ (Is("chat") => Spoken(y)) /\ (Is("compact") => y.out = <<>>)
  BY <1>2 DEF Telling, Says, Spoken
<1>5. ASSUME ~y.mixed PROVE Orderly(y)
  <2>1. x.text = 0 /\ ~x.mixed
    BY <1>1, <1>3, <1>5 DEF Telling
  <2>2. MessageIndex(y) = MessageIndex(s) /\ ItemCount(y) = ItemCount(s) /\ Alive(y) = Alive(s)
    BY <1>2 DEF MessageIndex, ItemCount, Alive
  <2>3. Items(s) => Items(y)
    BY <1>2, <2>2 DEF Items
  <2>4. OneBlock(s) => OneBlock(y)
    BY <1>2 DEF OneBlock
  <2> QED
    BY <1>2, <2>1, <2>3, <2>4 DEF Orderly
<1> QED
  BY <1>1, <1>2, <1>3, <1>4, <1>5 DEF Telling, y

\* A chunk of thinking keeps what is said of a handler that tells.
LEMMA ThinkingKeeps ==
  ASSUME NEW x, Telling(x), NEW y \in Thinking(x)
  PROVE  Telling(y) /\ y.pc = x.pc
<1> DEFINE was == [x EXCEPT !.mixed = x.text > 0]
           noted == [Thought(x) EXCEPT !.mixed = x.text > 0]
<1>1. Telling(noted) /\ noted.pc = x.pc
  BY ThoughtKeeps, Noted
<1>2. Telling(was) /\ was.pc = x.pc
  <2>1. Says(x, x) /\ (~x.mixed => Orderly(x)) /\ (Is("chat") => Spoken(x)) /\ (Is("compact") => x.out = <<>>)
    BY DEF Telling, Says
  <2> QED
    BY <2>1, Noted
<1>3. Thinking(x) \subseteq {was, [was EXCEPT !.held = TRUE], noted, [noted EXCEPT !.held = TRUE]}
  BY DEF Thinking, Thought, Filtered
<1> HIDE DEF was, noted
<1> QED
  BY <1>1, <1>2, <1>3, Held

-----------------------------------------------------------------------------
(* A chunk of text, and an answer at its limit. *)

\* What counting a chunk of text leaves as it is.
LEMMA LongerRecord ==
  ASSUME NEW x \in Record
  PROVE  LET y == [x EXCEPT !.text = @ + 1]
         IN  /\ y \in Record /\ y.pc = x.pc /\ y.out = x.out /\ y.open = x.open /\ y.block = x.block
             /\ y.message = x.message /\ y.role = x.role
             /\ y.closed = x.closed /\ y.mixed = x.mixed /\ y.text >= x.text /\ y.text > 0
<1> DEFINE n == x.text + 1
           y == [x EXCEPT !.text = n]
<1>1. n \in Nat /\ n >= x.text /\ n > 0
  BY DEF Record
<1> HIDE DEF n
<1>2. /\ y \in Record /\ y.pc = x.pc /\ y.out = x.out /\ y.open = x.open /\ y.block = x.block
      /\ y.message = x.message /\ y.role = x.role
      /\ y.closed = x.closed /\ y.mixed = x.mixed /\ y.text = n
  BY <1>1 DEF Record
<1> QED
  BY <1>1, <1>2 DEF n

\* A chunk of text is counted.
LEMMA Longer ==
  ASSUME NEW x, Telling(x)
  PROVE  LET y == [x EXCEPT !.text = @ + 1]
         IN  Telling(y) /\ y.pc = x.pc /\ y.text > 0 /\ y.open = x.open /\ y.mixed = x.mixed /\ y.role = x.role
<1> DEFINE y == [x EXCEPT !.text = @ + 1]
<1>1. /\ y \in Record /\ y.pc = x.pc /\ y.out = x.out /\ y.open = x.open /\ y.block = x.block
      /\ y.message = x.message /\ y.role = x.role
      /\ y.closed = x.closed /\ y.mixed = x.mixed /\ y.text >= x.text /\ y.text > 0
  BY LongerRecord DEF Telling
<1> HIDE DEF y
<1>2. Telling(y)
  BY <1>1, QuietKeeps
<1> QED
  BY <1>1, <1>2 DEF y

\* An answer is marked as cut short.
LEMMA Marked ==
  ASSUME NEW x, NEW b \in BOOLEAN, Telling(x)
  PROVE  Telling([x EXCEPT !.truncated = b]) /\ [x EXCEPT !.truncated = b].pc = x.pc
<1> DEFINE y == [x EXCEPT !.truncated = b]
<1>1. /\ y \in Record /\ y.pc = x.pc /\ y.out = x.out /\ y.open = x.open /\ y.block = x.block
      /\ y.message = x.message /\ y.role = x.role
      /\ y.closed = x.closed /\ y.mixed = x.mixed /\ y.text >= x.text
  BY DEF Telling, Record
<1> HIDE DEF y
<1>2. Telling(y)
  BY <1>1, QuietKeeps
<1> QED
  BY <1>1, <1>2 DEF y

\* What Truncate leaves as it is.
LEMMA TruncateRecord ==
  ASSUME NEW x \in Record
  PROVE  LET y == Truncate(x)
         IN  /\ y \in Record /\ y.pc \in {"parse", "drain"} /\ y.out = x.out /\ y.open = x.open
             /\ y.block = x.block /\ y.message = x.message /\ y.role = x.role
             /\ y.closed = x.closed /\ y.mixed = x.mixed /\ y.text = x.text
BY DEF Truncate, Record

\* An answer at its limit writes nothing and goes on with its end.
LEMMA TruncateKeeps ==
  ASSUME NEW x, Telling(x)
  PROVE  Telling(Truncate(x)) /\ Truncate(x).pc \in {"parse", "drain"}
<1>1. x \in Record /\ x.text \in Nat
  BY DEF Telling, Record
<1>2. Truncate(x).text >= x.text
  BY <1>1, TruncateRecord
<1> QED
  BY <1>1, <1>2, TruncateRecord, QuietKeeps

\* A chunk of text leaves a handler that tells, receiving, draining or parsing.
Goes(x, y) == Telling(y) /\ y.pc \in {x.pc, "parse", "drain"}

\* Chat and text completions: a chunk of text is said, or the answer is cut short.
LEMMA PlainKeeps ==
  ASSUME NEW x, Telling(x), ~Is("anthropic"), ~Is("responses"), ~Is("compact"), NEW z \in Plain(x)
  PROVE  Goes(x, z)
<1> DEFINE y == [x EXCEPT !.text = @ + 1]
<1>1. CASE Full(x)
  BY <1>1, TruncateKeeps DEF Plain, Goes
<1>2. CASE ~Full(x)
  <2>1. Telling(y) /\ y.pc = x.pc /\ y \in Record
    BY Longer DEF Telling
  <2>2. \/ Tools /\ z = y
        \/ Is("chat") /\ z = Say(y, "text")
        \/ ~Is("chat") /\ z = Write(y, E("delta", 0, "text"))
    BY <1>2 DEF Plain
  <2> HIDE DEF y
  <2>3. CASE Is("chat") /\ z = Say(y, "text")
    <3>1. Says(y, z) /\ Spoken(z)
      BY <2>1, <2>3, SayKeeps DEF Telling
    <3>2. z.mixed = y.mixed /\ z.text = y.text /\ z.pc = y.pc /\ z \in Record /\ Body(z.out)
      BY <2>1, <3>1 DEF Says, Telling
    <3> QED
      BY <2>1, <3>1, <3>2 DEF Telling, Orderly, Goes
  <2>4. CASE ~Is("chat") /\ z = Write(y, E("delta", 0, "text"))
    <3>1. Says(y, z)
      BY <2>1, <2>4, Events, WriteSays
    <3>2. z.mixed = y.mixed /\ z.text = y.text /\ z.pc = y.pc /\ z \in Record /\ Body(z.out)
      BY <2>1, <3>1 DEF Says, Telling
    <3> QED
      BY <2>1, <2>4, <3>2 DEF Telling, Orderly, Goes
  <2> QED
    BY <2>1, <2>2, <2>3, <2>4 DEF Goes
<1> QED
  BY <1>1, <1>2

\* Anthropic: with tools the text waits for its end, without it goes into a block of its own.
LEMMA AnthropicFlushed ==
  ASSUME NEW x, Telling(x), Is("anthropic"), NEW y \in ThinkingFlushed(x)
  PROVE  Telling(y) /\ y.pc = x.pc /\ y.text = x.text /\ y.mixed = x.mixed /\ y.closed = x.closed
         /\ y.calls = x.calls /\ y.parsed = x.parsed /\ y.truncated = x.truncated
<1>1. CASE ~(Tools /\ ~x.closed)
  BY <1>1 DEF ThinkingFlushed
<1>2. CASE Tools /\ ~x.closed
  <2> DEFINE s == BlockDelta(x, "thinking")
  <2>1. x \in Record /\ Says(x, s)
    BY BlockDeltaSays DEF Telling
  <2>2. ASSUME ~x.mixed PROVE Orderly(s)
    <3>1. OneBlock(x) /\ "text" \notin x.open /\ ~Is("responses")
      BY <1>2, <2>2 DEF Telling, Orderly, Is
    <3>2. x.open \subseteq {"thinking"}
      BY <3>1 DEF OneBlock
    <3>3. OneBlock(s) /\ s.open = {"thinking"} /\ s.closed = x.closed
      BY <2>1, <3>1, <3>2, BlockDeltaKeeps DEF Says
    <3> QED
      BY <1>2, <3>1, <3>3 DEF Orderly
  <2>3. Telling(s) /\ s.pc = x.pc
    <3>1. s \in Record /\ Body(s.out) /\ s.mixed = x.mixed /\ s.text = x.text /\ s.pc = x.pc
      BY <2>1 DEF Says, Telling
    <3>2. ~Is("chat") /\ ~Is("compact")
      BY DEF Is
    <3> QED
      BY <2>2, <3>1, <3>2 DEF Telling
  <2>4. y \in Flushed(x, s)
    BY <1>2 DEF ThinkingFlushed
  <2>5. /\ s.text = x.text /\ s.mixed = x.mixed /\ s.closed = x.closed /\ s.calls = x.calls
        /\ s.parsed = x.parsed /\ s.truncated = x.truncated /\ s \in Record
    BY <2>1 DEF Says
  <2> HIDE DEF s
  <2>6. Telling(y) /\ y.pc = x.pc
    BY <2>3, <2>4, FlushedKeeps
  <2>7. y = x \/ y = [x EXCEPT !.held = FALSE] \/ y = [s EXCEPT !.held = FALSE]
    BY <2>4 DEF Flushed
  <2>8. /\ y.text = x.text /\ y.mixed = x.mixed /\ y.closed = x.closed /\ y.calls = x.calls
        /\ y.parsed = x.parsed /\ y.truncated = x.truncated
    BY <2>1, <2>5, <2>7 DEF Record
  <2> QED
    BY <2>6, <2>8
<1> QED
  BY <1>1, <1>2

\* About to write text.
Ready(x) ==
  /\ x \in Record /\ Body(x.out)
  /\ x.mixed => x.text > 0
  /\ ~x.mixed => OneBlock(x) /\ IF Tools THEN x.open = {} ELSE x.open \subseteq {"text"} /\ ~x.closed

\* With some text written, being about to write text is telling.
LEMMA ReadyTelling ==
  ASSUME NEW x, Ready(x), Is("anthropic"), x.text > 0
  PROVE  Telling(x)
<1>1. ~Is("chat") /\ ~Is("compact") /\ ~Is("responses")
  BY DEF Is
<1>2. ~x.mixed => Orderly(x)
  BY <1>1 DEF Ready, Orderly
<1> QED
  BY <1>1, <1>2 DEF Ready, Telling

\* Anthropic: a chunk of text that finds the thinking closed.
LEMMA ReadyKeeps ==
  ASSUME NEW x, Ready(x), Is("anthropic"), conf.limit \in Nat, NEW z \in Plain(x)
  PROVE  Goes(x, z)
<1>1. CASE Full(x)
  <2>1. z = Truncate(x)
    BY <1>1 DEF Plain
  <2>2. x.text > 0
    BY <1>1 DEF Full, Ready, Record
  <2> QED
    BY <2>1, <2>2, ReadyTelling, TruncateKeeps DEF Goes
<1>2. CASE ~Full(x)
  <2> DEFINE y == [x EXCEPT !.text = @ + 1]
  <2>1. z = IF Tools THEN y ELSE BlockDelta(y, "text")
    BY <1>2 DEF Plain, Is
  <2>2. /\ y \in Record /\ y.pc = x.pc /\ y.out = x.out /\ y.open = x.open /\ y.block = x.block
        /\ y.closed = x.closed /\ y.mixed = x.mixed /\ y.text > 0
    BY LongerRecord DEF Ready
  <2> HIDE DEF y
  <2>3. Ready(y)
    BY <2>2 DEF Ready, OneBlock
  <2>4. CASE Tools
    BY <2>1, <2>2, <2>3, <2>4, ReadyTelling DEF Goes
  <2>5. CASE ~Tools
    <3>1. z = BlockDelta(y, "text") /\ Says(y, z)
      BY <2>1, <2>2, <2>5, BlockDeltaSays
    <3>2. ~y.mixed => OneBlock(z) /\ z.open = {"text"}
      BY <2>3, <2>5, <3>1, BlockDeltaKeeps DEF Ready
    <3>3. Ready(z) /\ z.text > 0 /\ z.pc = x.pc
      BY <2>2, <2>3, <2>5, <3>1, <3>2 DEF Ready, Says
    <3> QED
      BY <3>3, ReadyTelling DEF Goes
  <2> QED
    BY <2>4, <2>5
<1> QED
  BY <1>1, <1>2

\* Anthropic: a chunk of text closes the thinking before it opens its block.
LEMMA AnthropicTextKeeps ==
  ASSUME NEW x, Telling(x), Is("anthropic"), conf.limit \in Nat, NEW z \in AnthropicText(x)
  PROVE  Goes(x, z)
<1> DEFINE shut(y) == IF "text" \in y.open THEN y ELSE CloseBlock(y, "thinking")
           ready(y) == IF Tools THEN [shut(y) EXCEPT !.closed = TRUE] ELSE OpenBlock(shut(y), "text")
<1>1. PICK y \in ThinkingFlushed(x) : z \in Plain(ready(y))
  BY DEF AnthropicText
<1>2. Telling(y) /\ y.pc = x.pc /\ y \in Record
  BY <1>1, AnthropicFlushed DEF Telling
<1> DEFINE s == shut(y)
           o == ready(y)
<1>3. /\ Says(y, s) /\ s \in Record
      /\ ~y.mixed => OneBlock(s) /\ s.open \subseteq {"text"} /\ (Tools => s.open = {})
  <2>1. CASE "text" \in y.open
    <3>1. s = y
      BY <2>1
    <3>2. ~y.mixed => OneBlock(y) /\ ~Tools
      BY <1>2, <2>1 DEF Telling, Orderly
    <3>3. OneBlock(y) => y.open \subseteq {"text"}
      BY <2>1 DEF OneBlock
    <3> QED
      BY <1>2, <3>1, <3>2, <3>3 DEF Says
  <2>2. CASE "text" \notin y.open
    <3>1. s = CloseBlock(y, "thinking")
      BY <2>2
    <3>2. Says(y, s) /\ s.open = y.open \ {"thinking"} /\ s \in Record
      BY <1>2, <3>1, CloseBlockSays DEF Says
    <3>3. ASSUME ~y.mixed PROVE OneBlock(s) /\ s.open = {}
      <4>1. OneBlock(y)
        BY <1>2, <3>3 DEF Telling, Orderly
      <4>2. y.open \subseteq {"thinking"}
        BY <2>2, <4>1 DEF OneBlock
      <4> QED
        BY <1>2, <3>1, <3>2, <4>1, <4>2, CloseBlockKeeps
    <3> QED
      BY <3>2, <3>3
  <2> QED
    BY <2>1, <2>2
<1>4. ~y.mixed /\ ~Tools => ~y.closed
  BY <1>2 DEF Telling, Orderly
<1>5. o = IF Tools THEN [s EXCEPT !.closed = TRUE] ELSE OpenBlock(s, "text")
  OBVIOUS
<1> HIDE DEF shut, ready, s, o
<1>6. /\ s.pc = y.pc /\ s.text = y.text /\ s.mixed = y.mixed /\ s.closed = y.closed /\ Body(s.out)
      /\ s.mixed => s.text > 0
  BY <1>2, <1>3 DEF Says, Telling
<1>7. Ready(o) /\ o.pc = y.pc
  <2>1. CASE Tools
    <3>1. /\ o \in Record /\ o.pc = s.pc /\ o.text = s.text /\ o.mixed = s.mixed /\ o.out = s.out
          /\ o.open = s.open /\ o.block = s.block
      BY <1>3, <1>5, <2>1 DEF Record
    <3>2. OneBlock(s) => OneBlock(o)
      BY <3>1 DEF OneBlock
    <3> QED
      BY <1>3, <1>6, <2>1, <3>1, <3>2 DEF Ready
  <2>2. CASE ~Tools
    <3>1. o = OpenBlock(s, "text") /\ Says(s, o)
      BY <1>3, <1>5, <2>2, OpenBlockSays
    <3>2. ~s.mixed => OneBlock(o) /\ o.open = {"text"}
      BY <1>3, <1>6, <3>1, OpenBlockKeeps
    <3>3. /\ o \in Record /\ o.pc = s.pc /\ o.text = s.text /\ o.mixed = s.mixed /\ o.closed = s.closed
          /\ Body(o.out)
      BY <1>6, <3>1 DEF Says
    <3> QED
      BY <1>4, <1>6, <2>2, <3>2, <3>3 DEF Ready
  <2> QED
    BY <2>1, <2>2
<1>8. z \in Plain(o)
  BY <1>1 DEF o
<1> QED
  BY <1>2, <1>7, <1>8, ReadyKeeps DEF Goes

\* Responses: the message after some text.
LEMMA MessageDeltaTelling ==
  ASSUME NEW x, Telling(x), Is("responses"), x.text > 0
  PROVE  Goes(x, MessageDelta(x)) /\ Goes(x, OpenMessage(x))
<1>1. ~Is("chat") /\ ~Is("compact") /\ ~Is("anthropic") /\ x \in Record
  BY DEF Is, Telling
<1>2. Says(x, MessageDelta(x)) /\ Says(x, OpenMessage(x))
  BY <1>1, MessageDeltaSays, OpenMessageSays
<1>3. ~x.mixed => Items(MessageDelta(x)) /\ Items(OpenMessage(x))
  BY <1>1, MessageDeltaKeeps, OpenMessageKeeps DEF Telling, Orderly
<1>4. ASSUME NEW y, Says(x, y), ~x.mixed => Items(y) PROVE Goes(x, y)
  <2>1. y \in Record /\ Body(y.out) /\ y.mixed = x.mixed /\ y.text = x.text /\ y.pc = x.pc
    BY <1>4 DEF Says, Telling
  <2> QED
    BY <1>1, <1>4, <2>1 DEF Telling, Orderly, Goes
<1> QED
  BY <1>2, <1>3, <1>4

\* Responses: the message opens with the first text.
LEMMA OpenMessageLonger ==
  ASSUME NEW x, Telling(x), Is("responses")
  PROVE  LET l == [OpenMessage(x) EXCEPT !.text = @ + 1]
         IN  Telling(l) /\ l.pc = x.pc /\ l.text > 0
<1> DEFINE o == OpenMessage(x)
           l == [o EXCEPT !.text = @ + 1]
<1>1. ~Is("chat") /\ ~Is("compact") /\ ~Is("anthropic") /\ x \in Record
  BY DEF Is, Telling
<1>2. Says(x, o) /\ (~x.mixed => Items(o))
  BY <1>1, OpenMessageSays, OpenMessageKeeps DEF Telling, Orderly
<1>3. /\ o \in Record /\ Body(o.out) /\ o.mixed = x.mixed /\ o.text = x.text /\ o.pc = x.pc
  BY <1>2 DEF Says, Telling
<1> HIDE DEF o
<1>4. /\ l \in Record /\ l.pc = o.pc /\ l.out = o.out /\ l.open = o.open /\ l.message = o.message
      /\ l.mixed = o.mixed /\ l.text > 0
  BY <1>3, LongerRecord
<1> HIDE DEF l
<1>5. MessageIndex(l) = MessageIndex(o) /\ ItemCount(l) = ItemCount(o) /\ Alive(l) = Alive(o)
  BY <1>4 DEF MessageIndex, ItemCount, Alive
<1>6. Items(o) => Items(l)
  BY <1>4, <1>5 DEF Items
<1>7. Telling(l)
  BY <1>1, <1>2, <1>3, <1>4, <1>6 DEF Telling, Orderly
<1> QED
  BY <1>3, <1>4, <1>7 DEF l, o

\* Responses: a chunk of text, with or without tools, up to the limit.
LEMMA ResponsesTextKeeps ==
  ASSUME NEW x, Telling(x), Is("responses"), conf.limit \in Nat, NEW z \in ResponsesText(x)
  PROVE  Goes(x, z)
<1> DEFINE y == [x EXCEPT !.text = @ + 1]
<1>1. Telling(y) /\ y.pc = x.pc /\ y.text > 0 /\ y \in Record
  BY Longer DEF Telling
<1>2. CASE Tools
  <2>1. z = y \/ z = [y EXCEPT !.truncated = TRUE] \/ z = MessageDelta(y)
    BY <1>2 DEF ResponsesText, Extracted
  <2>2. Telling([y EXCEPT !.truncated = TRUE]) /\ [y EXCEPT !.truncated = TRUE].pc = y.pc
    BY <1>1, Marked
  <2> HIDE DEF y
  <2> QED
    BY <1>1, <2>1, <2>2, MessageDeltaTelling DEF Goes
<1>3. CASE ~Tools
  <2> DEFINE o == OpenMessage(x)
             l == [o EXCEPT !.text = @ + 1]
             m == MessageDelta(l)
  <2>1. (Full(x) /\ z = Truncate(o)) \/ z = m \/ z = Truncate(m)
    BY <1>3 DEF ResponsesText
  <2>2. ASSUME Full(x), z = Truncate(o) PROVE Goes(x, z)
    <3>1. x.text > 0
      BY <2>2 DEF Full, Telling, Record
    <3>2. Telling(o)
      BY <3>1, MessageDeltaTelling DEF Goes
    <3> QED
      BY <2>2, <3>2, TruncateKeeps DEF Goes
  <2>3. Telling(l) /\ l.pc = x.pc /\ l.text > 0 /\ l \in Record
    BY OpenMessageLonger DEF Telling
  <2> HIDE DEF l
  <2>4. Telling(m) /\ m.pc = x.pc
    <3>1. Telling(m)
      BY <2>3, MessageDeltaTelling DEF Goes
    <3>2. m.pc = l.pc
      BY <2>3, MessageDeltaSays DEF Says
    <3> QED
      BY <2>3, <3>1, <3>2
  <2> HIDE DEF m
  <2> QED
    BY <2>1, <2>2, <2>4, TruncateKeeps DEF Goes
<1> QED
  BY <1>2, <1>3

\* A chunk of text keeps what is said of a handler that tells.
LEMMA TextKeeps ==
  ASSUME NEW x, Telling(x), conf.limit \in Nat, NEW z \in Text(x)
  PROVE  Goes(x, z)
<1>1. CASE Is("anthropic")
  BY <1>1, AnthropicTextKeeps DEF Text, Is
<1>2. CASE Is("responses")
  BY <1>2, ResponsesTextKeeps DEF Text, Is
<1>3. CASE Is("compact")
  <2>1. z = [x EXCEPT !.text = @ + 1]
    BY <1>3 DEF Text, Is
  <2> QED
    BY <2>1, Longer DEF Goes
<1>4. CASE ~Is("anthropic") /\ ~Is("responses") /\ ~Is("compact")
  BY <1>4, PlainKeeps DEF Text
<1> QED
  BY <1>1, <1>2, <1>3, <1>4

-----------------------------------------------------------------------------
(* The calls, and the end. *)

\* The dialects with blocks or items; no end yet; a call among the events.
Nests == conf.dialect \in {"anthropic", "responses", "compact"}
Unended(out) == \A i \in DOMAIN out : out[i].ev # "finish"
CallSent(out) == \E j \in DOMAIN out : out[j].of = "call" /\ out[j].ev # "first"

\* Everything but some calls and the end has been written, and nothing is open.
Calling(x) ==
  /\ x \in Record /\ Unended(x.out)
  /\ Is("chat") => Headed(x.out) /\ (x.unsent > 0 => x.out # <<>>)
  /\ Is("chat") \/ Is("anthropic") => x.unsent <= x.calls /\ (CallSent(x.out) <=> x.unsent < x.calls)
  /\ Nests /\ ~x.mixed => \E n \in Nat : Nest(x.out, n, n, {}) /\ (x.unsent > 0 => n = x.block)

\* The handler has returned; left says whether its client had gone.
Ended(x, left) ==
  /\ x \in Record
  /\ \A i \in DOMAIN x.out : x.out[i].ev = "finish" => i = Len(x.out)
  /\ ~left => x.out # <<>> /\ x.out[Len(x.out)].ev = "finish"
  /\ Is("chat") => Headed(x.out)
  /\ Is("chat") \/ Is("anthropic") =>
       \A i \in DOMAIN x.out : x.out[i].ev = "finish" => (x.out[i].of = "tool_calls" <=> CallSent(x.out))
  /\ Nests /\ ~x.mixed => Nested(x.out)

\* What writes nothing while calls are written.
LEMMA CallingQuiet ==
  ASSUME NEW x, NEW y \in Record, Calling(x), y.out = x.out, y.block = x.block, y.mixed = x.mixed,
         y.calls = x.calls, y.unsent = x.unsent
  PROVE  Calling(y)
BY DEF Calling

\* What writes nothing after the end; a client that has gone stays gone.
LEMMA EndedQuiet ==
  ASSUME NEW x, NEW y \in Record, NEW left, NEW later, left => later, Ended(x, left),
         y.out = x.out, y.mixed = x.mixed
  PROVE  Ended(y, later)
BY DEF Ended

\* Whatever a handler has said so far, it has nested.
LEMMA TellingNests ==
  ASSUME NEW x, Telling(x), Nests, ~x.mixed
  PROVE  \E n \in Nat, m \in Nat : \E L : Nest(x.out, n, m, L)
<1>1. x.block \in Nat /\ x.block + 1 \in Nat /\ ItemCount(x) \in Nat
  BY DEF Telling, Record, ItemCount, MessageIndex, If
<1>2. CASE Is("anthropic")
  BY <1>1, <1>2 DEF Telling, Orderly, OneBlock
<1>3. CASE Is("responses")
  <2>1. Nest(x.out, ItemCount(x), 0, Alive(x))
    BY <1>3 DEF Telling, Orderly, Items
  <2> QED
    BY <1>1, <2>1
<1>4. CASE Is("compact")
  BY <1>4, NestEmpty DEF Telling
<1> QED
  BY <1>2, <1>3, <1>4 DEF Nests, Is

\* The last event.
LEMMA EndWith ==
  ASSUME NEW x \in Record, NEW of \in {"error", "tool_calls", "length", "stop"}, NEW left,
         Unended(x.out), Is("chat") => Headed(x.out),
         Is("chat") \/ Is("anthropic") => (of = "tool_calls" <=> CallSent(x.out)),
         Nests /\ ~x.mixed => \E n \in Nat, m \in Nat : \E L : Nest(x.out, n, m, L) /\ (of = "error" \/ n = m)
  PROVE  LET y == [Write(x, E("finish", 0, of)) EXCEPT !.pc = "done"]
         IN  Ended(y, left) /\ y.pc = "done"
<1> DEFINE e == E("finish", 0, of)
           y == [Write(x, e) EXCEPT !.pc = "done"]
           out == Append(x.out, e)
<1>1. e \in Event /\ e.ev = "finish" /\ e.of = of
  BY Events
<1>2. /\ x.out \in Seq(Event) /\ out \in Seq(Event) /\ out # <<>> /\ Len(out) = Len(x.out) + 1
      /\ DOMAIN x.out = 1..Len(x.out) /\ DOMAIN out = 1..(Len(x.out) + 1) /\ Len(x.out) \in Nat
      /\ out[Len(x.out) + 1] = e /\ \A i \in 1..Len(x.out) : out[i] = x.out[i]
  <2>1. x.out \in Seq(Event)
    BY DEF Record
  <2> HIDE DEF e
  <2> QED
    BY <1>1, <2>1, Appended
<1>3. Nests /\ ~x.mixed => Nested(out)
  BY <1>1, <1>2, NestFinish DEF Nest
<1> HIDE DEF e
<1>4. Write(x, e) = [x EXCEPT !.out = out]
  BY <1>1, WriteRecord
<1> HIDE DEF out
<1>5. y \in Record /\ y.out = out /\ y.mixed = x.mixed /\ y.pc = "done"
  BY <1>2, <1>4 DEF Record
<1> HIDE DEF y
<1>6. \A i \in DOMAIN out : out[i].ev = "finish" => i = Len(out)
  BY <1>1, <1>2 DEF Unended
<1>7. Is("chat") => Headed(out)
  BY <1>1, <1>2 DEF Headed
<1>8. CallSent(out) <=> CallSent(x.out)
  BY SMTT(30), <1>1, <1>2 DEF CallSent
<1>9. Is("chat") \/ Is("anthropic") =>
        \A i \in DOMAIN out : out[i].ev = "finish" => (out[i].of = "tool_calls" <=> CallSent(out))
  BY <1>1, <1>2, <1>6, <1>8
<1>10. out # <<>> /\ out[Len(out)].ev = "finish"
  BY <1>1, <1>2
<1>11. Ended(y, left)
  BY <1>3, <1>5, <1>6, <1>7, <1>9, <1>10 DEF Ended
<1> QED
  BY <1>5, <1>11 DEF y, e

\* An error ends what is being told.
LEMMA FailedEnds ==
  ASSUME NEW x \in Record, Body(x.out), Is("chat") => Headed(x.out), NEW left,
         Nests /\ ~x.mixed => \E n \in Nat, m \in Nat : \E L : Nest(x.out, n, m, L)
  PROVE  Ended(Failed(x), left) /\ Failed(x).pc = "done"
<1>1. Unended(x.out) /\ ~CallSent(x.out)
  BY DEF Body, Unended, CallSent
<1> QED
  BY <1>1, EndWith DEF Failed

\* A handler may leave a client that has gone with less.
LEMMA LeftEnds ==
  ASSUME NEW x \in Record, Body(x.out), Is("chat") => Headed(x.out),
         Nests /\ ~x.mixed => \E n \in Nat, m \in Nat : \E L : Nest(x.out, n, m, L)
  PROVE  LET y == [x EXCEPT !.pc = "done"] IN Ended(y, TRUE) /\ y.pc = "done"
<1> DEFINE y == [x EXCEPT !.pc = "done"]
<1>1. y \in Record /\ y.out = x.out /\ y.mixed = x.mixed /\ y.pc = "done"
  BY DEF Record
<1> HIDE DEF y
<1>2. Ended(y, TRUE)
  BY <1>1 DEF Ended, Body, Nest
<1> QED
  BY <1>1, <1>2 DEF y

\* What Announced leaves as it is.
LEMMA AnnouncedRecord ==
  ASSUME NEW x \in Record, NEW n \in Nat
  PROVE  LET y == Announced(x, n)
         IN  /\ y \in Record /\ y.pc = "calls" /\ y.unsent = n /\ y.calls = x.calls /\ y.out = x.out
             /\ y.block = x.block /\ y.mixed = x.mixed
BY DEF Announced, Record

\* The calls are about to be written.
LEMMA AnnouncedCalling ==
  ASSUME NEW x \in Record, NEW n \in Nat, Unended(x.out), ~CallSent(x.out),
         Is("chat") => Headed(x.out) /\ (n > 0 => x.out # <<>>),
         Is("chat") \/ Is("anthropic") => n = x.calls,
         Nests /\ ~x.mixed => \E m \in Nat : Nest(x.out, m, m, {}) /\ (n > 0 => m = x.block)
  PROVE  Calling(Announced(x, n)) /\ Announced(x, n).pc = "calls"
<1> DEFINE y == Announced(x, n)
<1>1. /\ y \in Record /\ y.pc = "calls" /\ y.unsent = n /\ y.calls = x.calls /\ y.out = x.out
      /\ y.block = x.block /\ y.mixed = x.mixed
  BY AnnouncedRecord
<1> HIDE DEF y
<1>2. ~(n < n) /\ n <= n
  OBVIOUS
<1>3. Calling(y)
  BY <1>1, <1>2 DEF Calling
<1> QED
  BY <1>1, <1>3 DEF y

\* The next call.
LEMMA CallKeeps ==
  ASSUME NEW x, Calling(x), x.unsent > 0
  PROVE  Calling(Call(x)) /\ Call(x).pc = x.pc
<1>1. /\ x \in Record /\ x.block \in Nat /\ x.unsent \in Nat /\ x.unsent - 1 \in Nat /\ x.calls \in Nat
      /\ x.out \in Seq(Event)
  BY DEF Calling, Record
<1> DEFINE e(ev) == E(ev, x.block, "call")
           one == Write(x, e("call"))
           all == Write(Write(Write(x, e("start")), e("delta")), e("stop"))
           y == IF Is("chat") THEN one ELSE all
           z == [y EXCEPT !.block = @ + 1, !.unsent = @ - 1]
<1>2. \A ev \in {"start", "delta", "stop", "call"} : e(ev) \in Event /\ e(ev).ev = ev /\ e(ev).of = "call"
  BY <1>1, Events
<1> DEFINE s == Append(x.out, e("start"))
           d == Append(s, e("delta"))
           p == Append(d, e("stop"))
           c == Append(x.out, e("call"))
           out == IF Is("chat") THEN c ELSE p
<1>3. /\ s \in Seq(Event) /\ d \in Seq(Event) /\ p \in Seq(Event) /\ c \in Seq(Event)
  <2> HIDE DEF e
  <2> QED
    BY <1>1, <1>2, Appended
<1>4. y = [x EXCEPT !.out = out]
  <2> HIDE DEF e
  <2>1. one = [x EXCEPT !.out = c]
    BY DEF Write
  <2>2. all = [x EXCEPT !.out = p]
    BY <1>1 DEF Write, Record
  <2> QED
    BY <2>1, <2>2
<1>5. z = [y EXCEPT !.block = y.block + 1, !.unsent = y.unsent - 1]
  OBVIOUS
<1>6. out \in Seq(Event)
  BY <1>3
<1>7. Call(x) = z
  BY DEF Call
<1> HIDE DEF y
<1>8. /\ z \in Record /\ z.out = out /\ z.pc = x.pc /\ z.block = x.block + 1 /\ z.unsent = x.unsent - 1
      /\ z.calls = x.calls /\ z.mixed = x.mixed
  <2> HIDE DEF out
  <2>1. y \in Record /\ y.block = x.block /\ y.unsent = x.unsent /\ y.out = out /\ y.pc = x.pc
        /\ y.calls = x.calls /\ y.mixed = x.mixed
    BY <1>1, <1>4, <1>6 DEF Record
  <2> HIDE DEF z
  <2>2. x.block + 1 \in Nat
    BY <1>1
  <2> QED
    BY <1>1, <1>5, <2>1, <2>2 DEF Record
<1> HIDE DEF z
<1>9. Unended(out) /\ CallSent(out) /\ (Is("chat") => Headed(out) /\ out # <<>>)
  <2>1. CASE Is("chat")
    <3>1. Unended(x.out) /\ Headed(x.out) /\ x.out # <<>>
      BY <2>1 DEF Calling
    <3> DEFINE k == e("call")
    <3>2. k \in Event /\ k.ev = "call" /\ k.of = "call" /\ out = Append(x.out, k)
      BY <1>2, <2>1
    <3> HIDE DEF k, out
    <3>3. Len(x.out) \in Nat /\ Len(x.out) > 0
      BY <1>1, <3>1
    <3> QED
      BY SMTT(30), <1>1, <3>1, <3>2, <3>3, Appended DEF Unended, Headed, CallSent
  <2>2. CASE ~Is("chat")
    <3>1. Unended(x.out)
      BY DEF Calling
    <3>2. out = p
      BY <2>2
    <3> HIDE DEF e
    <3>3. Unended(s)
      <4> HIDE DEF s
      <4> QED
        BY <1>1, <1>2, <3>1, Appended DEF Unended, s
    <3>4. Unended(d)
      <4> HIDE DEF s
      <4> QED
        BY <1>2, <1>3, <3>3, Appended DEF Unended
    <3>5. Unended(p) /\ CallSent(p)
      <4>1. d \in Seq(Event) /\ e("stop") \in Event /\ e("stop").ev = "stop" /\ e("stop").of = "call"
        BY <1>2, <1>3
      <4> HIDE DEF d
      <4>2. /\ Len(d) + 1 \in DOMAIN p /\ p[Len(d) + 1] = e("stop")
            /\ \A i \in DOMAIN p : i = Len(d) + 1 \/ (i \in DOMAIN d /\ p[i] = d[i])
        BY <4>1, Appended
      <4> HIDE DEF p
      <4> QED
        BY <3>4, <4>1, <4>2 DEF Unended, CallSent
    <3> QED
      BY <2>2, <3>2, <3>5
  <2> QED
    BY <2>1, <2>2
<1>10. ASSUME Nests, ~x.mixed PROVE Nest(out, x.block + 1, x.block + 1, {})
  <2>1. out = p
    BY <1>10 DEF Nests, Is
  <2>2. Nest(x.out, x.block, x.block, {})
    BY <1>10 DEF Calling
  <2> DEFINE L == {} \cup {At(x.block, "call")}
  <2>3. Nest(s, x.block + 1, x.block, L)
    BY <1>1, <1>2, <2>2, NestStart
  <2>4. x.block + 1 \in Nat
    BY <1>1
  <2>5. Nest(d, x.block + 1, x.block, L)
    <3> HIDE DEF s
    <3>1. At(x.block, "call") \in L
      OBVIOUS
    <3> HIDE DEF L
    <3> QED
      BY <1>1, <1>2, <1>3, <2>3, <2>4, <3>1, NestDelta
  <2>6. Nest(p, x.block + 1, x.block + 1, L \ {At(x.block, "call")})
    <3> HIDE DEF d
    <3>1. At(x.block, "call") \in L /\ \A a \in L : a = At(a.index, a.of)
      BY DEF At
    <3> HIDE DEF L
    <3> QED
      BY <1>1, <1>2, <1>3, <2>4, <2>5, <3>1, NestStop
  <2>7. L \ {At(x.block, "call")} = {}
    OBVIOUS
  <2> QED
    BY <2>1, <2>6, <2>7
<1> HIDE DEF out
<1>11. Is("chat") \/ Is("anthropic") => z.unsent <= z.calls /\ z.unsent < z.calls
  BY <1>1, <1>8 DEF Calling
<1>12. x.block + 1 \in Nat
  BY <1>1
<1>13. Calling(z)
  BY <1>8, <1>9, <1>10, <1>11, <1>12 DEF Calling
<1> QED
  BY <1>7, <1>8, <1>13

-----------------------------------------------------------------------------
(* What each dialect writes between the last chunk and the calls. *)

\* Chat: what the filter holds, the text that was buffered, and the role before the calls.
LEMMA FinishChatEnds ==
  ASSUME NEW x, Telling(x), Is("chat"), NEW z \in FinishChat(x)
  PROVE  Calling(z) /\ z.pc = "calls"
<1> DEFINE content(y) == IF Tools /\ y.parsed = "content" /\ y.calls = 0 THEN Say(y, "text") ELSE y
           role(y) == IF y.calls > 0 /\ ~content(y).role
                      THEN Write(content(y), E("first", 0, "call")) ELSE content(y)
<1>1. ~Nests /\ ~Is("anthropic") /\ ~Is("responses") /\ ~Is("compact")
  BY DEF Nests, Is
<1>2. PICK y \in IF Tools THEN Flushed(x, Say(x, "thinking")) ELSE {x} : z = Announced(role(y), y.calls)
  BY DEF FinishChat
<1>3. Telling(y) /\ y \in Record
  <2>1. x \in Record /\ Spoken(x)
    BY DEF Telling
  <2>2. Says(x, Say(x, "thinking")) /\ Spoken(Say(x, "thinking"))
    BY <2>1, SayKeeps
  <2>3. Telling(Say(x, "thinking")) /\ Say(x, "thinking").pc = x.pc
    BY <1>1, <2>2 DEF Says, Telling, Orderly
  <2>4. Telling(y)
    BY <1>2, <2>3, FlushedKeeps
  <2> QED
    BY <2>4 DEF Telling
<1> DEFINE c == content(y)
           r == role(y)
<1>4. c = IF Tools /\ y.parsed = "content" /\ y.calls = 0 THEN Say(y, "text") ELSE y
  OBVIOUS
<1>5. r = IF y.calls > 0 /\ ~c.role THEN Write(c, E("first", 0, "call")) ELSE c
  OBVIOUS
<1>6. z = Announced(r, y.calls)
  BY <1>2
<1> HIDE DEF content, role, c, r
<1>7. Says(y, c) /\ Spoken(c) /\ c \in Record /\ c.calls = y.calls /\ Body(c.out)
  <2>1. Says(y, y) /\ Spoken(y) /\ Body(y.out)
    BY <1>3 DEF Says, Telling
  <2>2. Says(y, Say(y, "text")) /\ Spoken(Say(y, "text"))
    BY <1>3, <2>1, SayKeeps
  <2>3. Says(y, c) /\ Spoken(c)
    BY <1>4, <2>1, <2>2
  <2> QED
    BY <2>1, <2>3 DEF Says
<1>8. /\ r \in Record /\ r.calls = y.calls /\ Unended(r.out) /\ ~CallSent(r.out) /\ Headed(r.out)
      /\ y.calls > 0 => r.out # <<>>
  <2>1. Unended(c.out) /\ ~CallSent(c.out) /\ Headed(c.out) /\ (c.role <=> c.out # <<>>)
    BY <1>7 DEF Body, Unended, CallSent, Spoken
  <2>2. CASE y.calls > 0 /\ ~c.role
    <3> DEFINE e == E("first", 0, "call")
    <3>1. e \in Event /\ e.ev = "first" /\ e.of = "call"
      BY Events
    <3>2. r = Write(c, e)
      BY <1>5, <2>2
    <3> HIDE DEF e
    <3>3. r \in Record /\ r = [c EXCEPT !.out = Append(c.out, e)] /\ r.out = Append(c.out, e)
      BY <1>7, <3>1, <3>2, WriteRecord
    <3>4. r.calls = y.calls
      BY <1>7, <3>3 DEF Record
    <3>5. c.out = <<>> /\ c.out \in Seq(Event)
      BY <1>7, <2>1, <2>2 DEF Record
    <3>6. Len(r.out) = 1 /\ DOMAIN r.out = 1..1 /\ r.out[1] = e /\ r.out # <<>>
      BY <3>1, <3>3, <3>5
    <3>7. \A i \in DOMAIN r.out : i = 1 /\ r.out[i] = e
      BY <3>6
    <3> HIDE <3>3
    <3> QED
      BY <3>1, <3>3, <3>4, <3>6, <3>7 DEF Unended, CallSent, Headed
  <2>3. CASE ~(y.calls > 0 /\ ~c.role)
    BY <1>5, <1>7, <2>1, <2>3
  <2> QED
    BY <2>2, <2>3
<1>9. y.calls \in Nat
  BY <1>3 DEF Record
<1> QED
  BY <1>1, <1>6, <1>8, <1>9, AnnouncedCalling

\* Anthropic: every block is stopped before the calls.
LEMMA FinishAnthropicEnds ==
  ASSUME NEW x, Telling(x), Is("anthropic"), NEW z \in FinishAnthropic(x)
  PROVE  Calling(z) /\ z.pc = "calls"
<1> DEFINE quiet(y) == IF Tools /\ ~y.closed THEN CloseBlock(y, "thinking") ELSE y
           content(y) == IF Tools /\ y.parsed = "content" /\ y.calls = 0
                         THEN BlockDelta(quiet(y), "text") ELSE quiet(y)
           shut(y) == CloseBlock(CloseBlock(content(y), "thinking"), "text")
<1>1. ~Is("chat") /\ ~Is("responses") /\ ~Is("compact")
  BY DEF Is
<1>2. PICK y \in ThinkingFlushed(x) : z = Announced(shut(y), y.calls)
  BY DEF FinishAnthropic
<1>3. Telling(y) /\ y \in Record /\ y.calls \in Nat /\ Body(y.out) /\ (~y.mixed => OneBlock(y))
  BY <1>2, AnthropicFlushed DEF Telling, Orderly, Record
<1> DEFINE q == quiet(y)
           c == content(y)
           b == CloseBlock(c, "thinking")
           s == CloseBlock(b, "text")
<1>4. q = IF Tools /\ ~y.closed THEN CloseBlock(y, "thinking") ELSE y
  OBVIOUS
<1>5. c = IF Tools /\ y.parsed = "content" /\ y.calls = 0 THEN BlockDelta(q, "text") ELSE q
  OBVIOUS
<1>6. z = Announced(s, y.calls)
  BY <1>2
<1> HIDE DEF quiet, content, shut, q, c
<1>7. Says(y, q) /\ q \in Record /\ (~y.mixed => OneBlock(q) /\ (Tools => q.open \subseteq {"text"}))
  <2>1. CASE Tools /\ ~y.closed
    <3>1. q = CloseBlock(y, "thinking")
      BY <1>4, <2>1
    <3>2. Says(y, q) /\ q \in Record /\ q.open = y.open \ {"thinking"}
      BY <1>3, <3>1, CloseBlockSays DEF Says
    <3>3. OneBlock(y) => OneBlock(q)
      BY <1>3, <3>1, CloseBlockKeeps
    <3>4. OneBlock(y) => q.open \subseteq {"text"}
      BY <3>2 DEF OneBlock
    <3> QED
      BY <1>3, <3>2, <3>3, <3>4
  <2>2. CASE ~(Tools /\ ~y.closed)
    <3>1. q = y /\ Says(y, y)
      BY <1>3, <1>4, <2>2 DEF Says
    <3>2. ~y.mixed /\ Tools => y.open = {}
      BY <1>3, <2>2 DEF Telling, Orderly
    <3> QED
      BY <1>3, <3>1, <3>2
  <2> QED
    BY <2>1, <2>2
<1>8. Says(q, c) /\ c \in Record /\ (~y.mixed => OneBlock(c))
  <2>1. CASE Tools /\ y.parsed = "content" /\ y.calls = 0
    <3>1. c = BlockDelta(q, "text")
      BY <1>5, <2>1
    <3>2. Says(q, c) /\ c \in Record
      BY <1>7, <3>1, BlockDeltaSays DEF Says
    <3> QED
      BY <1>7, <2>1, <3>1, <3>2, BlockDeltaKeeps
  <2>2. CASE ~(Tools /\ y.parsed = "content" /\ y.calls = 0)
    BY <1>5, <1>7, <2>2 DEF Says
  <2> QED
    BY <2>1, <2>2
<1>9. Says(c, b) /\ b \in Record /\ b.open = c.open \ {"thinking"} /\ (~y.mixed => OneBlock(b))
  BY <1>8, CloseBlockSays, CloseBlockKeeps DEF Says
<1> HIDE DEF b
<1>10. Says(b, s) /\ s \in Record /\ s.open = b.open \ {"text"} /\ (~y.mixed => OneBlock(s))
  BY <1>9, CloseBlockSays, CloseBlockKeeps DEF Says
<1> HIDE DEF s
<1>11. Says(y, s)
  BY <1>7, <1>8, <1>9, <1>10, SaysSays
<1>12. s.calls = y.calls /\ s.mixed = y.mixed /\ Unended(s.out) /\ ~CallSent(s.out)
  BY <1>3, <1>11 DEF Says, Body, Unended, CallSent
<1>13. ASSUME ~s.mixed PROVE Nest(s.out, s.block, s.block, {}) /\ s.block \in Nat
  <2>1. OneBlock(s) /\ "text" \notin s.open /\ "thinking" \notin s.open
    BY <1>9, <1>10, <1>12, <1>13
  <2> QED
    BY <1>10, <2>1 DEF OneBlock, Record
<1> QED
  BY <1>1, <1>3, <1>6, <1>10, <1>12, <1>13, AnnouncedCalling

\* Text completions: the text that was buffered, and no call.
LEMMA FinishCompletionsEnds ==
  ASSUME NEW x, Telling(x), ~Nests, ~Is("chat"), NEW z \in FinishCompletions(x)
  PROVE  Calling(z) /\ z.pc = "calls"
<1>1. ~Is("anthropic") /\ x \in Record /\ Body(x.out)
  BY DEF Telling, Nests, Is
<1> DEFINE e == E("delta", 0, "text")
           c == IF Tools /\ x.parsed = "content" /\ x.calls = 0 THEN Write(x, e) ELSE x
<1>2. z = Announced(c, 0)
  BY DEF FinishCompletions
<1>3. Says(x, Write(x, e)) /\ Says(x, x)
  <2>1. e \in Event /\ e.ev = "delta" /\ e.of = "text"
    BY Events
  <2> HIDE DEF e
  <2> QED
    BY <1>1, <2>1, WriteSays DEF Says
<1>4. Says(x, c)
  BY <1>3
<1> HIDE DEF c
<1>5. c \in Record /\ Unended(c.out) /\ ~CallSent(c.out)
  BY <1>1, <1>4 DEF Says, Body, Unended, CallSent
<1> QED
  BY <1>1, <1>2, <1>5, AnnouncedCalling

\* Compact: its one item is started and stopped.
LEMMA FinishCompactEnds ==
  ASSUME NEW x, Telling(x), Is("compact"), NEW z \in FinishCompact(x)
  PROVE  Calling(z) /\ z.pc = "calls"
<1>1. ~Is("chat") /\ ~Is("anthropic") /\ x \in Record /\ x.out = <<>> /\ x.out \in Seq(Event)
  BY DEF Is, Telling, Record
<1> DEFINE s == E("start", 0, "compaction")
           p == E("stop", 0, "compaction")
           one == Append(x.out, s)
           y == Write(x, s)
           two == Append(one, p)
           w == Write(y, p)
           block == At(0, "compaction")
<1>2. s \in Event /\ p \in Event /\ s.ev = "start" /\ p.ev = "stop" /\ s.of # "call" /\ p.of # "call"
  BY Events
<1>3. z = Announced(w, 0)
  BY DEF FinishCompact
<1>4. Nest(one, 1, 0, {block})
  <2>1. Nest(x.out, 0, 0, {})
    BY <1>1, NestEmpty
  <2>2. Nest(one, 0 + 1, 0, {} \cup {block})
    BY <1>1, <1>2, <2>1, NestStart
  <2>3. 0 + 1 = 1 /\ {} \cup {block} = {block}
    OBVIOUS
  <2> HIDE DEF one, block
  <2> QED
    BY <2>2, <2>3
<1>5. one \in Seq(Event)
  <2> HIDE DEF s
  <2> QED
    BY <1>1, <1>2, Appended
<1>6. Nest(two, 1, 1, {})
  <2>1. \A d \in {block} : d = At(d.index, d.of)
    BY DEF At
  <2>2. block \in {block} /\ 1 \in Nat /\ 0 \in Nat
    OBVIOUS
  <2> HIDE DEF one
  <2>3. Nest(two, 1, 0 + 1, {block} \ {block})
    BY <1>2, <1>4, <1>5, <2>1, <2>2, NestStop
  <2>4. 0 + 1 = 1 /\ {block} \ {block} = {}
    OBVIOUS
  <2> HIDE DEF two, block
  <2> QED
    BY <2>3, <2>4
<1>7. Says(x, y) /\ y \in Record /\ y.out = one
  <2> HIDE DEF s
  <2> QED
    BY <1>1, <1>2, WriteSays, WriteRecord
<1>8. Says(y, w) /\ w \in Record /\ w.out = two
  <2> HIDE DEF s, p, y, one
  <2> QED
    BY <1>2, <1>7, WriteSays, WriteRecord
<1>9. Body(w.out)
  BY <1>1, <1>7, <1>8 DEF Says, Body
<1> HIDE DEF w, two
<1>10. Unended(w.out) /\ ~CallSent(w.out)
  BY <1>9 DEF Body, Unended, CallSent
<1>11. \E m \in Nat : Nest(w.out, m, m, {}) /\ (0 > 0 => m = w.block)
  <2>1. Nest(w.out, 1, 1, {}) /\ ~(0 > 0)
    BY <1>6, <1>8
  <2> QED
    BY <2>1
<1> QED
  BY <1>1, <1>3, <1>8, <1>10, <1>11, AnnouncedCalling

\* Responses: the reasoning is stopped, the message may go on.
Reasoned(x) ==
  /\ x.open \subseteq {"reasoning", "message"}
  /\ "message" \in x.open => x.message = MessageIndex(x)
  /\ Nest(x.out, ItemCount(x), MessageIndex(x),
          IF "message" \in x.open THEN {At(MessageIndex(x), "message")} ELSE {})

\* The indexes of the items are numbers, and the message comes last.
LEMMA ItemNumbers ==
  ASSUME NEW x
  PROVE  /\ MessageIndex(x) \in Nat /\ ItemCount(x) \in Nat
         /\ "message" \in x.open => ItemCount(x) = MessageIndex(x) + 1
         /\ "message" \notin x.open => ItemCount(x) = MessageIndex(x)
BY DEF ItemCount, MessageIndex, If

\* Responses: the reasoning is stopped and the message, if there is one, stays open.
LEMMA ReasoningDoneKeeps ==
  ASSUME NEW x \in Record
  PROVE  LET y == ReasoningDone(x)
         IN  /\ Says(x, y) /\ y.open = x.open /\ y.message = x.message
             /\ Items(x) => Reasoned(y)
<1> DEFINE y == ReasoningDone(x)
           e == E("stop", 0, "reasoning")
           r == At(0, "reasoning")
           m == At(MessageIndex(x), "message")
<1>1. e \in Event /\ e.ev = "stop" /\ e.of = "reasoning"
  BY Events
<1>2. CASE "reasoning" \in x.open
  <2>1. y = Write(x, e)
    BY <1>2 DEF ReasoningDone
  <2>2. Says(x, y) /\ y.open = x.open /\ y.message = x.message /\ y.out = Append(x.out, e)
    <3> HIDE DEF e, y
    <3> QED
      BY <1>1, <2>1, WriteSays, WriteRecord
  <2>3. MessageIndex(y) = 1 /\ ItemCount(y) = ItemCount(x) /\ MessageIndex(x) = 1
    <3> HIDE DEF y
    <3> QED
      BY <1>2, <2>2 DEF MessageIndex, ItemCount, If
  <2> HIDE DEF y
  <2>4. ASSUME Items(x) PROVE Reasoned(y)
    <3>1. Alive(x) = {r} \cup (IF "message" \in x.open THEN {m} ELSE {})
      BY <1>2 DEF Alive
    <3>2. /\ Nest(x.out, ItemCount(x), 0, Alive(x)) /\ x.out \in Seq(Event)
          /\ ItemCount(x) \in Nat /\ r \in Alive(x)
      BY <2>4, <3>1, ItemNumbers DEF Items, Record
    <3>3. \A d \in Alive(x) : d = At(d.index, d.of)
      BY <3>1 DEF At
    <3>4. Nest(Append(x.out, e), ItemCount(x), 0 + 1, Alive(x) \ {r})
      <4> HIDE DEF r
      <4>1. e \in Event
        BY <1>1
      <4> QED
        BY <3>2, <3>3, <4>1, NestStop DEF r
    <3>5. Alive(x) \ {r} = IF "message" \in x.open THEN {m} ELSE {}
      BY <3>1 DEF At
    <3>6. Nest(Append(x.out, e), ItemCount(x), 1, IF "message" \in x.open THEN {m} ELSE {})
      BY <3>4, <3>5
    <3> QED
      BY <2>2, <2>3, <2>4, <3>6 DEF Reasoned, Items
  <2> QED
    BY <2>2, <2>4 DEF y
<1>3. CASE "reasoning" \notin x.open
  <2>1. y = x
    BY <1>3 DEF ReasoningDone
  <2>2. MessageIndex(x) = 0 /\ Alive(x) = IF "message" \in x.open THEN {m} ELSE {}
    BY <1>3 DEF MessageIndex, If, Alive
  <2>3. Items(x) => Reasoned(x)
    BY <2>2 DEF Items, Reasoned
  <2> QED
    BY <2>1, <2>3 DEF Says
<1> QED
  BY <1>2, <1>3

\* Responses: the message may go on, or start, when the reasoning has stopped.
LEMMA MessageAfterReasoning ==
  ASSUME NEW x \in Record, Reasoned(x), ~Is("anthropic")
  PROVE  Reasoned(MessageDelta(x))
<1> DEFINE y == OpenMessage(x)
           z == MessageDelta(x)
           i == MessageIndex(x)
           m == At(i, "message")
<1>1. i \in Nat /\ i + 1 \in Nat /\ x.out \in Seq(Event) /\ y.open = x.open \cup {"message"} /\ y \in Record
  BY SMTT(30), ItemNumbers, OpenMessageSays DEF Record, Says
<1>2. MessageIndex(y) = i /\ ItemCount(y) = i + 1
  BY <1>1 DEF MessageIndex, ItemCount, If
<1>3. y.message = i /\ Nest(y.out, i + 1, i, {m})
  <2>1. CASE "message" \in x.open
    <3>1. y = x
      BY <2>1, OpenMessageSays
    <3> QED
      BY <1>2, <2>1, <3>1 DEF Reasoned
  <2>2. CASE "message" \notin x.open
    <3>1. y.message = i /\ y.out = Append(x.out, E("start", i, "message"))
      BY <2>2, OpenMessageSays
    <3>2. Nest(x.out, i, i, {}) /\ E("start", i, "message") \in Event
      BY <1>1, <2>2, ItemNumbers, Events DEF Reasoned
    <3> HIDE DEF i, y, m
    <3>3. Nest(Append(x.out, E("start", i, "message")), i + 1, i, {} \cup {At(i, "message")})
      BY <1>1, <3>2, NestStart
    <3> QED
      BY <3>1, <3>3 DEF m
  <2> QED
    BY <2>1, <2>2
<1>4. MessageAt(y) = i
  BY <1>2, <1>3 DEF MessageAt
<1>5. z.open = y.open /\ z.message = i /\ z.out = Append(y.out, E("delta", i, "message"))
  BY <1>1, <1>3, <1>4, MessageDeltaSays
<1> HIDE DEF y, z, i
<1>6. MessageIndex(z) = i /\ ItemCount(z) = i + 1
  BY <1>2, <1>5 DEF MessageIndex, ItemCount
<1>7. Nest(z.out, i + 1, i, {m})
  <2>1. E("delta", i, "message") \in Event /\ y.out \in Seq(Event)
    BY <1>1, Events DEF Record
  <2> QED
    BY <1>1, <1>3, <1>5, <2>1, NestDelta
<1>8. z.open \subseteq {"reasoning", "message"} /\ "message" \in z.open
  BY <1>1, <1>5 DEF Reasoned
<1> QED
  BY <1>5, <1>6, <1>7, <1>8 DEF Reasoned, z

\* Responses: when the message has stopped too, nothing is open.
LEMMA MessageDoneKeeps ==
  ASSUME NEW x \in Record
  PROVE  LET y == MessageDone(x)
         IN  /\ Says(x, y) /\ y.open = x.open /\ y.message = x.message
             /\ Reasoned(x) => Nest(y.out, ItemCount(x), ItemCount(x), {})
<1> DEFINE y == MessageDone(x)
           i == MessageIndex(x)
           e == E("stop", MessageAt(x), "message")
<1>1. CASE "message" \in x.open
  <2>1. MessageAt(x) \in Nat /\ i \in Nat /\ i + 1 \in Nat
    BY ItemNumbers DEF MessageAt, Record
  <2>2. e \in Event /\ e.ev = "stop" /\ e.of = "message"
    BY <2>1, Events
  <2>3. y = Write(x, e)
    BY <1>1 DEF MessageDone
  <2>4. Says(x, y) /\ y.open = x.open /\ y.message = x.message /\ y.out = Append(x.out, e)
    <3> HIDE DEF e, y
    <3> QED
      BY <2>2, <2>3, WriteSays, WriteRecord
  <2>5. ASSUME Reasoned(x) PROVE Nest(Append(x.out, e), ItemCount(x), ItemCount(x), {})
    <3>1. MessageAt(x) = i
      BY <1>1, <2>5 DEF Reasoned, MessageAt
    <3>2. Nest(x.out, i + 1, i, {At(i, "message")}) /\ ItemCount(x) = i + 1
      BY <1>1, <2>5, ItemNumbers DEF Reasoned
    <3>3. \A d \in {At(i, "message")} : d = At(d.index, d.of)
      BY DEF At
    <3> HIDE DEF i
    <3>4. x.out \in Seq(Event) /\ E("stop", i, "message") \in Event
      BY <2>1, Events DEF Record
    <3>5. Nest(Append(x.out, E("stop", i, "message")), i + 1, i + 1, {At(i, "message")} \ {At(i, "message")})
      BY <2>1, <3>2, <3>3, <3>4, NestStop
    <3>6. {At(i, "message")} \ {At(i, "message")} = {}
      OBVIOUS
    <3> QED
      BY <3>1, <3>2, <3>5, <3>6
  <2> QED
    BY <2>4, <2>5
<1>2. CASE "message" \notin x.open
  <2>1. y = x
    BY <1>2 DEF MessageDone
  <2>2. Reasoned(x) => Nest(x.out, ItemCount(x), ItemCount(x), {})
    BY <1>2, ItemNumbers DEF Reasoned
  <2> QED
    BY <2>1, <2>2 DEF Says
<1> QED
  BY <1>1, <1>2

\* Responses: either nothing is open and the calls come, or the answer ends.
LEMMA FinishResponsesEnds ==
  ASSUME NEW x, Telling(x), Is("responses"), NEW z \in FinishResponses(x)
  PROVE  (Calling(z) /\ z.pc = "calls") \/ (Ended(z, gone) /\ z.pc = "done")
<1> DEFINE r == ReasoningDone(x)
           c == IF x.parsed = "content" THEN MessageDelta(r) ELSE r
           next == If("message" \in c.open, MessageAt(c) + 1, MessageIndex(c))
           empty == IF Tools THEN "message" \notin c.open /\ x.calls = 0 ELSE x.text = 0
           d == MessageDone(c)
           y == [d EXCEPT !.block = next]
<1>1. ~Is("chat") /\ ~Is("anthropic") /\ Nests /\ x \in Record /\ Body(x.out) /\ (~x.mixed => Items(x))
  BY DEF Is, Nests, Telling, Orderly
<1>2. Says(x, r) /\ r \in Record /\ Body(r.out) /\ r.mixed = x.mixed /\ (~x.mixed => Reasoned(r))
  BY <1>1, ReasoningDoneKeeps DEF Says
<1>3. ~x.mixed => \E n \in Nat, m \in Nat : \E L : Nest(r.out, n, m, L)
  BY <1>2, ItemNumbers DEF Reasoned
<1>4. ~x.mixed => \E n \in Nat, m \in Nat : \E L : Nest(x.out, n, m, L)
  BY <1>1, TellingNests
<1>5. \/ gone /\ z = [r EXCEPT !.pc = "done"]
      \/ z = Failed(r)
      \/ z = Failed(x)
      \/ z = Announced(y, x.calls)
  BY DEF FinishResponses
<1> HIDE DEF r
<1>6. Ended(Failed(r), gone) /\ Failed(r).pc = "done"
  BY <1>1, <1>2, <1>3, FailedEnds
<1>7. Ended(Failed(x), gone) /\ Failed(x).pc = "done"
  BY <1>1, <1>4, FailedEnds
<1>8. gone => Ended([r EXCEPT !.pc = "done"], gone) /\ [r EXCEPT !.pc = "done"].pc = "done"
  <2>1. Ended([r EXCEPT !.pc = "done"], TRUE) /\ [r EXCEPT !.pc = "done"].pc = "done"
    BY <1>1, <1>2, <1>3, LeftEnds
  <2> QED
    BY <2>1 DEF Ended
<1>9. Says(r, c) /\ c \in Record /\ Body(c.out) /\ c.mixed = x.mixed /\ (~x.mixed => Reasoned(c))
  <2>1. Says(r, MessageDelta(r)) /\ Says(r, r)
    BY <1>2, MessageDeltaSays DEF Says
  <2> QED
    BY <1>1, <1>2, <2>1, MessageAfterReasoning DEF Says
<1>10. next \in Nat /\ (~x.mixed => next = ItemCount(c))
  <2> HIDE DEF c
  <2>1. MessageAt(c) \in Nat /\ MessageIndex(c) \in Nat
    BY <1>9, ItemNumbers DEF MessageAt, Record
  <2>2. ~x.mixed /\ "message" \in c.open => MessageAt(c) = MessageIndex(c)
    BY <1>9 DEF Reasoned, MessageAt
  <2> QED
    BY <2>1, <2>2, ItemNumbers DEF If
<1> HIDE DEF next
<1>11. /\ Says(c, d) /\ d \in Record /\ Body(d.out) /\ d.mixed = x.mixed
       /\ ~x.mixed => Nest(d.out, ItemCount(c), ItemCount(c), {})
  <2> HIDE DEF c
  <2> QED
    BY <1>9, MessageDoneKeeps DEF Says
<1> HIDE DEF d
<1>12. y \in Record /\ y.out = d.out /\ y.block = next /\ y.mixed = x.mixed /\ x.calls \in Nat
  BY <1>1, <1>10, <1>11 DEF Record
<1> HIDE DEF y
<1>13. Unended(y.out) /\ ~CallSent(y.out)
  BY <1>11, <1>12 DEF Body, Unended, CallSent
<1>14. ItemCount(c) \in Nat
  BY ItemNumbers
<1>15. Calling(Announced(y, x.calls)) /\ Announced(y, x.calls).pc = "calls"
  <2> HIDE DEF c
  <2> QED
    BY <1>1, <1>10, <1>11, <1>12, <1>13, <1>14, AnnouncedCalling
<1> QED
  BY <1>5, <1>6, <1>7, <1>8, <1>15

\* In every dialect the calls come next, or the answer has ended.
LEMMA FinishEnds ==
  ASSUME NEW x, Telling(x), NEW z \in Finish(x)
  PROVE  (Calling(z) /\ z.pc = "calls") \/ (Ended(z, gone) /\ z.pc = "done")
<1>1. CASE Is("chat")
  BY <1>1, FinishChatEnds DEF Finish, Is
<1>2. CASE Is("anthropic")
  BY <1>2, FinishAnthropicEnds DEF Finish, Is
<1>3. CASE Is("responses")
  BY <1>3, FinishResponsesEnds DEF Finish, Is
<1>4. CASE Is("compact")
  BY <1>4, FinishCompactEnds DEF Finish, Is
<1>5. CASE ~Is("chat") /\ ~Is("anthropic") /\ ~Is("responses") /\ ~Is("compact")
  BY <1>5, FinishCompletionsEnds DEF Finish, Is, Nests
<1> QED
  BY <1>1, <1>2, <1>3, <1>4, <1>5

-----------------------------------------------------------------------------
(* The invariant. *)

\* What holds of the handler where it is.
HandlerInv ==
  /\ h.pc \in {"begin", "receive", "drain", "parse", "finish", "calls", "done"}
  /\ h.pc \in {"begin", "receive", "drain", "parse", "finish"} => Telling(h)
  /\ h.pc = "calls" => Calling(h)
  /\ h.pc = "done" => Ended(h, gone)

\* The request, the goroutines and their channels: a goroutine that waits may ask once more.
ChannelsInv ==
  /\ conf \in [dialect : Dialects, tools : BOOLEAN, limit : Limits]
  /\ gone \in BOOLEAN
  /\ up \in [st : {"running", "closed"}, offer : Chunk \cup {None}, sent : 0..MaxChunks]
  /\ wrap \in [st : {"take", "offer", "wait", "closed"}, offer : Chunk \cup {None},
               attempt : 0..Retries, visible : BOOLEAN]
  /\ wrap.offer # None => wrap.st = "offer"
  /\ wrap.st = "wait" => wrap.attempt < Retries

Inv == ChannelsInv /\ HandlerInv

\* The attempts are a number.
LEMMA RetriesType == Retries \in Nat
BY DEF Retries

\* The invariant holds at the start.
LEMMA InvInit == Init => Inv
<1> SUFFICES ASSUME Init PROVE Inv
  OBVIOUS
<1>1. ChannelsInv
  <2>1. conf \in [dialect : Dialects, tools : BOOLEAN, limit : Limits] /\ gone \in BOOLEAN
    BY DEF Init
  <2>2. up \in [st : {"running", "closed"}, offer : Chunk \cup {None}, sent : 0..MaxChunks]
    BY StreamsAssumption DEF Init
  <2>3. If(Is("responses"), "take", "closed") \in {"take", "closed"}
    BY DEF If
  <2>4. /\ wrap \in [st : {"take", "offer", "wait", "closed"}, offer : Chunk \cup {None},
                     attempt : 0..Retries, visible : BOOLEAN]
        /\ wrap.offer = None /\ wrap.st \in {"take", "closed"}
    BY <2>3, RetriesType DEF Init
  <2> QED
    BY <2>1, <2>2, <2>4 DEF ChannelsInv
<1>2. h \in Record /\ h.pc = "begin" /\ h.out = <<>> /\ h.open = {} /\ h.block = 0 /\ ~h.role /\ ~h.closed
      /\ ~h.mixed
  BY DEF Init, Fresh, Record
<1>3. Body(h.out) /\ Headed(h.out) /\ Nest(h.out, 0, 0, {})
  BY <1>2, NestEmpty DEF Body, Headed
<1>4. OneBlock(h)
  BY <1>2, <1>3 DEF OneBlock
<1>5. Items(h)
  <2>1. ItemCount(h) = 0 /\ Alive(h) = {}
    BY <1>2 DEF ItemCount, MessageIndex, If, Alive
  <2> QED
    BY <1>2, <1>3, <2>1 DEF Items
<1>6. Telling(h)
  BY <1>2, <1>3, <1>4, <1>5 DEF Telling, Orderly, Spoken
<1> QED
  BY <1>1, <1>2, <1>6 DEF Inv, HandlerInv

\* Every step keeps what the request, the goroutines and their channels hold.
LEMMA ChannelsNext == ChannelsInv /\ [Next]_vars => ChannelsInv'
<1> SUFFICES ASSUME ChannelsInv, [Next]_vars PROVE ChannelsInv'
  OBVIOUS
<1> USE StreamsAssumption DEF ChannelsInv
<1>1. /\ up.st \in {"running", "closed"} /\ up.offer \in Chunk \cup {None} /\ up.sent \in 0..MaxChunks
      /\ wrap.st \in {"take", "offer", "wait", "closed"} /\ wrap.offer \in Chunk \cup {None}
      /\ wrap.attempt \in 0..Retries /\ wrap.visible \in BOOLEAN /\ Retries \in Nat
  BY RetriesType
<1>2. conf' = conf /\ Retries' = Retries
  <2>1. conf' = conf
    BY DEF Next, vars, Disconnect, Handler, Begin, Receive, NoMore, Drain, Parse, WriteRest,
           WriteCall, WriteEnd, Wrapper, WrapTakes, WrapAgain, WrapStops, Producer, Produce, ProducerStops
  <2> QED
    BY <2>1 DEF Retries, Tools
<1>3. \A s, next : Taken(s, next) = [s EXCEPT !.st = IF Last(s.offer) THEN "closed" ELSE next, !.offer = None]
  BY DEF Taken, If
<1>4. UNCHANGED <<gone, up, wrap>> => ChannelsInv'
  BY <1>2
<1>5. CASE Disconnect
  BY <1>2, <1>5 DEF Disconnect
<1>6. ASSUME Take, gone' = gone PROVE ChannelsInv'
  <2>1. CASE Is("responses")
    BY ZenonT(40), <1>1, <1>2, <1>3, <1>6, <2>1 DEF Take
  <2>2. CASE ~Is("responses")
    BY ZenonT(40), <1>1, <1>2, <1>3, <1>6, <2>2 DEF Take
  <2> QED
    BY <2>1, <2>2
<1>7. CASE Receive
  BY <1>6, <1>7 DEF Receive
<1>8. CASE Drain
  BY <1>4, <1>6, <1>8 DEF Drain
<1>9. CASE Begin \/ NoMore \/ Parse \/ WriteRest \/ WriteCall \/ WriteEnd
  BY <1>4, <1>9 DEF Begin, NoMore, Parse, WriteRest, WriteCall, WriteEnd
<1>10. CASE WrapTakes
  <2>1. up' = Taken(up, "running") /\ gone' = gone /\ wrap.st = "take" /\ wrap.offer = None
    BY <1>10 DEF WrapTakes
  <2>2. up' \in [st : {"running", "closed"}, offer : Chunk \cup {None}, sent : 0..MaxChunks]
    BY <1>1, <1>3, <2>1
  <2>3. wrap' = Wrapped(up.offer) /\ up.offer \in Chunk
    BY <1>1, <1>10 DEF WrapTakes
  <2>4. \/ wrap.attempt < Retries /\ wrap' = [wrap EXCEPT !.st = "wait"]
        \/ wrap' = wrap
        \/ wrap' = [wrap EXCEPT !.st = "offer", !.offer = up.offer, !.visible = @ \/ ~Last(up.offer)]
    BY <2>3 DEF Wrapped
  <2>5. (wrap.visible \/ ~Last(up.offer)) \in BOOLEAN
    BY DEF Last
  <2> QED
    BY ZenonT(40), <1>1, <1>2, <2>1, <2>2, <2>3, <2>4, <2>5
<1>11. CASE WrapAgain
  <2>1. wrap' = [wrap EXCEPT !.st = "take", !.attempt = wrap.attempt + 1] /\ up' = [up EXCEPT !.st = "running"]
        /\ gone' = gone /\ wrap.st = "wait" /\ wrap.offer = None
    BY <1>11 DEF WrapAgain
  <2>2. wrap.attempt + 1 \in 0..Retries
    BY <1>1, <2>1
  <2> QED
    BY <1>1, <1>2, <2>1, <2>2
<1>12. CASE WrapStops
  BY <1>1, <1>2, <1>12 DEF WrapStops
<1>13. CASE Produce
  <2>1. PICK c \in Chunk :
          /\ ~Last(c) => up.sent < MaxChunks
          /\ up' = [up EXCEPT !.offer = c, !.sent = IF Last(c) THEN up.sent ELSE up.sent + 1]
    BY <1>13 DEF Produce, If
  <2>2. gone' = gone /\ wrap' = wrap
    BY <1>13 DEF Produce
  <2>3. (IF Last(c) THEN up.sent ELSE up.sent + 1) \in 0..MaxChunks
    BY <1>1, <2>1
  <2>4. up' \in [st : {"running", "closed"}, offer : Chunk \cup {None}, sent : 0..MaxChunks]
    BY <1>1, <2>1, <2>3
  <2> QED
    BY <1>2, <2>2, <2>4
<1>14. CASE ProducerStops
  BY <1>1, <1>2, <1>14 DEF ProducerStops
<1>15. CASE UNCHANGED vars
  BY <1>4, <1>15 DEF vars
<1> QED
  BY <1>5, <1>7, <1>8, <1>9, <1>10, <1>11, <1>12, <1>13, <1>14, <1>15 DEF Next, Handler, Wrapper, Producer

\* What Drain and Parse make of the handler.
Settled(x, pc) == [x EXCEPT !.draining = FALSE, !.pc = pc]
Parsed(x, n, p) == [x EXCEPT !.pc = "finish", !.calls = n, !.parsed = p]

\* What the end of draining leaves as it is.
LEMMA SettledRecord ==
  ASSUME NEW x \in Record, NEW pc \in {"begin", "receive", "drain", "parse", "finish", "calls", "done"}
  PROVE  LET y == Settled(x, pc)
         IN  /\ y \in Record /\ y.pc = pc /\ y.out = x.out /\ y.open = x.open /\ y.block = x.block
             /\ y.message = x.message /\ y.role = x.role /\ y.closed = x.closed /\ y.mixed = x.mixed
             /\ y.text = x.text /\ y.calls = x.calls /\ y.unsent = x.unsent
BY DEF Settled, Parsed, Record

\* What parsing the buffered text leaves as it is.
LEMMA ParsedRecord ==
  ASSUME NEW x \in Record, NEW n \in Nat, NEW p \in {"none", "content", "error"}
  PROVE  LET y == Parsed(x, n, p)
         IN  /\ y \in Record /\ y.pc = "finish" /\ y.out = x.out /\ y.open = x.open /\ y.block = x.block
             /\ y.message = x.message /\ y.role = x.role /\ y.closed = x.closed /\ y.mixed = x.mixed
             /\ y.text = x.text
BY DEF Settled, Parsed, Record

\* Every step of the handler keeps what is said of it, at the place it goes to.
LEMMA HandlerNext == ChannelsInv /\ HandlerInv /\ [Next]_vars => HandlerInv'
<1> SUFFICES ASSUME ChannelsInv, HandlerInv, [Next]_vars PROVE HandlerInv'
  OBVIOUS
<1> DEFINE telling == {"begin", "receive", "drain", "parse", "finish"}
<1>1. h \in Record /\ h.calls \in Nat /\ h.unsent \in Nat /\ h.text \in Nat /\ conf.limit \in Nat
  <2>1. h \in Record
    BY DEF HandlerInv, Telling, Calling, Ended
  <2>2. conf.limit \in Nat
    BY StreamsAssumption DEF ChannelsInv
  <2> QED
    BY <2>1, <2>2 DEF Record
<1>2. conf' = conf
  BY DEF Next, vars, Disconnect, Handler, Begin, Receive, NoMore, Drain, Parse, WriteRest,
         WriteCall, WriteEnd, Wrapper, WrapTakes, WrapAgain, WrapStops, Producer, Produce, ProducerStops
\* What is said of a handler depends on the request, which stays.
<1>3. /\ h'.pc \in telling /\ Telling(h') => HandlerInv'
      /\ h'.pc = "calls" /\ Calling(h') => HandlerInv'
      /\ h'.pc = "done" /\ Ended(h', gone') => HandlerInv'
  <2>1. /\ Telling(h)' <=> Telling(h')
        /\ Calling(h)' <=> Calling(h')
        /\ Ended(h, gone)' <=> Ended(h', gone')
    BY <1>2 DEF Telling, Orderly, Calling, Ended, OneBlock, Items, Nest, Nested, InOrder, Nests, Is,
                Tools, Spoken
  <2> QED
    BY <2>1 DEF HandlerInv
<1>4. ASSUME NEW pc \in telling, h.pc \in telling
      PROVE  Telling([h EXCEPT !.pc = pc])
  <2> DEFINE y == [h EXCEPT !.pc = pc]
  <2>1. /\ y \in Record /\ y.out = h.out /\ y.open = h.open /\ y.block = h.block /\ y.message = h.message
        /\ y.role = h.role /\ y.closed = h.closed /\ y.mixed = h.mixed /\ y.text >= h.text
    BY <1>1 DEF Record
  <2> HIDE DEF y
  <2>2. Telling(y)
    BY <1>4, <2>1, QuietKeeps DEF HandlerInv
  <2> QED
    BY <2>2 DEF y
<1>5. h.pc \in telling => Ended([h EXCEPT !.pc = "done"], TRUE) /\ [h EXCEPT !.pc = "done"].pc = "done"
  <2> SUFFICES ASSUME h.pc \in telling
               PROVE  Ended([h EXCEPT !.pc = "done"], TRUE) /\ [h EXCEPT !.pc = "done"].pc = "done"
    OBVIOUS
  <2>1. Telling(h)
    BY DEF HandlerInv
  <2> QED
    BY <1>1, <2>1, TellingNests, LeftEnds DEF Telling, Spoken
<1>6. CASE h' = h /\ (gone => gone')
  BY <1>3, <1>6, <1>1, EndedQuiet DEF HandlerInv
<1>7. CASE Disconnect
  BY <1>6, <1>7 DEF Disconnect
<1>8. CASE Begin
  <2>1. h.pc \in telling /\ gone' = gone
    BY <1>8 DEF Begin
  <2>2. CASE h' = [h EXCEPT !.pc = "receive"]
    <3>1. h'.pc = "receive"
      BY <1>1, <2>2 DEF Record
    <3> QED
      BY <1>3, <1>4, <2>1, <2>2, <3>1
  <2>3. CASE gone /\ h' = [h EXCEPT !.pc = "done"]
    <3>1. gone = TRUE
      BY <2>3 DEF ChannelsInv
    <3> QED
      BY <1>3, <1>5, <2>1, <2>3, <3>1
  <2> QED
    BY <1>8, <2>2, <2>3 DEF Begin
<1>9. CASE Receive
  <2>1. h.pc = "receive" /\ Telling(h) /\ gone' = gone
    BY <1>9 DEF Receive, HandlerInv
  <2> DEFINE c == Source.offer
  <2>2. CASE c = "error" /\ h' \in {Failed(h)}
    <3>1. Ended(Failed(h), gone) /\ Failed(h).pc = "done"
      BY <1>1, <2>1, TellingNests, FailedEnds DEF Telling, Spoken
    <3> QED
      BY <1>3, <2>1, <2>2, <3>1
  <2>3. CASE c = "final" /\ h' \in {IF Is("compact") THEN h ELSE [h EXCEPT !.pc = "parse"]}
    <3>1. CASE h' = h
      BY <1>6, <2>1, <3>1
    <3>2. CASE h' = [h EXCEPT !.pc = "parse"]
      <4>1. h'.pc = "parse"
        BY <1>1, <3>2 DEF Record
      <4> QED
        BY <1>3, <1>4, <2>1, <3>2, <4>1
    <3> QED
      BY <2>3, <3>1, <3>2
  <2>4. CASE c = "thinking" /\ h' \in Thinking(h)
    BY <1>3, <2>1, <2>4, ThinkingKeeps
  <2>5. CASE c = "text" /\ h' \in Text(h)
    <3>1. Goes(h, h')
      BY <1>1, <2>1, <2>5, TextKeeps
    <3> QED
      BY <1>3, <2>1, <3>1 DEF Goes
  <2>6. c \in Chunk
    BY <1>9 DEF Receive, Source, ChannelsInv
  <2> QED
    BY <1>9, <2>2, <2>3, <2>4, <2>5, <2>6 DEF Receive, Chunk
<1>10. CASE NoMore
  <2>1. h.pc = "receive" /\ h' = [h EXCEPT !.pc = "parse"]
    BY <1>10 DEF NoMore
  <2>2. h'.pc = "parse"
    BY <1>1, <2>1 DEF Record
  <2> QED
    BY <1>3, <1>4, <2>1, <2>2
<1>11. CASE Drain
  <2>1. CASE UNCHANGED h
    BY <1>6, <1>11, <2>1 DEF Drain
  <2>2. CASE h' = [h EXCEPT !.draining = FALSE, !.pc = If(@ = "drain", "parse", @)]
    <3> DEFINE pc == If(h.pc = "drain", "parse", h.pc)
    <3>1. /\ pc \in {"begin", "receive", "drain", "parse", "finish", "calls", "done"}
          /\ h.pc \in telling => pc \in telling
          /\ h.pc \notin telling => pc = h.pc
      BY DEF HandlerInv, If
    <3>2. h' = [h EXCEPT !.draining = FALSE, !.pc = pc] /\ gone' = gone
      BY <1>11, <2>2 DEF Drain
    <3> HIDE DEF pc
    <3>3. /\ h' \in Record /\ h'.pc = pc /\ h'.out = h.out /\ h'.open = h.open /\ h'.block = h.block
          /\ h'.message = h.message /\ h'.role = h.role /\ h'.closed = h.closed /\ h'.mixed = h.mixed
          /\ h'.text >= h.text /\ h'.calls = h.calls /\ h'.unsent = h.unsent
      <4>1. h' = Settled(h, pc)
        BY <3>2 DEF Settled
      <4>2. h.text >= h.text
        BY <1>1
      <4> QED
        BY <1>1, <3>1, <4>1, <4>2, SettledRecord
    <3>4. CASE h.pc \in telling
      BY <1>3, <3>1, <3>3, <3>4, QuietKeeps DEF HandlerInv
    <3>5. CASE h.pc = "calls"
      BY <1>3, <3>1, <3>3, <3>5, CallingQuiet DEF HandlerInv
    <3>6. CASE h.pc = "done"
      BY <1>3, <3>1, <3>2, <3>3, <3>6, EndedQuiet DEF HandlerInv
    <3> QED
      BY <3>4, <3>5, <3>6 DEF HandlerInv
  <2> QED
    BY <1>11, <2>1, <2>2 DEF Drain
<1>12. CASE Parse
  <2>1. h.pc = "parse" /\ Telling(h) /\ gone' = gone
    BY <1>12 DEF Parse, HandlerInv
  <2>2. CASE gone /\ h' = [h EXCEPT !.pc = "done"]
    <3>1. gone = TRUE
      BY <2>2 DEF ChannelsInv
    <3> QED
      BY <1>3, <1>5, <2>1, <2>2, <3>1
  <2>3. CASE \E n \in 0..MaxCalls, p \in {"none", "content", "error"} :
               h' = [h EXCEPT !.pc = "finish", !.calls = n, !.parsed = p]
    <3>1. PICK n \in 0..MaxCalls, p \in {"none", "content", "error"} :
             h' = [h EXCEPT !.pc = "finish", !.calls = n, !.parsed = p]
      BY <2>3
    <3>2. n \in Nat
      BY StreamsAssumption
    <3>3. /\ h' \in Record /\ h'.pc = "finish" /\ h'.out = h.out /\ h'.open = h.open /\ h'.block = h.block
          /\ h'.message = h.message /\ h'.role = h.role /\ h'.closed = h.closed /\ h'.mixed = h.mixed
          /\ h'.text >= h.text
      <4>1. h' = Parsed(h, n, p)
        BY <3>1 DEF Parsed
      <4>3. p \in {"none", "content", "error"}
        BY <3>1
      <4>2. h.text >= h.text
        BY <1>1
      <4> DEFINE y == Parsed(h, n, p)
      <4>4. /\ y \in Record /\ y.pc = "finish" /\ y.out = h.out /\ y.open = h.open /\ y.block = h.block
            /\ y.message = h.message /\ y.role = h.role /\ y.closed = h.closed /\ y.mixed = h.mixed
            /\ y.text = h.text
        BY ZenonT(40), <1>1, <3>2, <4>3, ParsedRecord
      <4> HIDE DEF y
      <4> QED
        BY <4>1, <4>2, <4>4 DEF y
    <3> QED
      BY <1>3, <2>1, <3>3, QuietKeeps
  <2> QED
    BY <1>12, <2>2, <2>3 DEF Parse
<1>13. CASE WriteRest
  <2>1. Telling(h) /\ h' \in Finish(h) /\ gone' = gone
    BY <1>13 DEF WriteRest, HandlerInv
  <2>2. (Calling(h') /\ h'.pc = "calls") \/ (Ended(h', gone) /\ h'.pc = "done")
    BY <2>1, FinishEnds
  <2> QED
    BY <1>3, <2>1, <2>2
<1>14. CASE WriteCall
  <2>1. h.pc = "calls" /\ Calling(h) /\ h.unsent > 0 /\ h' = Call(h)
    BY <1>14 DEF WriteCall, HandlerInv
  <2> QED
    BY <1>3, <2>1, CallKeeps
<1>15. CASE WriteEnd
  <2>1. h.pc = "calls" /\ Calling(h) /\ h.unsent = 0 /\ gone' = gone
        /\ h' = [Write(h, E("finish", 0, Status)) EXCEPT !.pc = "done"]
    BY <1>15 DEF WriteEnd, HandlerInv
  <2>2. Status \in {"error", "tool_calls", "length", "stop"}
    BY DEF Status, Reported, If
  <2>3. Is("chat") \/ Is("anthropic") => (Status = "tool_calls" <=> CallSent(h.out))
    <3>1. Is("chat") \/ Is("anthropic") => Status = Reported(h)
      BY DEF Status, Is
    <3>2. Reported(h) = "tool_calls" <=> h.calls > 0
      BY DEF Reported, If
    <3>3. Is("chat") \/ Is("anthropic") => (CallSent(h.out) <=> h.calls > 0)
      BY <1>1, <2>1 DEF Calling
    <3> QED
      BY <3>1, <3>2, <3>3
  <2>4. Nests /\ ~h.mixed =>
          \E n \in Nat, m \in Nat : \E L : Nest(h.out, n, m, L) /\ (Status = "error" \/ n = m)
    BY <2>1 DEF Calling
  <2>5. Unended(h.out) /\ (Is("chat") => Headed(h.out))
    BY <2>1 DEF Calling
  <2> HIDE DEF telling
  <2>6. Ended(h', gone) /\ h'.pc = "done"
    BY <1>1, <2>1, <2>2, <2>3, <2>4, <2>5, EndWith
  <2> QED
    BY <1>3, <2>1, <2>6
<1>16. CASE WrapTakes \/ WrapAgain \/ WrapStops \/ Produce \/ ProducerStops \/ UNCHANGED vars
  <2>1. h' = h /\ gone' = gone
    BY <1>16 DEF WrapTakes, WrapAgain, WrapStops, Produce, ProducerStops, vars
  <2> QED
    BY <1>6, <2>1
<1> QED
  BY <1>7, <1>8, <1>9, <1>10, <1>11, <1>12, <1>13, <1>14, <1>15, <1>16 DEF Next, Handler, Wrapper, Producer

\* The invariant holds of every state.
LEMMA InvHolds == Spec => []Inv
<1>1. Inv /\ [Next]_vars => Inv'
  BY ChannelsNext, HandlerNext DEF Inv
<1> QED
  BY InvInit, <1>1, PTL DEF Spec

-----------------------------------------------------------------------------
\* The goroutines, their channels and the handler hold what their types allow (TypeOK).
THEOREM TypeCorrect == Spec => []TypeOK
<1>1. Inv => TypeOK
  BY DEF Inv, ChannelsInv, HandlerInv, Telling, Calling, Ended, Record, TypeOK
<1> QED
  BY InvHolds, <1>1, PTL

\* The events of an answer rebuild it: blocks and items start with the next index, deltas and stops
\* are about one that is open, and a finished answer leaves none open, whatever its chunks are, where
\* its limit falls and how many calls it makes (streamAnthropicMessages, streamResponses).
THEOREM BlocksNest == Spec => []EventsNest
<1>1. Inv => EventsNest
  <2> SUFFICES ASSUME Inv, Nests, ~h.mixed PROVE Nested(h.out)
    BY DEF EventsNest, Nested, Nests
  <2> QED
    BY TellingNests DEF Inv, HandlerInv, Calling, Ended, Nest
<1> QED
  BY InvHolds, <1>1, PTL

\* Chat: the first delta, and no other, carries the role (hasContent in streamChatCompletions).
THEOREM RoleSaidOnce == Spec => []RoleOnce
<1>1. Inv => RoleOnce
  <2>1. Inv /\ Is("chat") => Headed(h.out)
    BY DEF Inv, HandlerInv, Telling, Spoken, Calling, Ended
  <2> QED
    BY <2>1 DEF RoleOnce, Headed
<1> QED
  BY InvHolds, <1>1, PTL

\* An answer is ended at most once, by its last event, and a client that stays is told its end.
THEOREM OneEnd == Spec => []EndsOnce
<1>1. Inv => EndsOnce
  BY DEF Inv, HandlerInv, Telling, Body, Calling, Unended, Ended, EndsOnce
<1> QED
  BY InvHolds, <1>1, PTL

\* Chat and Anthropic: the reason "tool_calls" is given exactly when calls were sent, even in an
\* answer cut short by its limit.
THEOREM ReasonIsTrue == Spec => []ReasonMatchesCalls
<1>1. Inv => ReasonMatchesCalls
  <2> SUFFICES ASSUME Inv, Is("chat") \/ Is("anthropic"), NEW i \in DOMAIN h.out, h.out[i].ev = "finish"
               PROVE  h.out[i].of = "tool_calls" <=> CallSent(h.out)
    BY DEF ReasonMatchesCalls, CallSent, Is
  <2>1. h.pc = "done" /\ Ended(h, gone)
    BY DEF Inv, HandlerInv, Telling, Body, Calling, Unended
  <2> QED
    BY <2>1 DEF Ended
<1> QED
  BY InvHolds, <1>1, PTL
=============================================================================
