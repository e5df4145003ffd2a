------------------------------ MODULE Streams ------------------------------
(***************************************************************************)
(* A streamed answer on its way to a client (pkg/servers/api.go): the      *)
(* goroutine that reads the service and offers chunks on an unbuffered     *)
(* channel, for Responses a second goroutine that asks again when nothing  *)
(* came, and the handler that turns chunks into the events of its dialect  *)
(* while its client may go away.  The text of a chunk is left out; what    *)
(* the parsers make of it is a choice.                                     *)
(***************************************************************************)
EXTENDS Naturals, Sequences, FiniteSets

CONSTANTS
  Dialects,    \* which handlers are called
  MaxChunks,   \* bound: chunks of thinking or text, over all attempts
  MaxCalls,    \* bound: tool calls in an answer
  Limits       \* bound: max_tokens, in chunks of text; 0 for none

ASSUME StreamsAssumption ==
  /\ Dialects \subseteq {"chat", "completions", "complete", "anthropic", "responses", "compact"}
  /\ MaxChunks \in Nat /\ MaxCalls \in Nat /\ Limits \subseteq Nat

VARIABLES
  conf,   \* the request: dialect, whether it declares tools, its limit
  gone,   \* whether the client has gone, which cancels the request's context
  up,     \* ChatConversationStreamGenContext: running or closed, the chunk it offers
  wrap,   \* responsesStreamWithEmptyRetry: the same, with its attempt
  h       \* the handler: its locals and the events it has written

vars == <<conf, gone, up, wrap, h>>

None == "none"
Chunk == {"thinking", "text", "final", "error"}

Is(d) == conf.dialect = d
Tools == conf.tools

\* Only Responses passes its context on.
Cancelled == Is("responses") /\ (gone \/ h.pc = "done")

\* responsesEmptyRetrySchedule.
Retries == IF Tools THEN 1 ELSE 2

-----------------------------------------------------------------------------
(* What the handlers write.  An event names what it is about by its index, a block or an item. *)

E(ev, i, of) == [ev |-> ev, index |-> i, of |-> of]
Write(x, e) == [x EXCEPT !.out = Append(@, e)]
If(test, x, y) == IF test THEN x ELSE y

Fresh == [pc |-> "begin", text |-> 0, held |-> FALSE, mixed |-> FALSE, truncated |-> FALSE,
          draining |-> FALSE, parsed |-> "none", calls |-> 0, unsent |-> 0, role |-> FALSE, open |-> {},
          closed |-> FALSE, block |-> 0, message |-> 0, out |-> <<>>]

\* Mutant: nobody remembers that the role was said.
SayAgain(x, of) == Write(x, E(If(x.role, "delta", "first"), 0, of))

\* Chat: the first delta carries the role.
Say(x, of) == [Write(x, E(If(x.role, "delta", "first"), 0, of)) EXCEPT !.role = TRUE]

\* Anthropic: the blocks "thinking" and "text" share the index blockIndex.
OpenBlock(x, of) ==
  IF of \in x.open THEN x ELSE [Write(x, E("start", x.block, of)) EXCEPT !.open = @ \cup {of}]
BlockDelta(x, of) == Write(OpenBlock(x, of), E("delta", x.block, of))
\* Mutant: the index stays.
CloseBlockInPlace(x, of) ==
  IF of \notin x.open THEN x ELSE [Write(x, E("stop", x.block, of)) EXCEPT !.open = @ \ {of}]

CloseBlock(x, of) ==
  IF of \notin x.open THEN x
  ELSE [Write(x, E("stop", x.block, of)) EXCEPT !.open = @ \ {of}, !.block = @ + 1]

\* Responses: reasoning is item 0; the message comes after it if reasoning is there by now.
MessageIndex(x) == If("reasoning" \in x.open, 1, 0)
Reason(x) ==
  LET y == IF "reasoning" \in x.open THEN x
           ELSE [Write(x, E("start", 0, "reasoning")) EXCEPT !.open = @ \cup {"reasoning"}]
  IN  Write(y, E("delta", 0, "reasoning"))
OpenMessage(x) ==
  IF "message" \in x.open THEN x
  ELSE [Write(x, E("start", MessageIndex(x), "message"))
          EXCEPT !.open = @ \cup {"message"}, !.message = MessageIndex(x)]
\* With tools the index is remembered, without it is computed every time.
MessageAt(x) == IF Tools THEN x.message ELSE MessageIndex(x)
MessageDelta(x) == LET y == OpenMessage(x) IN Write(y, E("delta", MessageAt(y), "message"))

-----------------------------------------------------------------------------
(* A chunk of thinking.  With tools it goes through ThinkingStreamFilter, which gives out whole *)
(* lines and holds the rest back, or drops it all.                                              *)

Filtered(x, said) == {x, [x EXCEPT !.held = TRUE], said, [said EXCEPT !.held = TRUE]}

Thinking(x) ==
  LET said == CASE Is("chat") -> Say(x, "thinking")
                [] Is("anthropic") -> BlockDelta(x, "thinking")
                [] Is("responses") -> Reason(x)
                [] OTHER -> x
      noted == [said EXCEPT !.mixed = x.text > 0]
  IN  IF Tools /\ ~Is("completions") THEN Filtered([x EXCEPT !.mixed = x.text > 0], noted) ELSE {noted}

\* What the filter holds is flushed, which may leave nothing of it.
Flushed(x, said) == IF x.held THEN {[x EXCEPT !.held = FALSE], [said EXCEPT !.held = FALSE]} ELSE {x}

-----------------------------------------------------------------------------
(* A chunk of text. *)

Full(x) == conf.limit > 0 /\ x.text >= conf.limit

\* Mutant: the handler leaves without draining.
TruncateUndrained(x) == [x EXCEPT !.truncated = TRUE, !.pc = "parse"]

\* At the limit the rest is drained, by the handler or, for Responses, by another goroutine.
Truncate(x) ==
  IF Is("responses") THEN [x EXCEPT !.truncated = TRUE, !.draining = TRUE, !.pc = "parse"]
  ELSE [x EXCEPT !.truncated = TRUE, !.pc = "drain"]

Plain(x) ==
  IF Full(x) THEN {Truncate(x)}
  ELSE LET y == [x EXCEPT !.text = @ + 1]
       IN  {IF Tools THEN y
            ELSE CASE Is("chat") -> Say(y, "text")
                   [] Is("anthropic") -> BlockDelta(y, "text")
                   [] OTHER -> Write(y, E("delta", 0, "text"))}

\* Before the first text the thinking is closed.
ThinkingFlushed(x) == IF Tools /\ ~x.closed THEN Flushed(x, BlockDelta(x, "thinking")) ELSE {x}
AnthropicText(x) ==
  UNION {LET closed == IF "text" \in y.open THEN y ELSE CloseBlock(y, "thinking")
             opened == IF Tools THEN [closed EXCEPT !.closed = TRUE] ELSE OpenBlock(closed, "text")
         IN  Plain(opened) : y \in ThinkingFlushed(x)}

\* With tools only what ContentStreamExtractor finds is published, up to the limit.
Extracted(y, full) == {y, IF full THEN [y EXCEPT !.truncated = TRUE] ELSE MessageDelta(y)}

ResponsesText(x) ==
  LET y == [x EXCEPT !.text = @ + 1]
  IN  IF Tools
      THEN Extracted(y, Full(x))
      ELSE LET opened == OpenMessage(x)
               longer == MessageDelta([opened EXCEPT !.text = @ + 1])
           IN  IF Full(x) THEN {Truncate(opened)}
               ELSE {longer} \cup (IF conf.limit > 0 THEN {Truncate(longer)} ELSE {})

Text(x) ==
  CASE Is("anthropic") -> AnthropicText(x)
    [] Is("responses") -> ResponsesText(x)
    [] Is("compact") -> {[x EXCEPT !.text = @ + 1]}
    [] OTHER -> Plain(x)

-----------------------------------------------------------------------------
(* After the last chunk. *)

\* Mutant: the limit is looked at first.
ReportedLengthFirst(x) == IF x.truncated THEN "length" ELSE If(x.calls > 0, "tool_calls", "stop")

Reported(x) == IF x.calls > 0 THEN "tool_calls" ELSE If(x.truncated, "length", "stop")

\* Everything but the calls and the end has been written; n calls are to come.
Announced(x, n) == [x EXCEPT !.pc = "calls", !.unsent = n]

\* The next call: a delta of Chat, else a block or an item of its own.
Call(x) ==
  LET e(ev) == E(ev, x.block, "call")
      y == IF Is("chat") THEN Write(x, e("call"))
           ELSE Write(Write(Write(x, e("start")), e("delta")), e("stop"))
  IN  [y EXCEPT !.block = @ + 1, !.unsent = @ - 1]

FinishChat(x) ==
  {LET content == IF Tools /\ y.parsed = "content" /\ y.calls = 0 THEN Say(y, "text") ELSE y
       role == IF y.calls > 0 /\ ~content.role THEN Write(content, E("first", 0, "call")) ELSE content
   IN  Announced(role, y.calls) :
     y \in IF Tools THEN Flushed(x, Say(x, "thinking")) ELSE {x}}

FinishAnthropic(x) ==
  {LET quiet == IF Tools /\ ~y.closed THEN CloseBlock(y, "thinking") ELSE y
       content == IF Tools /\ y.parsed = "content" /\ y.calls = 0
                  THEN BlockDelta(quiet, "text") ELSE quiet
       shut == CloseBlock(CloseBlock(content, "thinking"), "text")
   IN  Announced(shut, y.calls) : y \in ThinkingFlushed(x)}

\* Text completions have no way to say a call: it is lost.
FinishCompletions(x) ==
  LET content == IF Tools /\ x.parsed = "content" /\ x.calls = 0 THEN Write(x, E("delta", 0, "text")) ELSE x
  IN  {Announced(content, 0)}

\* Mutant: after the error the handler goes on as after the last chunk.
FailedUnreturned(x) == [Write(x, E("finish", 0, "error")) EXCEPT !.pc = "parse"]

Failed(x) == [Write(x, E("finish", 0, "error")) EXCEPT !.pc = "done"]

ReasoningDone(x) == IF "reasoning" \in x.open THEN Write(x, E("stop", 0, "reasoning")) ELSE x
MessageDone(x) == IF "message" \in x.open THEN Write(x, E("stop", MessageAt(x), "message")) ELSE x

FinishResponses(x) ==
  LET reasoned == ReasoningDone(x)
      content == IF x.parsed = "content" THEN MessageDelta(reasoned) ELSE reasoned
      next == If("message" \in content.open, MessageAt(content) + 1, MessageIndex(content))
      empty == IF Tools THEN "message" \notin content.open /\ x.calls = 0 ELSE x.text = 0
  IN  CASE x.parsed = "error" -> {IF gone THEN [reasoned EXCEPT !.pc = "done"] ELSE Failed(reasoned)}
        [] x.parsed # "error" /\ empty -> {Failed(IF Tools THEN reasoned ELSE x)}
        [] OTHER -> {Announced([MessageDone(content) EXCEPT !.block = next], x.calls)}

FinishCompact(x) ==
  {Announced(Write(Write(x, E("start", 0, "compaction")), E("stop", 0, "compaction")), 0)}

Finish(x) ==
  CASE Is("chat") -> FinishChat(x)
    [] Is("anthropic") -> FinishAnthropic(x)
    [] Is("responses") -> FinishResponses(x)
    [] Is("compact") -> FinishCompact(x)
    [] OTHER -> FinishCompletions(x)

-----------------------------------------------------------------------------
(* The request. *)

Source == IF Is("responses") THEN wrap ELSE up
Last(c) == c \in {"final", "error"}

\* What is left of a source whose chunk is taken: after the last one its channel closes.
Taken(s, next) == [s EXCEPT !.st = If(Last(s.offer), "closed", next), !.offer = None]

Init ==
  /\ conf \in [dialect : Dialects, tools : BOOLEAN, limit : Limits]
  /\ Is("complete") => ~Tools
  /\ gone = FALSE
  /\ up = [st |-> "running", offer |-> None, sent |-> 0]
  /\ wrap = [st |-> If(Is("responses"), "take", "closed"), offer |-> None, attempt |-> 0, visible |-> FALSE]
  /\ h = Fresh

\* The client closes its connection.
Disconnect ==
  /\ ~gone /\ h.pc # "done"
  /\ gone' = TRUE
  /\ UNCHANGED <<conf, up, wrap, h>>

\* The headers and the opening events; Chat and text completions leave when the first keepalive fails.
Begin ==
  /\ h.pc = "begin"
  /\ \/ h' = [h EXCEPT !.pc = "receive"]
     \/ gone /\ conf.dialect \in {"chat", "completions"} /\ h' = [h EXCEPT !.pc = "done"]
  /\ UNCHANGED <<conf, gone, up, wrap>>

\* The service's next frame, at most MaxChunks of them before the last.
Produce ==
  /\ up.st = "running" /\ up.offer = None
  /\ \E c \in Chunk :
       /\ ~Last(c) => up.sent < MaxChunks
       /\ up' = [up EXCEPT !.offer = c, !.sent = If(Last(c), @, @ + 1)]
  /\ UNCHANGED <<conf, gone, wrap, h>>

\* Its context is cancelled.
ProducerStops ==
  /\ Cancelled /\ up.st = "running"
  /\ up' = [up EXCEPT !.st = "closed", !.offer = None]
  /\ UNCHANGED <<conf, gone, wrap, h>>

\* Mutant: without the bound on attempts.
WrappedForever(c) ==
  CASE c = "final" /\ ~wrap.visible -> [wrap EXCEPT !.st = "wait"]
    [] c = "thinking" /\ Tools -> wrap
    [] OTHER -> [wrap EXCEPT !.st = "offer", !.offer = c, !.visible = @ \/ ~Last(c)]

\* A chunk that shows nothing is dropped, an answer that showed nothing is asked for again.
Wrapped(c) ==
  CASE c = "final" /\ ~wrap.visible /\ wrap.attempt < Retries -> [wrap EXCEPT !.st = "wait"]
    [] c = "thinking" /\ Tools -> wrap
    [] OTHER -> [wrap EXCEPT !.st = "offer", !.offer = c, !.visible = @ \/ ~Last(c)]

WrapTakes ==
  /\ wrap.st = "take" /\ up.offer # None
  /\ up' = Taken(up, "running")
  /\ wrap' = Wrapped(up.offer)
  /\ UNCHANGED <<conf, gone, h>>

WrapAgain ==
  /\ wrap.st = "wait"
  /\ wrap' = [wrap EXCEPT !.st = "take", !.attempt = @ + 1]
  /\ up' = [up EXCEPT !.st = "running"]
  /\ UNCHANGED <<conf, gone, h>>

WrapStops ==
  /\ Cancelled
  /\ wrap.st \in {"offer", "wait"} \/ (wrap.st = "take" /\ up.st = "closed")
  /\ wrap' = [wrap EXCEPT !.st = "closed", !.offer = None]
  /\ UNCHANGED <<conf, gone, up, h>>

Take ==
  IF Is("responses") THEN wrap' = Taken(wrap, "take") /\ UNCHANGED up
  ELSE up' = Taken(up, "running") /\ UNCHANGED wrap

\* nextStreamChunk has a chunk, even when the client has gone.
Receive ==
  /\ h.pc = "receive" /\ Source.offer # None
  /\ LET c == Source.offer
     IN  h' \in CASE c = "error" -> {Failed(h)}
                  [] c = "final" -> {IF Is("compact") THEN h ELSE [h EXCEPT !.pc = "parse"]}
                  [] c = "thinking" -> Thinking(h)
                  [] c = "text" -> Text(h)
  /\ Take
  /\ UNCHANGED <<conf, gone>>

\* nextStreamChunk has none: the channel is closed or the client has gone.
NoMore ==
  /\ h.pc = "receive"
  /\ (Source.st = "closed" /\ Source.offer = None) \/ gone
  /\ h' = [h EXCEPT !.pc = "parse"]
  /\ UNCHANGED <<conf, gone, up, wrap>>

Drain ==
  /\ h.pc = "drain" \/ h.draining
  /\ IF Source.offer # None THEN Take /\ UNCHANGED h
     ELSE /\ Source.st = "closed"
          /\ h' = [h EXCEPT !.draining = FALSE, !.pc = If(@ = "drain", "parse", @)]
          /\ UNCHANGED <<up, wrap>>
  /\ UNCHANGED <<conf, gone>>

\* What the buffered text says, with the repairs and retries that may take.
Parse ==
  /\ h.pc = "parse"
  /\ IF Is("responses") /\ gone THEN h' = [h EXCEPT !.pc = "done"]
     ELSE \E n \in 0..MaxCalls, p \in {"none", "content", "error"} :
            /\ (~Tools \/ Is("compact")) => (n = 0 /\ p = "none")
            /\ p = "error" => (Is("responses") /\ n = 0)
            /\ h' = [h EXCEPT !.pc = "finish", !.calls = n, !.parsed = p]
  /\ UNCHANGED <<conf, gone, up, wrap>>

\* What comes before the calls.
WriteRest ==
  /\ h.pc = "finish" /\ h' \in Finish(h)
  /\ UNCHANGED <<conf, gone, up, wrap>>

WriteCall ==
  /\ h.pc = "calls" /\ h.unsent > 0
  /\ h' = Call(h)
  /\ UNCHANGED <<conf, gone, up, wrap>>

\* What the answer ends with: Responses says first that it is incomplete.
Status ==
  CASE Is("compact") -> "stop"
    [] Is("responses") /\ h.truncated -> "length"
    [] OTHER -> Reported(h)

WriteEnd ==
  /\ h.pc = "calls" /\ h.unsent = 0
  /\ h' = [Write(h, E("finish", 0, Status)) EXCEPT !.pc = "done"]
  /\ UNCHANGED <<conf, gone, up, wrap>>

Handler == Begin \/ Receive \/ NoMore \/ Drain \/ Parse \/ WriteRest \/ WriteCall \/ WriteEnd
Wrapper == WrapTakes \/ WrapAgain \/ WrapStops
Producer == Produce \/ ProducerStops

Next == Disconnect \/ Handler \/ Wrapper \/ Producer

Spec == Init /\ [][Next]_vars

\* Goroutines run, and recvFinalTimeout turns the service's silence into an error.
FairSpec == Spec /\ WF_vars(Handler) /\ WF_vars(Drain) /\ WF_vars(Wrapper) /\ WF_vars(Producer)

-----------------------------------------------------------------------------
\* The goroutines, their channels and the handler hold what their types allow.
TypeOK ==
  /\ conf \in [dialect : Dialects, tools : BOOLEAN, limit : Limits]
  /\ gone \in BOOLEAN
  /\ up \in [st : {"running", "closed"}, offer : Chunk \cup {None}, sent : 0..MaxChunks]
  /\ wrap \in [st : {"take", "offer", "wait", "closed"}, offer : Chunk \cup {None},
               attempt : 0..Retries, visible : BOOLEAN]
  /\ wrap.offer # None => wrap.st = "offer"
  /\ h.pc \in {"begin", "receive", "drain", "parse", "finish", "calls", "done"}
  /\ h.open \subseteq {"thinking", "text", "reasoning", "message"}

\* Of the events out, what the one at i finds: e has been started and not stopped, e comes as it should.
Edges(out, i) == {j \in 1..(i - 1) : out[j].ev \in {"start", "stop"}}
Count(out, i, ev) == Cardinality({j \in Edges(out, i) : out[j].ev = ev})
Same(d, e) == d.index = e.index /\ d.of = e.of

IsOpen(out, i, e) ==
  \E j \in Edges(out, i) :
    /\ out[j].ev = "start" /\ Same(out[j], e)
    /\ \A k \in Edges(out, i) : k > j => ~(out[k].ev = "stop" /\ Same(out[k], e))

InOrder(out, i, e) ==
  /\ e.ev = "start" => /\ e.index = Count(out, i, "start")
                       /\ Is("anthropic") => Count(out, i, "start") = Count(out, i, "stop")
  /\ e.ev \in {"delta", "stop"} => IsOpen(out, i, e)
  /\ e.ev = "finish" => e.of = "error" \/ Count(out, i, "start") = Count(out, i, "stop")

\* What a client that rebuilds an answer from its events relies on: a block or an item starts with
\* the next index, deltas and stops are about one that is open, an Anthropic block starts when the
\* one before has stopped, and a finished answer leaves none open.  When thinking comes back after
\* text the handlers do not do this (ThinkingStopsFirst).
EventsNest ==
  (conf.dialect \in {"anthropic", "responses", "compact"} /\ ~h.mixed) =>
    \A i \in DOMAIN h.out : InOrder(h.out, i, h.out[i])

\* Chat: the first thing said carries the role, and nothing after it does (hasContent).
RoleOnce ==
  Is("chat") =>
    \A i \in DOMAIN h.out :
      CASE h.out[i].ev = "first" -> i = 1
        [] h.out[i].ev \in {"delta", "call"} -> i > 1
        [] OTHER -> TRUE

\* A client that stays is told the end of its answer, or an error, once and nothing after it.
EndsOnce ==
  /\ \A i \in DOMAIN h.out : h.out[i].ev = "finish" => i = Len(h.out)
  /\ (h.pc = "done" /\ ~gone) => (h.out # <<>> /\ h.out[Len(h.out)].ev = "finish")

\* Chat and Anthropic: the reason given is that tools are called exactly when calls were sent, even
\* in an answer cut short by its limit.
ReasonMatchesCalls ==
  conf.dialect \in {"chat", "anthropic"} =>
    \A i \in DOMAIN h.out :
      h.out[i].ev = "finish" =>
        ((h.out[i].of = "tool_calls") <=> \E j \in DOMAIN h.out : h.out[j].of = "call" /\ h.out[j].ev # "first")

\* "Transition from thinking to text: ... close any open thinking block before content follows"
\* (streamAnthropicMessages): no text is written while a block of thinking is open.
ThinkingStopsFirst ==
  \A i \in DOMAIN h.out :
    (h.out[i].of = "text" /\ h.out[i].ev \in {"start", "delta"} /\ Is("anthropic")) =>
      \A j \in Edges(h.out, i) : h.out[j].of = "thinking" => ~IsOpen(h.out, i, h.out[j])

\* Every request comes to an end and leaves no goroutine behind, except the one that reads the
\* service for a client that has gone: only Responses cancels it.
StreamEnds ==
  <>(/\ h.pc = "done" /\ ~h.draining /\ wrap.st = "closed"
     /\ up.st = "closed" \/ (gone /\ ~Is("responses")))
=============================================================================
