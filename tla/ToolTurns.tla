------------------------------ MODULE ToolTurns ------------------------------
(***************************************************************************)
(* Tool turns (pkg/servers/api.go, pkg/toolcalling): a client that runs    *)
(* the calls it is given and posts them back with their results, a server  *)
(* that keeps nothing between the requests of such a turn and rebuilds     *)
(* what it knows from the history of each request, its own loop for the    *)
(* tools it runs itself, and a model that may answer anything.             *)
(***************************************************************************)
EXTENDS Naturals, Sequences, FiniteSets, SequencesExt

CONSTANTS
  Dialects,   \* which of "chat", "messages", "responses" the clients speak
  ToolChoices,\* which of "auto", "required", "none" they ask for
  Work,       \* what a call does: its tool and its arguments, normalised
  Local,      \* the work of the tools that the server runs itself
  MaxRounds,  \* MaxToolRounds
  MaxLoop,    \* CodeToolMaxIterations
  MaxCalls,   \* bound: calls in one answer of the model
  MaxTurns,   \* bound: messages of the user
  MaxMishaps, \* bound: exchanges forgotten, calls left without a result, requests sent again
  MaxHistory  \* bound: history after which the user says no more; of a Responses client, all of it

ASSUME ToolTurnsAssumption ==
  /\ Local \subseteq Work
  /\ {MaxRounds, MaxLoop, MaxCalls, MaxTurns, MaxMishaps, MaxHistory} \subseteq Nat

VARIABLES
  mode,     \* what the client speaks, and whether it declares tools that the server runs
  history,  \* what the client holds: messages of the user, and exchanges of calls and results
  open,     \* whether the client is in a turn
  server,   \* the request under way
  left      \* turns and mishaps still to come

vars == <<mode, history, open, server, left>>

Call == [id : Nat, work : Work]

\* The calls of an answer by their places in it; those that are dropped leave their places empty.
AreCalls(calls) == DOMAIN calls \subseteq 1..MaxCalls /\ Range(calls) \subseteq Call
HasCalls(calls) == DOMAIN calls # {}
Ids(calls) == {calls[i].id : i \in DOMAIN calls}
LastId(calls) == {calls[i].id : i \in {j \in DOMAIN calls : \A k \in DOMAIN calls : k <= j}}

Item(user, calls, answered, progress) ==
  [user |-> user, calls |-> calls, answered |-> answered, progress |-> progress]
UserItem == Item(TRUE, <<>>, {}, FALSE)

-----------------------------------------------------------------------------
(* What the server makes of a history. *)

\* A message, at its place among the others: the item it comes from and its rank there.
Msg(at, user, calls, results, progress) ==
  [at |-> at, user |-> user, calls |-> calls, results |-> results, progress |-> progress]

\* Results are tool messages, except that Anthropic puts them into a message of the user.  The
\* Responses items of calls keep only their text; progress is a Responses item of its own.
Messages(i) ==
  LET item == history[i]
  IN  {Msg(<<i, 1>>, item.user, IF mode.dialect = "responses" THEN <<>> ELSE item.calls, {}, FALSE)}
        \cup (IF item.progress THEN {Msg(<<i, 2>>, TRUE, <<>>, {}, TRUE)} ELSE {})
        \cup (IF item.answered = {} THEN {}
              ELSE {Msg(<<i, 3>>, mode.dialect = "messages", <<>>, item.answered, FALSE)})

Received == UNION {Messages(i) : i \in DOMAIN history}
Before(m, n) == m.at[1] < n.at[1] \/ (m.at[1] = n.at[1] /\ m.at[2] < n.at[2])

\* Mutant: results in a message of the user begin a new turn.
BeginsWithResults(msg) == msg.user /\ ~msg.progress

\* activeToolMessages: from the last message that is the user's own.
BeginsTurn(msg) == msg.user /\ msg.results = {} /\ ~msg.progress
Active(ms) == {m \in ms : \A n \in ms : BeginsTurn(n) => ~Before(m, n)}

CallsIn(ms) == UNION {Range(m.calls) : m \in ms}
ResultsIn(ms) == UNION {m.results : m \in ms}

\* buildToolLedger, BuildLedger: the rounds of the turn and its calls that have a result.
Ledger(active) ==
  [rounds |-> Cardinality({m \in active : HasCalls(m.calls)}),
   completed |-> {c \in CallsIn(active) : c.id \in ResultsIn(active)}]

\* Mutant: one more repeat goes through.
SettledThrice(work) == Cardinality({c \in server.ledger.completed : c.work = work}) >= 3

\* FilterRepeated lets the first repeat through.
Settled(work) == Cardinality({c \in server.ledger.completed : c.work = work}) >= 2

\* validateToolResultMessages: no id is declared or answered twice, and no result answers a call
\* that is not there, if there are calls at all.
Valid(ms) ==
  /\ \A m \in ms : \A i \in DOMAIN m.calls :
       \A n \in ms : \A j \in DOMAIN n.calls : m.calls[i].id = n.calls[j].id => m = n /\ i = j
  /\ \A m \in ms : \A id \in m.results : \A n \in ms : id \in n.results => m = n
  /\ CallsIn(ms) = {} \/ ResultsIn(ms) \subseteq {c.id : c \in CallsIn(ms)}

\* exceededToolRoundLimit.
Exceeded(ledger) == ledger.rounds > MaxRounds

-----------------------------------------------------------------------------
(* The answers of the model, as the parser leaves them: well-formed calls of declared tools, or *)
(* none, with or without calls that were rejected, and a text that may claim to be done.        *)

Batches == UNION {[1..n -> Work] : n \in 1..MaxCalls}
Replies ==
  [calls : Batches, rejected : {FALSE}, text : {"empty"}]
    \cup [calls : {<<>>}, rejected : BOOLEAN, text : {"empty", "text", "claim"}]

NoReply == [calls |-> <<>>, rejected |-> FALSE, text |-> "empty"]

\* Mutant: calls are numbered from one in every answer.
LabelledAnew(works) == [i \in DOMAIN works |-> [id |-> i, work |-> works[i]]]

\* extractToolCallFields, parseAnthropicPayload: the id is our own, one that the history does not
\* have (nextToolCallID).
Labelled(works) ==
  LET minted == UNION {Ids(history[i].calls) : i \in DOMAIN history}
      newest == IF minted = {} THEN 0 ELSE Max(minted)
  IN  [i \in DOMAIN works |-> [id |-> newest + i, work |-> works[i]]]

PC == {"idle", "ask", "repair", "judge", "act", "conclude", "calls",
       "text", "claim", "settled", "notice", "limit", "bad", "error"}
Idle == [pc |-> "idle", choice |-> "auto", asks |-> 0, reply |-> NoReply, seen |-> {},
         calls |-> <<>>, ledger |-> [rounds |-> 0, completed |-> {}]]
At(pc) == server.pc = pc
Leave(pc) == server' = [Idle EXCEPT !.pc = pc, !.choice = server.choice]

Init ==
  /\ mode \in [dialect : Dialects, looped : {FALSE, Local # {}}]
  /\ history = <<>> /\ open = FALSE
  /\ server = Idle
  /\ left = [turns |-> MaxTurns, mishaps |-> MaxMishaps]

-----------------------------------------------------------------------------
(* The client. *)

\* The user speaks, between turns or in the middle of one.
Speak ==
  /\ At("idle") /\ left.turns > 0 /\ Len(history) < MaxHistory
  /\ history' = Append(history, UserItem)
  /\ open' = TRUE
  /\ left' = [left EXCEPT !.turns = @ - 1]
  /\ UNCHANGED <<mode, server>>

\* The client forgets an exchange, its calls and their results together.
Trim ==
  /\ At("idle") /\ open /\ left.mishaps > 0
  /\ \E i \in DOMAIN history :
       /\ ~history[i].user
       /\ history' = RemoveAt(history, i)
  /\ left' = [left EXCEPT !.mishaps = @ - 1]
  /\ UNCHANGED <<mode, open, server>>

\* The client posts its history, and the handler of its dialect refuses it or asks the model.
Handle(dialect) ==
  /\ At("idle") /\ open /\ mode.dialect = dialect
  /\ \E ms \in {Received}, choice \in ToolChoices : \E ledger \in {Ledger(Active(ms))} :
       server' = [Idle EXCEPT !.choice = choice, !.ledger = ledger,
                              !.pc = IF ~Valid(ms) THEN "bad" ELSE IF Exceeded(ledger) THEN "limit" ELSE "ask"]
  /\ UNCHANGED <<mode, history, open, left>>

PostChat == Handle("chat")
PostMessages == Handle("messages")
PostResponses == Handle("responses")

\* The client runs the calls and adds them with their results, all or all but the last.
RunTools ==
  /\ At("calls")
  /\ mode.dialect = "responses" => Len(history) < MaxHistory
  /\ \E unanswered \in {{}, LastId(server.calls)}, progress \in {FALSE, mode.dialect = "responses"} :
       /\ history' = Append(history, Item(FALSE, server.calls, Ids(server.calls) \ unanswered, progress))
       /\ unanswered # {} => left.mishaps > 0
       /\ left' = IF unanswered = {} THEN left ELSE [left EXCEPT !.mishaps = @ - 1]
  /\ server' = Idle
  /\ UNCHANGED <<mode, open>>

\* A final answer or a refusal.
EndTurn ==
  /\ server.pc \in {"text", "claim", "settled", "notice", "limit", "bad", "error"}
  /\ server' = Idle /\ open' = FALSE
  /\ UNCHANGED <<mode, history, left>>

\* The answer is lost, or is an error: the client posts the same history again.
Retry ==
  /\ server.pc \in {"calls", "text", "error"} /\ left.mishaps > 0
  /\ server' = Idle
  /\ left' = [left EXCEPT !.mishaps = @ - 1]
  /\ UNCHANGED <<mode, history, open>>

-----------------------------------------------------------------------------
(* The server. *)

\* What the handlers do with a parsed answer.
AfterAsk(reply) ==
  LET garbled == ~HasCalls(reply.calls) /\ reply.rejected
  IN  CASE mode.looped -> IF garbled THEN "repair" ELSE "act"
        [] ~mode.looped /\ mode.dialect = "responses" -> "judge"
        [] ~mode.looped /\ mode.dialect # "responses" -> IF garbled THEN "repair" ELSE "conclude"

\* The model answers.
Ask ==
  /\ At("ask")
  /\ \E reply \in Replies :
       server' = [server EXCEPT !.pc = AfterAsk(reply), !.reply = reply]
  /\ UNCHANGED <<mode, history, open, left>>

\* The service fails.
AskFails ==
  /\ At("ask") /\ Leave("error")
  /\ UNCHANGED <<mode, history, open, left>>

\* Mutant: repair until the answer parses.
RepairUntilParsed ==
  /\ At("repair")
  /\ \E reply \in Replies :
       server' = IF ~HasCalls(reply.calls) /\ reply.rejected THEN [server EXCEPT !.reply = reply]
                 ELSE [server EXCEPT !.pc = IF mode.looped THEN "act" ELSE "conclude",
                                     !.reply = IF HasCalls(reply.calls) THEN reply ELSE @]
  /\ UNCHANGED <<mode, history, open, left>>

\* repairSimulatedToolCalls: one more question; only calls come of it.
Repair ==
  /\ At("repair")
  /\ \E reply \in Replies :
       server' = [server EXCEPT !.pc = IF mode.looped THEN "act" ELSE "conclude",
                                !.reply = IF HasCalls(reply.calls) THEN reply ELSE @]
  /\ UNCHANGED <<mode, history, open, left>>

\* Mutant: ask until there is a call.
JudgeForever ==
  LET required == server.choice = "required"
      again == \/ required /\ ~HasCalls(server.reply.calls)
               \/ ~required /\ server.reply = NoReply /\ server.asks < 1
  IN  /\ At("judge")
      /\ server' = IF again THEN [server EXCEPT !.pc = "ask", !.asks = @ + 1]
                   ELSE [server EXCEPT !.pc = "conclude"]
      /\ UNCHANGED <<mode, history, open, left>>

\* parseResponsesSimulationWithRetry: two more questions if a call is required and there is none,
\* one more if there is nothing at all.
Judge ==
  LET required == server.choice = "required"
      again == \/ required /\ ~HasCalls(server.reply.calls) /\ server.asks < 2
               \/ ~required /\ ~HasCalls(server.reply.calls) /\ server.reply.text = "empty" /\ server.asks < 1
      fails == \/ required /\ ~HasCalls(server.reply.calls)
               \/ ~HasCalls(server.reply.calls) /\ server.reply.text = "empty"
  IN  /\ At("judge")
      /\ server' = CASE again -> [server EXCEPT !.pc = "ask", !.asks = @ + 1]
                     [] fails /\ ~again -> [server EXCEPT !.pc = "error"]
                     [] OTHER -> [server EXCEPT !.pc = "conclude"]
      /\ UNCHANGED <<mode, history, open, left>>

\* dropSettledToolCalls.
Kept(works) == RestrictValues(works, LAMBDA w : ~Settled(w))

\* replaceUnverifiedCompletionClaim: a claim to be done with nothing run is replaced.
TextOut ==
  IF server.reply.text = "claim" THEN {IF server.ledger.completed = {} THEN "notice" ELSE "claim"} ELSE {"text"}

Hand(works) == server' = [Idle EXCEPT !.pc = "calls", !.choice = server.choice, !.calls = Labelled(works)]

\* An answer with calls, some of which are kept, with calls that are all dropped, or with none.
Concluded(kept, texts) ==
  /\ At("conclude")
  /\ \/ HasCalls(kept) /\ Hand(kept)
     \/ ~HasCalls(kept) /\ HasCalls(server.reply.calls) /\ Leave("settled")
     \/ ~HasCalls(server.reply.calls) /\ \E pc \in texts : Leave(pc)
  /\ UNCHANGED <<mode, history, open, left>>

\* The answer of the handlers that run no tools themselves.  Chat and messages pass "auto" to
\* dropSettledToolCalls whatever was asked for.
ConcludeChat == mode.dialect = "chat" /\ Concluded(Kept(server.reply.calls), TextOut)
ConcludeMessages == mode.dialect = "messages" /\ Concluded(Kept(server.reply.calls), TextOut)

\* Responses spares calls that are required; its text may have been streamed before it is looked at.
ConcludeResponses ==
  /\ mode.dialect = "responses"
  /\ Concluded(IF server.choice = "required" THEN server.reply.calls ELSE Kept(server.reply.calls),
               TextOut \cup {IF server.reply.text = "claim" THEN "claim" ELSE "text"})

\* The calls of a batch run in order, up to one that has run in this request before.
Ran(works) ==
  LET repeats == {i \in DOMAIN works : works[i] \in server.seen \/ \E j \in 1..(i - 1) : works[j] = works[i]}
      done == {i \in DOMAIN works : \A j \in repeats : i < j}
  IN  [seen |-> server.seen \cup {works[i] : i \in done}, stopped |-> repeats # {}]

\* runToolLoop: calls for the client go to it, and those for the server of the same batch are
\* forgotten; else the server runs them and asks again with their results.
Act ==
  LET works == server.reply.calls
      theirs == RestrictValues(works, LAMBDA w : w \notin Local)
      again == HasCalls(works) /\ ~HasCalls(theirs)
      ran == Ran(works)
  IN  /\ At("act")
      /\ \/ ~HasCalls(works) /\ Leave("text")
         \/ HasCalls(theirs) /\ Hand(theirs)
         \/ again /\ server.asks >= MaxLoop - 1 /\ Leave("error")
         \/ /\ again /\ server.asks < MaxLoop - 1
            /\ server' = [server EXCEPT !.pc = IF ran.stopped THEN "error" ELSE "ask", !.asks = @ + 1,
                                        !.seen = ran.seen]
      /\ UNCHANGED <<mode, history, open, left>>

-----------------------------------------------------------------------------
Client == PostChat \/ PostMessages \/ PostResponses \/ RunTools \/ EndTurn \/ Retry
Server == Ask \/ AskFails \/ Repair \/ Judge \/ ConcludeChat \/ ConcludeMessages \/ ConcludeResponses \/ Act
Next == Speak \/ Trim \/ Client \/ Server

Spec == Init /\ [][Next]_vars

\* Handlers run and the service answers; a client in a turn goes on with it.
FairSpec == Spec /\ WF_vars(Client \/ Server)
-----------------------------------------------------------------------------
\* What the client knows of its turn, without the server's reading of it: the exchanges after the
\* user's last message.
Turn == {i \in DOMAIN history : \A j \in i..Len(history) : ~history[j].user}
Rounds == Cardinality(Turn)
AnsweredIn(item, w) == \E i \in DOMAIN item.calls : item.calls[i].work = w /\ item.calls[i].id \in item.answered
AnsweredRounds(w) == Cardinality({i \in Turn : AnsweredIn(history[i], w)})

Lists == mode.dialect # "responses"

\* Types; the client holds results of its own calls only, the server runs its own tools only, and no
\* handler asks the model more often than its loop and its retries allow (runToolLoop,
\* parseResponsesSimulationWithRetry).
TypeOK ==
  /\ mode \in [dialect : Dialects, looped : BOOLEAN]
  /\ \A i \in DOMAIN history :
       /\ history[i].user \in BOOLEAN /\ history[i].progress \in BOOLEAN
       /\ AreCalls(history[i].calls) /\ history[i].answered \subseteq Ids(history[i].calls)
  /\ open \in BOOLEAN
  /\ server.pc \in PC /\ server.choice \in ToolChoices \cup {"auto"}
  /\ server.asks \in 0..(MaxLoop + 2) /\ server.reply \in Replies /\ server.seen \subseteq Local
  /\ AreCalls(server.calls) /\ server.ledger.rounds \in Nat /\ server.ledger.completed \subseteq Call
  /\ left \in [turns : 0..MaxTurns, mishaps : 0..MaxMishaps]

\* A client that posts back what it was given, in order or interrupted, complete or with calls left
\* unanswered, trimmed or repeated, is never refused as malformed (validateToolResultMessages).
HonestClientsAccepted == ~At("bad")

\* A turn never drives more than one round above the limit, whatever the dialect calls a message of
\* the user (exceededToolRoundLimit over activeToolMessages), in the dialects whose calls are read.
RoundsBounded == Lists => Rounds <= MaxRounds + 1

\* Of one turn, no third round with the same call gets a result, unless the server runs tools itself
\* (dropSettledToolCalls).
RepeatsStop == Lists /\ ~mode.looped => \A w \in Work : AnsweredRounds(w) <= 2

\* A client that goes on with its turn gets to its end, with an answer or a refusal.
TurnsEnd == Lists /\ open ~> ~open

\* "want the settled repeat dropped on the Responses path" (api_settledcalls_test.go:121): violated,
\* the calls of a Responses history are never read.
SettledRepeatsDropped == ~mode.looped => \A w \in Work : AnsweredRounds(w) <= 2

\* "The prompt asks the model to obey it, but a model that ignores the instruction must not reach the
\* client, so it is enforced here as well" (schema.go:43): violated, nobody sets the choice.
NoneMeansNone == server.choice = "none" => ~At("calls")
=============================================================================
