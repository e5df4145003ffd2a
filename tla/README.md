# A TLA+ model of M365Bridge Plus

This directory is a verification project for the Go program in this repository,
a bridge between OpenAI/Anthropic-style HTTP clients and the Microsoft 365
Copilot service.  It holds TLA+ modules that model parts of the program, TLC
configurations that model-check them on small instances, and theorems about
them that the TLA+ proof system (TLAPS) has checked for every value of the
constants.  `PROJECT.json` relates every definition to the lines of code it
stands for, and lists runs, mutants, hazards and theorems.

    tlasany M.tla                        parse a module
    tlc -config X.cfg M                  model-check module M
    tlapm StreamsProofs.tla              check the proofs (and of the other *Proofs modules)

## 1. The system

| component | where | state it keeps | operations |
|---|---|---|---|
| account token store | `pkg/accounts/cache.go`, `token.go`, `cdp.go` | accounts with their token pairs, `accounts.json`, refreshes in flight, the Chromium lock | `EnsureValid`, `Upsert`, `Delete`, `Import`, `Next` |
| deferred persistence | `pkg/webadmin/persist.go` | a dirty flag and a write lock per store, the list the loop goes through | `markDirty`, `flushNowBlocking`, the tick |
| API key store | `pkg/webadmin/keys.go` | the list of keys, its file | create, delete, revoke, update, authenticate |
| account rotation | `pkg/webadmin/admin.go`, `account_health.go` | current account, its request count, position of the round robin, health book | `nextRotationAccount`, `switchToAccount`; `MarkFailure` and `MarkSuccess` have no caller, so that the health book of a running server stays empty |
| Copilot client | `pkg/client/client.go`, `connpool.go` | pool of idle WebSockets, one goroutine and one watcher per turn | a streaming turn, `Prewarm`, `Close` |
| outbound route | `pkg/webadmin/outbound/proxy.go` | proxy clients, generation counter | `Configure`, `ConfigurePool`, `AddProxy`, `RemoveProxy` |
| proxy pool | `pkg/webadmin/outbound/pool.go`, `health.go` | proxies with their cooldowns, whose turn it is | `HTTPClient`, `WebSocketDialer`, `RoundTrip`, `CheckAll` |
| sessions | `pkg/servers/api.go` (`ContextCache`) | conversation id, client session id and turn count per session, in memory and on disk | `GetSession`, `SetSession`, `Set`, `Delete`, `SetEnabled`, `sessionTurnFor` |
| data plane | `pkg/servers/api.go` | per-request state only: a stream, a tool turn | chat completions, completions, messages, complete, responses, compact, images; buffered and streamed; the tool loop |
| tool calling | `pkg/toolcalling` | parser state across chunks, the ledger of calls | extraction, validation |
| single-account tokens | `pkg/auth` | two refresh token files, two token caches, the cookies | `Get`, `Refresh`, `GetDesignerToken`, SSO re-authentication, the background refresher |
| settings | `pkg/webadmin/settings.go`, `proxy_pool.go` | settings in memory and in `settings.json`, the switch of the proxies | `adminSettings`, `proxyPool` |
| admin plane | `pkg/webadmin` | usage, conversations, pending logins, admin sessions | the console's API |
| command line, MCP, setup | `cmd/cli`, `pkg/servers`, `pkg/setup` | - | start, shutdown |

How they interact: a request is authenticated by the key store (which stamps the
key and marks the store dirty), gets an account from the rotation (which calls
`EnsureValid` while it holds `rotationMu`), takes its turn of the session from
the `ContextCache`, and sends it over a WebSocket from the client's pool, whose
key contains the access token and the generation of the outbound route.  The
admin plane changes accounts, keys, settings and routes at any time.  Apart from
the goroutine of a turn, which hands chunks to its handler over an unbuffered
channel, everything is shared memory under mutexes that are released around I/O.

That is where the hard behaviours are: copies made under a lock and used after
it (`EnsureValid`, the settings of a request, rollbacks by index), locks held
across the network (`rotationMu`, `cdpMu`), waiting without a deadline
(`<-f.done`, the unbuffered channel), files that lag behind memory, one-time
refresh tokens that are spent before their successor is saved, and idle
connections that outlive what they were dialed for.  `PROJECT.json` lists each
of them at its line.

What makes the components correct: an account is refreshed once at a time and
nobody is left waiting; what a caller was told is in the file; a deletion lasts;
accounts that are gone are skipped and none starves (those that merely fail are
not skipped: nobody reports it); a connection has one owner,
goes through the right route and is closed in the end; a turn ends; the session
cache is one map whatever it evicts and rereads; a session's start is told once and it does
not go back to a conversation that failed; the events of a stream fit together
and end once; a client that plays by the rules of tool calling is never refused,
and a tool turn comes to an end; the last refresh token is not lost; proxies take
turns and an upload tries them all; route, settings and file come to agree.

## 2. The modules

**`AccountStore`** - the store, `EnsureValid` and `refreshInflight`.  A caller is
a goroutine with its program counter and its locals (`arg`, `snap` = the copy
`acc`, `tok`, `flight` = `f`).  The code's critical sections are the actions:
`Get` and the decision after it are `EnsureValid`; looking for a flight and
registering one is `Lead` or `Join`; `Redeem...`, `SSO...`, `...Chromium...` are
the answers of the ways to refresh, in the code's order; `CommitFailure` and
`CommitSuccess` write to the store and to the flight; `Close` and `Clear` are
separate because other callers may run between them.  Token pairs are numbers in
the order of their minting.  The identity provider is external: it accepts each
refresh token once and may lose its answer.  Expiry and the refresh interval are
watermarks that rise independently of the callers.  Saving is atomic (temporary
file and rename) and may fail.  A crash loses everything but the file.
`AccountStoreMC` adds the symmetry of the callers.

**`Persist`** - the deferred saving of one store, in the steps other goroutines
can get between: mark, clear the flag, take the write lock and copy, write.
**`ApiKeys`** EXTENDS it with the key list: its handlers change the list in one
critical section, save, and roll back by the remembered index when the save
fails.  A rollback out of bounds panics with the mutex held (`poisoned`), which
`recoverPanics` survives.  `fate` records what the callers were told.

**`Rotation`** - `nextRotationAccount` from reading the settings (`Begin`, before
the lock) over the lock, the current account (`Stay`, `Leave`) and the round robin
(`Take`, `Skip`, `GiveUp`) to the answer of `EnsureValid`, which is one step here.
While a request holds `rotationMu` the accounts, the health book and the settings
change; only `Switch` needs the lock.  The limit of the probing differs between
the plain round robin and the others (`ProbeLimit`), as in the code.  Nothing in the
program calls `MarkFailure` and `MarkSuccess`; they are steps of the model only where
`told` is true, which is the rotation as `rotation_test.go` uses it.  With `told`
false it is the one of the program, whose health book stays empty.  Both worlds are
checked and proved.  `shunned`, `refused`, `last` and `kept` are history.

**`CopilotClient`** - turns, watchers, the pool, `Prewarm` and the outbound route.
A turn takes or dials a connection, sends, receives and emits, and returns the
connection in the order of its deferred functions (`Unwatch` before `Return`).
`Deliver` is the handler's receive: a handler whose client has gone stops
receiving, and only a turn with the request's context (`Cancellable`) notices.
The route and its generation change in two steps under `clientsMu`, for which
`WebSocketDialer` waits, while `Generation()` can be read at any time.
`CopilotClientMC` adds the symmetry of the turns.

**`Sessions`** - `ContextCache` and the handlers.  `mem`, `order` and `disk` are
its memory, its order of eviction and its files; each of its methods is one
critical section, and writing a file may fail or tear it without anybody being
told.  A request is a goroutine with its locals: it sets the global switch
(`withAuth`), looks its session up by the sources of its handler (`SidOf`), may
upload images, counts its turn (`ReadTurn`, `CountTurn`: two critical sections),
sends it, and at its end adopts the conversation it got (`ReadToAdopt`, `Adopt`),
drops the session, or does neither, by `kind`.  A turn ends with an answer
(`Answer`), an error (`Fail`), nothing (`AnswerNothing`) or in the middle
(`CutShort`: the client has gone or the token limit is reached, and with it the
last chunk, which has the conversation, is drained; the session then stays as it
is).  `Continue` is the next iteration of the tool loop, `Repair` and `AskAgain` the
further questions; `AskAgain` drops the session of an empty answer first.  `owner`,
`begun`, `lagging` and `failed` are history; `failed` has what was dropped after an
error, an empty answer or before asking again (`Dropped`), by a request that was the
only one of its session.  **`SessionMap`** is the abstract
specification: one map, read and written in separate steps, that survives
restarts.  `Sessions` implements it under the mapping `map[s] = Value(s)` (memory
if the entry is there, else the file).  `SessionsMC` adds the symmetry.

**`Streams`** - a streamed answer.  `up` is the goroutine that reads the service,
`wrap` the second one with which Responses asks again, both with the one chunk
they offer on an unbuffered channel; `h` is the handler with its locals and the
events it has written.  What a chunk contains is left out.  What the filter of
thinking and the extractor of content let through, and what the parser finds in
the end, are choices; the order in which each dialect opens, continues and closes
its blocks and items, and says how it ended, is the code's.  After the last chunk
the handler writes the rest in steps: what precedes the calls (`WriteRest`), one
call at a time (`WriteCall`), the end (`WriteEnd`).  Keepalives only matter when
they fail (`Begin`).

**`ToolTurns`** - a client and the server over the requests of a tool turn.  The
server keeps nothing in between: `Handle` rebuilds the messages of the client's
`history` by dialect (`Messages`), validates them, finds the turn (`Active`), its
ledger and its rounds, as each handler does.  The model answers anything that the
parsers let through (`Replies`).  `Repair`, `Judge` and `Act` are the further
questions: repair of broken calls, the retries of Responses, the loop for the
server's own tools.  Clients are external: they speak, forget exchanges, run all
or most of the calls, and send again.  The messages of a history are a set of
records, each with its place (`at`: the item it comes from and its rank in it), and
the calls of an answer a function on their places in it, so that calls that are
dropped leave their places empty and the others keep their order.

**`TokenManager`** - `pkg/auth` and the background refresher.  A call has its
program counter and its tokens; the account's and the designer's token go through
the same steps with the differences of the code (which refusals lead to the
cookies, what is redeemed afterwards).  `os.WriteFile` is two steps, truncating
and writing; of two overlapping ones a mixture may remain (`Mixed`).

**`ProxyPool`** - the pool of outbound proxies.  `pick` and `mark` are one step
each, under the pool's mutex; an upload is an attempt, a mark, and for every replay
a pick, an attempt and a mark, with the steps of others in between.  A dial is one
attempt.  An attempt may end either way through any proxy, and a cooldown may pass
at any moment.  `StartCheck` and `Check` are the console's round through the
proxies.  `turns` and `eased` are history.

**`ProxySettings`** - the console's requests about the proxies and about any other
setting: `ListToAdd` to `Configure` change the route (`AddProxy`, `RemoveProxy`,
`ConfigurePool`; the list is copied, then configured), `GetSettings`, `ReadStatus`
and `Switch` make the settings to be saved, `Open`, `Write`, `Rename` and `Adopt`
save them, `Apply` is `adminSettings` going on to the route.  Locks are held for one
step.  Files are inodes with names, so that two handlers may have the temporary
file open, and one may rename it under the other.  `alone`, `calm`, `clean`, `overlap`
and `acked` are history: `alone` and `calm` are about whole requests, `clean` and
`overlap` about saves, from opening the temporary file to renaming it.  `ProxySettingsMC` adds the symmetry of handlers and inodes.

**`ApiKeysProofs`**, **`CopilotClientProofs`**, **`RotationProofs`**,
**`SessionsProofs`**, **`StreamsProofs`**, **`ToolTurnsProofs`** - theorems about
these modules.  **`TokenProofs`** - theorems about the two modules of tokens: it
EXTENDS `AccountStore` and `TokenManager`.  **`OutboundProofs`** - theorems about the
two modules of the outbound route: it EXTENDS `ProxyPool` and `ProxySettings`.  For
this the definitions of `TokenManager` and `ProxyPool` that would clash have names of
their own (`SingleSpec`, `SingleTypeOK`, `PoolSpec`, `PoolTypeOK`, ...).

Operators introduced by "Mutant:" are not part of the models.  Each is a variant
of the definition that follows it with a plausible bug; with the variant in its
place TLC finds the property that `PROJECT.json` names violated, which shows that
the property can fail.

## 3. The runs

| run | question | bounds |
|---|---|---|
| `AccountStore` | is a refresh single, are waiters served, are successes on disk, do deletions last - under every fallback, fault and admin operation | 2 callers, 1 account, 2 token pairs |
| `AccountStoreLive` | one Chromium at a time, and every call returns | 2 callers, 2 accounts, 2 pairs, no faults |
| `ApiKeys` | is any change forgotten, do reported creations and deletions last, does the file catch up | 2 handlers and the loop, 2 keys, 4 operations |
| `Rotation` | are accounts that are gone skipped (and failing ones, if somebody reports them), is the pin stable, does no account starve, is every request answered | 2 requests, 2 accounts, limits 0 and 2, 2 events; with and without reports |
| `CopilotClient` | has a connection one owner, is its route current, is it closed in the end | 2 turns, Prewarm, 2 connections, 1 pooled, 1 change of route |
| `CopilotClientLive` | does every turn end | one cancellable turn and one that is not |
| `Sessions` | is the cache one map, is a start told once, is a conversation that failed or gave nothing left alone | 2 goroutines, 3 requests of 3 kinds, 1 entry in memory, 1 conversation, 2 client session ids, 1 change of policy, faults |
| `Streams` | do events fit together and end once, does the reason match the calls, does everybody get to the end | 6 dialects, 4 chunks, 2 calls, limits 0, 1, 2 |
| `TokenManager` | is the refresh token kept, do valid tokens come back | 1 request and the refresher, 2 events |
| `ToolTurns` | are honest clients accepted, are rounds and repeats bounded, do turns end | 3 dialects, 2 pieces of work, 2 calls per answer, limit of 2 rounds, 2 turns, 1 mishap |
| `ProxyPool` | do proxies take turns, is an upload given up only when all failed, does every call end | 2 proxies, 2 callers |
| `ProxySettings` | do file, memory and route agree after a request that ran alone, is the file whole unless saves overlapped at the temporary file | 1 proxy, 2 handlers, 3 inodes |

All of these pass.  The type invariants (`TypeOK`) of `Sessions`, `Streams` and
`ToolTurns` are checked here; those of the other modules are left to the proofs.

*Further configurations, run by hand.*  `SessionsKinds.cfg` (module `SessionsMC`)
has all nine kinds of request and several sources of a session id, for two
requests and without a change of policy; `ProxyPoolThree.cfg` has three proxies, without the liveness.  Both pass.
Each of the following checks one sentence of the repository, and shows it refuted:

| configuration | property | the sentence |
|---|---|---|
| `AccountStoreRace` | `RefreshTokenRedeemedOnce` | "AAD refresh tokens can only be redeemed once, so a stampede of concurrent requests must not each try Refresh()" (cache.go:75-77): a caller that copied the account before a flight ended, and looks for one after it was cleared, presents the token again, and its failure marks the account as expired with the old tokens |
| `ToolTurnsRepeats` | `SettledRepeatsDropped` | "want the settled repeat dropped on the Responses path" (api_settledcalls_test.go:121): `responsesInputToMessages` turns the calls of the history into text (api.go:4813-4987), so the ledger built from it (api.go:4702) is always empty |
| `ApiKeysRollback` | `DeleteRollsBack` | "delete physically removes a key record, rolling back on persistence failure" (keys.go:135): the rollback inserts at an index beyond a list that has been shortened meanwhile, and panics with the mutex held |
| `RotationSwitch` | `NextAccountTakesOver` | "the current account serves up to MaxRequestsPerAccount requests before the next healthy account takes over" (admin.go:463): after a manual switch one account may serve two quotas |
| `RotationFailing` | `FailingAccountsSkipped` | "Cooling-down or auth-failing accounts are always skipped" (admin.go:466; likewise account_health.go:63-65): nobody calls `MarkFailure`, and an account that has just failed is chosen again |
| `CopilotClientConv` | `TurnReachesItsConversation` | every session corresponds to an independent M365 conversation (repository README.md:279): the conversation id is only in the dialing URL, and the pool key does not have it |
| `CopilotClientCancel` | `PooledIsNotClosed` | "Discard failed, timed-out, or cancelled WebSocket connections instead of returning them to the pool" (CHANGELOG.md:36) |
| `SessionsStart` | `StartIffFirst` | "isStartOfSession is true exactly on the first turn" (api.go:2370): the tool loop repeats it, a failed first turn uses it up |
| `StreamsThinking` | `ThinkingStopsFirst` | "close any open thinking block before content follows" (api.go:2669): not when thinking comes back after text |
| `TokenManagerStop` | `StopStops` | "Stop stops the HTTP server and background token refresher" (api.go:727): not a refresher that is in the middle of a refresh |
| `ProxyPoolDirect` | `EveryDialIsProxied` | "Configure outbound proxies with http / https / socks5 and automatic failover" (web/index.html:659): for http:// `New` sets `Proxy` and no `NetDialContext`, which is all the pool's dialer takes over (pool.go:104-107), so WebSockets go past them |
| `ProxySettingsTorn` | `FileIsWhole` | "a crash mid-write can never leave a truncated store file that fails to load" (atomicfile.go:5-6): overlapping saves share one temporary file; one renames it while the other has just truncated it |
| `ProxySettingsFields` | `OtherFieldsKept` | fields are merged into the current settings so that changing one does not lose others (settings.go:230-231): everybody saves what they have read before |
| `ProxySettingsStart` | `ConfiguredIsUsed` | "ApplyStartupSettingsEnv loads persisted restart-required fields before the rest of the application initializes" (settings.go:327): neither it nor `ConfigureFromEnv` has a caller, and connections are direct |
| `ProxyPoolOnce` | `ReplayedOnce` | "Replay the request on the next healthy proxy once" (pool.go:153): as often as there are proxies, and once more |
| `ProxySettingsDisabled` | `DisabledIsDirect` | "Proxy disabled; using direct connection" (web/index.html:1867): until a proxy is added or any setting is saved |
| `ToolTurnsChoice` | `NoneMeansNone` | a model that ignores tool_choice "none" "must not reach the client" (schema.go:42): nobody sets the choice that is enforced |

*Why the bounds are enough.*  The races of `AccountStore` are between two callers
of one account: one leads while the other copies, joins, waits, or comes late;
accounts share nothing but the Chromium lock, for which `AccountStoreLive` has two.
A second pair is the successor of the first; `AccountStoreRace` needs a third so
that the late leader's failure is not the provider's refusal to mint.  In `ApiKeys`
four operations let each handler change the list, and change it again, while the
other is between change and rollback.  In `Rotation` two events are enough to
delete an account and bring it back, or (where reports are made) to let one fail and recover, while a
request waits for the lock and another holds it; `maxAccountProbe` is 2 instead of
16 so that giving up happens.  In `CopilotClient` the pool holds one connection per
key instead of two, so that it is full when the second arrives.  In `Sessions` one
entry in memory makes the session and each stored response push each other out;
three requests are one that sets the session up, one that fails, and one that
comes back to it, or two that overlap and a third; the kinds are one per way to
end: the streamed chat always stores, the streamed response stores a second
session and asks again, the tool loop sends one turn twice.  In `Streams` four
chunks are thinking, text, thinking and text again, and one more than the highest
limit of two; two calls have successive indices.  In `ToolTurns` one more round
than the limit fits, a call can be repeated until it is settled and once more, and
one mishap, of any kind, may come anywhere.  In `TokenManager` two events let an
access token expire and its renewal fail, or the refresh token expire and the
cookies follow.  In `ProxyPool` two proxies let one upload take the turn that would end the other's,
or one that is passed over while it cools down come back; a proxy that is skipped
between two others needs a third (`ProxyPoolThree`, and the proofs, for any number).
In `ProxySettings` one link and one that is refused make lists of one and of none,
and requests of several links that fail half way; two handlers and the file in place
have at most three inodes.  What the other settings are matters to
`ProxySettingsFields` only, so that they have one value in the others.
(`ToolTurns` and `TokenManager` start from all their contents of
dialects and cookies.)

*Fairness.*  Goroutines that can run, run (weak fairness of each process's steps).
`sync.Mutex` hands the lock to a waiter that has been kept waiting, its starvation
mode, which is strong fairness of `LaunchChromium`, `Lock` and `Snapshot`.  In
`CopilotClient` reading has a deadline and no answer is endless: strong fairness of
completing or failing.  `AccountStore` assumes that the token endpoint answers or
fails; the code sets no timeout for it (`http.DefaultClient`), so that is an
assumption about the network.  In `Streams` silence of the service becomes an error
(`recvFinalTimeout`), so that the producer goes on; handlers, the second goroutine
and the one that drains are fair each.  In `TokenManager` the ticker
ticks, the requests of SSO have timeouts of 15 seconds (sso.go), and the token
endpoint answers or fails: its client has none (auth.go:111), so that is again an
assumption about the network.  In `ProxyPool` attempts have deadlines (30
seconds for an upload, 15 for a handshake), and the loop of `RoundTrip` goes on.
In `ToolTurns` the handlers go on, and a client
that is in a turn goes on with it: without that no server could end it.  Nothing is assumed of admin operations, faults, time
or clients; no request has to come, except in the premises of a property
(`NoAccountStarves`: requests keep coming).

*Deadlock* is checked for `TokenManager`, `ProxyPool` and `ProxySettings`, where
callers may always come.  The other
systems may simply be idle, and their models have bounds at which they stop.

## 4. What is proved

`TokenProofs` proves of `AccountStore`, for all `Account`, `Caller`, `NFlights`, `MaxGen`,
`Hooks`, `Interval`, `Admin` and `Faults` that meet the three assumptions of the
module (the non-account is no account, the bounds are numbers, at least one pair):

* `TypeCorrect`: `TypeOK` is invariant;
* `SingleFlight`: `OneLeaderPerAccount` is invariant;
* `WaitersAreServed`: `NoStrandedWaiter` is invariant;
* `ChromiumIsAlone`: `OneChromium` is invariant;
* `SuccessReachesDisk` and `DeletionLasts`: the action properties `SuccessIsSaved`
  and `DeletedStaysDeleted` hold of every step.

Single flight is not inductive, nor is the service of waiters.  That two leaders
cannot have one account follows from `Registered`: the entry of `s.inflight` for a leader's account is the
leader's own flight, so two leaders of an account have one flight, and
`OneLeaderPerFlight` says they are the same.  `Registered` survives `Clear` because
only the leader that is registered removes the entry, and `Lead` because it needs
the entry to be absent, takes an object nobody refers to, and a leader's entry is
never absent.  A waiter's flight is in use, so no `Lead` takes the object, and its
leader closes it before it stops leading (`Progress`).  `IInv` is the conjunction
with `TypeOK` and `Located`; `Invariance` is the induction, with one lemma for each
kind of step: those of the environment and of a leader, which leave the flights'
structure alone, and `Lead`, `Join`, `Wake`, `Clear` and `MarkExpired`.

`OneChromium` follows from `ChromiumHeld`, which ties the program counter to the
lock: a caller at "chromium" is the one in `cdpMu`.  `SuccessIsSaved` speaks of every
caller that refers to the flight, and `CommitSuccess` stores the record of its
leader's account, so the proof needs that the two are the same account
(`SameAccount`): a waiter's flight is done or has a leader for the waiter's account,
the flight of a leader that has not closed it is not done (`NotDoneYet`, invariant
by `StepNotDone`), and a flight has one leader.  `DeletedStaysDeleted` is proved by
cases on the step: only the actions that store a record they do not find already in
memory can create one, and those store an online record or what is on disk.

`ApiKeysProofs` proves, for any handlers, keys and number of operations, with failing
writes, rollbacks that panic, shutdowns and crashes at any step:

* `TypeCorrect`: `TypeOK` is invariant;
* `ChangesAreAnnounced`: `NothingForgotten` is invariant;
* `DeletionIsFinal`: `DeletedForever` is invariant;
* `CreationIsDurable`: `CreatedIsSaved` is invariant.

The handlers share one list and one `writeMu`, and each rolls back on its own.
`OneWriter` ties the lock to the one copy that its holder is about to write.
`InOperation` says what a handler in an operation knows: a key that is in use, and
if it deletes, the record it took out and the place it came from.  From these two:
`Unrepeated`, an id occurs once in memory, in the file and in the copy, so taking
out one record takes out the key; `Deletions`, the key that a handler is deleting is
out of memory and no other handler is deleting it - the only one that could put it
back is that handler itself, which will not do so once it has reported success;
`DeletedIsGone` and `CreatedIsKept`, the two properties extended to the copy on its
way to the file.  Without that part a writer with an old copy could undo a deletion
that was acknowledged.

`CopilotClientProofs` proves, for any turns (cancellable or not), accounts,
conversations, changes of the route, connections and limit of the pool:

* `TypeCorrect`: `TypeOK` is invariant, with the limit of each list of the pool;
* `OwnersAreUnique`: `ExclusiveConnection` is invariant;
* `RouteIsCurrent`: `NoStaleRoute` is invariant;
* `ConnectionsAreClosed`: `NothingLeaks` is invariant.

`OneOwner` says place by place what `ExclusiveConnection` counts: turns, places of
the pool and Prewarm have different connections; `PlacesPooled` gets the count from
it.  `Keyed` extends `NoStaleRoute` to the connections that nobody uses yet: those
in the pool fit the key they are filed under, the one being prewarmed fits the key
it will be filed under, and no key is ahead of the generation, which is never ahead
of the route.  Dialing establishes it because `WebSocketDialer` finds route and
generation equal.  `Keyed` needs `OneOwner`: what one turn closes or dials must not
be the connection of another.  `NothingLeaks` needs `Phases`: a watcher that is
watching has the connection its turn has, so it may be told to stop.

`RotationProofs` proves, for any requests, any finite set of accounts, any limits and
number of events:

* `TypeCorrect`: `TypeOK` is invariant;
* `UnusableAreSkipped`: `UnusableAccountsSkipped` is invariant;
* `PinHolds`: the action property `PinnedAccountIsStable` holds of every step.

A request shuns the accounts that were unusable when it came in and have not been
usable since.  `Shunning` says that they are unusable now, so whoever looks at the
list and the health book right before choosing - `Stay` and `Take` both do - cannot
choose one.  `Pinned` is about a choice that nothing has disturbed: it is the current
account, and it is usable; a request that goes by the pin then finds it at once and
never starts to probe.  That no other request makes such a choice while one is
probing follows from `Exclusive`, the ownership of `rotationMu`.

`SessionsProofs` proves, for any requests, kinds, sources, cache size of at least
one entry and bounds, with and without faults, that `Sessions` implements
`SessionMap` (`CacheImplementsMap`: `Spec => CacheIsMap`).  Its invariant has four
parts.  `CacheTyped`: memory, order and files are well typed.  `Agrees`: an entry
of memory equals its file unless the session is in `lagging`; without it an
eviction, a rereading or a restart would change the abstract map.  `RequestsTyped`
and `Sited`: the locals of a request are well typed, and it has a session wherever
it uses one.  Each action is then mapped to the abstract step it implements
(`Look`, `Write`, `Discard`, `Finish`, `Switch`, `Restart`) or to a stutter.

Three further theorems are about the same module: `TypeCorrect` (`TypeOK`), the
invariant `DropsAreFinal` (`DroppedForGood`) and the action property
`StartToldOnce` (`StartsOnce`).

`TypeOK` bounds the cache by its size, which needs `Listed`: the list in which
sessions leave the cache names those in it, each once (`Counted` relates its length
to their number), so that evicting its head makes room.

That a dropped conversation does not come back is not inductive: somebody else may
still hold it.  `ConvInv` says who may.  `Forgotten` extends `DroppedForGood` to
memory, file and the locals of every request of the session; `Apart` makes a request
that is alone the only one of its session, so that what it drops nobody holds;
`Unpublished` says that until a response is stored, every conversation is in the
session that opened it, so that no other session hands it back; `Named` that nobody
asks for a response before it is stored; `Opened` that new conversations are new.
Each action is described once by what it does to the cache (`Hands`), to its request
(`Carries`) and to the conversations (`Opens`), with all others kept, and the five
parts are preserved by any such step.

`StartsOnce` looks at a client session id and whether its start was told to the
service.  `ClientInv` follows the ids from the map to the request: `Clients` says that
an id in a state with turns has been started, `Turnless` that a request holds no
client session before its turn (one of the Responses API never), and `Minted` that an
id just made has not been told before and is nobody else's.  That the start is told in
the first turn sent with its id is not claimed: of two requests, the second may be
faster (`SessionsStart` refutes the comment that says so).

`StreamsProofs` proves, for any dialects, chunks, calls and limits:

* `TypeCorrect`: `TypeOK` is invariant, with the bound on the attempts of Responses;
* `BlocksNest`: `EventsNest` is invariant;
* `RoleSaidOnce`: `RoleOnce` is invariant;
* `OneEnd`: `EndsOnce` is invariant;
* `ReasonIsTrue`: `ReasonMatchesCalls` is invariant.

All four are about the whole list of events, while a handler only knows its locals.
The invariant says what the locals know of the list.  `Nest(out, n, m, L)`: the events
of `out` come as they should, `n` blocks have started, `m` have stopped, and those of
`L` are open; one lemma for each kind of event says what appending it does to these
three.  Until the last chunk `Telling` ties them to the locals: for Anthropic at most
one block is open, its index is `blockIndex` (`OneBlock`); for Responses the open items
are those the flags name, at the indexes that are remembered or computed again
(`Items`); for Chat the role has been said if and only if anything has (`Spoken`).
While calls are written `Calling` says that nothing is open, that the next index is the
number of blocks, and that a call has been sent exactly if fewer are left than there
were.  `Ended` is what is claimed of an answer at its end.  `ThinkingKeeps` and
`TextKeeps` show that a chunk keeps `Telling` in every dialect, with the filter holding
back what it likes and the limit anywhere; `FinishEnds` that what is written after the
last chunk leads to `Calling` or, with an error or a client that has gone, to `Ended`;
`CallKeeps` and `EndWith` do the rest.  TLC has checked `HandlerInv` and `ChannelsInv`
as invariants of the run `Streams` (with the quantifier over `Nat` in `Calling` bounded).
The premise `~h.mixed` of `EventsNest` is needed: `StreamsThinking` shows what happens
without it.

Of `TokenManager`, `TokenProofs` proves `SingleTypeCorrect` (`SingleTypeOK`) and
`RefreshTokenKept` (`TokenKept`) for any requests and any number `MaxEvents` of
events.  `TokenKept` is strengthened by what the program counter says of a call: one
that is about to write the account's file has a token to write (`KeptInv`), because
`Saves` goes there only with one.

`OutboundProofs` proves of `ProxyPool`, for any number of proxies and any finite set of callers:

* `PoolTypeCorrect`: `PoolTypeOK` is invariant, with the bound on replays;
* `TurnsAreFair`: `FairShare` is invariant;
* `UploadsFailOver`: `FailsOver` is invariant.

That a proxy is passed at most once is not inductive.  `Queued` says where the ones
that have passed it are: behind it, going round from `next` (`Ahead`).  A pick takes
the first available proxy, so a proxy that has been passed and is available is
before those that passed it, and comes first; `MovedUp` is the arithmetic of the
ring.  `Failing` counts for an upload that no recovery has eased: the proxies that
cool down, without the one being tried, are at least as many as its replays, because
each replay is given a proxy that is not cooling down as long as there is one, and
then makes it cool down.  After N + 1 replays that is all of them; and if the loop is
ended by the first proxy, which is cooling down, `pick` found no other.

`OutboundProofs` proves of `ProxySettings`, for any proxies, contents of the other
settings, handlers and files, with refused links, failing writes and restarts:

* `TypeCorrect`: `TypeOK` is invariant;
* `LoneChangesSettle`: `LoneChangeSettles` is invariant;
* `FilesAreWhole`: `WholeUnlessOverlapped` is invariant.

Both properties are about what nobody else disturbs.  `Sole` says that a handler that
has not been overlapped is the only one at work.  For it `OnDisk` follows a save step
by step: the temporary file is the handler's own and torn, then it holds the
handler's settings, then it is the file.  `Owning` says the same of a save that no
other has overlapped (`clean`), whatever the rest of the request met; it is what
`FilesAreWhole` needs, since an undisturbed save puts a whole file in place of one
that an overlap has torn.  `Followed` says that the requests that
have changed the route save what it is.  `GoesOnInv` and `EndInv` carry these parts
over a step for all handlers at once, so that each action needs to be looked at for
its own handler only.

`ToolTurnsProofs` proves, for any dialects, choices, work, tools of the server, limits,
calls in an answer, turns and mishaps:

* `TypeCorrect`: `TypeOK` is invariant;
* `HonestAreAccepted`: `HonestClientsAccepted` is invariant;
* `RoundsAreBounded`: `RoundsBounded` is invariant;
* `RepeatsEnd`: `RepeatsStop` is invariant.

The server knows only what the messages say; the properties are about the client.
Ids join the two.  `Unique` says that no two calls of the history, or of an answer on
its way to it, have one id; `Bounded`, that there is a greatest id, so that the new
ones of `Labelled` exist and differ from all others.  With `Exchanges` (who has calls
is no message of the user) this makes every history valid (`HonestHistory`), whatever
was forgotten, left out or sent again.  For a dialect that has lists of messages,
`ActiveIsTurn` says that the messages the server takes for the turn are those of the
items of `Turn`; then the rounds it counts are the exchanges of the turn
(`RoundsCounted`, a bijection), and a call has been completed at least as often as it
was answered in different rounds (`AnsweredIsCompleted` and `RepeatsCounted`, an
injection).  What the server learned from a request is still true when it hands out calls, and when
the client has run them: `Informed` keeps the ledger of a handler equal to that of
the history, `Room` and `Unsettled` carry the two limits from `Handle` over the
handler's steps to `RunTools`, which adds the one round there was room for.  `Trim`
and `Speak` only shrink the turn (`Removed`, `Rests`).  Each kind of step - the
history stays, the handler proceeds, ends, hands out calls, the client runs them - has
one lemma, and every action is shown to be of its kind.  TLC has checked the parts of
`IInv` on the instance of the run `ToolTurns` first (the quantifier in `Bounded` over
0..20).

Only model-checked: liveness, which is out of the prover's reach - `EveryCallReturns`,
`EventuallySaved`, `NoAccountStarves`, `EveryRequestAnswered`, `EveryTurnEnds`,
`StreamEnds`, `TokensComeBack`, `TurnsEnd` and `EveryCallEnds`.  Every other property
of the runs is the statement of a theorem.

## 5. What is not modelled

The translation of requests and answers between the dialects, the parsing of tool
calls out of model output, prompts, images, token counting, encryption and logging
are data and wording; where they decide something the models have a choice over
their outcomes.  Chromium, the SSO pages, the proxies themselves and the Copilot
service are external: only their possible answers occur.  Accounts have one name
here, where the code matches ID, OID and e-mail.  `Persist` is modelled for one
store; each store has its own flag and locks, and they share only the loop.

`Sessions` repairs at most once per request, where the tool loop may repair in
every iteration, and gives an image edit without a source no session, where the
code makes one up that nobody can name again.  `Sessions` and `CopilotClient` are
not composed: a turn is one step of the one and a process of the other.

Not reached by the program: `MarkFailure` and `MarkSuccess`, which only tests call
(modelled, and taken only where `told`).  Not reached, and so left out: `nextHealthyAccount`,
`StopPersistLoop`, `GetTokenForScope`, the automatic cleanup, the session resolver,
the recording of conversations, and the M365 cloud endpoints, whose client nobody
initialises and which always answer 503.  A watcher that is scheduled for the first
time after its turn is over is left out.  `Pool.Remove` has no caller, and an upload
without a body that can be replayed does not exist.  Of the sing-box nodes only the
proxy they add is modelled (as a link); the deletion of the last node, which ignores
the errors of removing it, is not.

Without a module: usage and statistics (stores on top of `Persist` that only
count), admin sessions and the login
limiter (functions of the clock under one mutex each), the file and process tools,
deployments, versions and the catalog, setup, MCP and the web console.

## 6. Plan

1. `AccountRecords`: matching by ID, OID and e-mail in `Upsert`, `Import`, `Get`
   and `Delete` against the reference "one record per person".
2. The pending logins of the admin plane.
