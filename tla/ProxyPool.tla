------------------------------ MODULE ProxyPool ------------------------------
(***************************************************************************)
(* The pool of outbound proxies: pkg/webadmin/outbound/pool.go and health.go. *)
(* Goroutines upload files (HTTPClient, poolRoundTripper) and dial          *)
(* WebSockets (WebSocketDialer) through proxies that the pool hands out in  *)
(* turn; a proxy that fails cools down, and while all cool down it hands    *)
(* them out all the same.  The console checks all proxies in order.         *)
(*                                                                          *)
(* A pool is never changed: a change of the configuration makes another one *)
(* (ProxySettings), and who has picked from the old one ends with it.  So a *)
(* proxy is its index in entries here.  Every attempt has a deadline, and   *)
(* may end either way whatever proxy it goes through.                       *)
(***************************************************************************)
EXTENDS Naturals, FiniteSets

CONSTANTS
  N,          \* len(entries); with none the client connects directly
  Caller,     \* goroutines that upload or dial
  PlainHTTP   \* proxies configured with an http:// URL

ASSUME NAssumption == N \in Nat \ {0}
ASSUME CallerAssumption == IsFiniteSet(Caller)
ASSUME PlainHTTPAssumption == PlainHTTP \subseteq 0..(N - 1)

VARIABLES
  next,      \* Pool.next
  cooling,   \* proxies whose cooldown has not passed
  phase, kind, \* each caller's program counter and errand
  entry,     \* poolRoundTripper.entry, or the dialer's sticky proxy
  at,        \* the proxy of the attempt under way
  replays,   \* i in RoundTrip: how often another proxy was asked for
  checking,  \* the proxy CheckAll comes to next, N outside of it
  turns,     \* history: turns[p][q], how often q was picked since p last was
             \* picked or cooled down
  eased      \* history: callers since whose start a proxy has recovered

caller == <<phase, kind, entry, at, replays>>
poolVars == <<next, cooling, caller, checking, turns, eased>>

Index == 0..(N - 1)
Available(p) == p \notin cooling

PoolInit ==
  /\ next = 0
  /\ cooling = {}
  /\ phase = [c \in Caller |-> "idle"]
  /\ kind = [c \in Caller |-> "dial"]
  /\ entry = [c \in Caller |-> 0]
  /\ at = [c \in Caller |-> 0]
  /\ replays = [c \in Caller |-> 0]
  /\ checking = N
  /\ turns = [p \in Index |-> [q \in Index |-> 0]]
  /\ eased = {}

-----------------------------------------------------------------------------
(* pick and mark, each under the pool's mutex *)

\* How far p is from next, going round.
Ahead(p) == IF p >= next THEN p - next ELSE p + N - next

\* The first available proxy from next on; with none the one at next.
Picks(p) ==
  \/ /\ Available(p)
     /\ \A q \in Index : Available(q) => Ahead(p) <= Ahead(q)
  \/ p = next /\ cooling = Index

\* Mutant: next stays at the proxy that is returned.
StayOn(p) == p

After(p) == (p + 1) % N

\* The state change of pick, when it returns p.
Pick(p) ==
  /\ Picks(p)
  /\ next' = After(p)
  /\ turns' = [r \in Index |->
       IF r = p \/ ~Available(r) THEN [q \in Index |-> 0]
       ELSE [turns[r] EXCEPT ![p] = @ + 1]]

\* mark without an error ends a cooldown.
MarkGood(p) ==
  /\ cooling' = cooling \ {p}
  /\ eased' = eased \cup {c \in Caller : ~Available(p) /\ phase[c] # "idle"}
  /\ UNCHANGED turns

\* mark with an error begins one.
MarkBad(p) ==
  /\ cooling' = cooling \cup {p}
  /\ turns' = [turns EXCEPT ![p] = [q \in Index |-> 0]]
  /\ UNCHANGED eased

-----------------------------------------------------------------------------
(* Uploads and dials *)

Goes(c, here, there) == phase[c] = here /\ phase' = [phase EXCEPT ![c] = there]

\* HTTPClient picks when the client is made, a new dialer when it is used.
Call(c, k) ==
  /\ Goes(c, "idle", "try")
  /\ kind' = [kind EXCEPT ![c] = k]
  /\ \E p \in Index :
       /\ Pick(p)
       /\ entry' = [entry EXCEPT ![c] = p]
       /\ at' = [at EXCEPT ![c] = p]
  /\ UNCHANGED <<cooling, replays, checking, eased>>

Succeed(c) ==
  /\ Goes(c, "try", "done")
  /\ MarkGood(at[c])
  /\ UNCHANGED <<next, kind, entry, at, replays, checking>>

\* Mutant: every failure is put down to the proxy of the first attempt.
FailMarksEntry(c) ==
  /\ Goes(c, "try", IF kind[c] = "upload" THEN "again" ELSE "failed")
  /\ MarkBad(entry[c])
  /\ UNCHANGED <<next, kind, entry, at, replays, checking>>

\* A dial does not go on to another proxy.  Uploads have a body that can be
\* replayed.
Fail(c) ==
  /\ Goes(c, "try", IF kind[c] = "upload" THEN "again" ELSE "failed")
  /\ MarkBad(at[c])
  /\ UNCHANGED <<next, kind, entry, at, replays, checking>>

\* The loop of RoundTrip goes on.
Replays(c) == replays[c] < N + 1

Replay(c) ==
  /\ Replays(c)
  /\ \E p \in Index :
       /\ p # entry[c]
       /\ Pick(p)
       /\ at' = [at EXCEPT ![c] = p]
  /\ Goes(c, "again", "try")
  /\ replays' = [replays EXCEPT ![c] = @ + 1]
  /\ UNCHANGED <<cooling, kind, entry, checking, eased>>

\* Mutant: the loop skips that proxy, and does not count the iteration.
ComeRoundOn(c) ==
  /\ Replays(c)
  /\ Pick(entry[c])
  /\ Goes(c, "again", "again")
  /\ UNCHANGED <<cooling, kind, entry, at, replays, checking, eased>>

\* The pool has come round to the proxy of the first attempt.
ComeRound(c) ==
  /\ Replays(c)
  /\ Pick(entry[c])
  /\ Goes(c, "again", "failed")
  /\ UNCHANGED <<cooling, kind, entry, at, replays, checking, eased>>

\* The loop is over.
Exhaust(c) ==
  /\ ~Replays(c)
  /\ Goes(c, "again", "failed")
  /\ UNCHANGED <<next, cooling, kind, entry, at, replays, checking, turns, eased>>

\* The caller returns, and its locals are gone.
Leave(c) ==
  /\ \E end \in {"done", "failed"} : Goes(c, end, "idle")
  /\ kind' = [kind EXCEPT ![c] = "dial"]
  /\ entry' = [entry EXCEPT ![c] = 0]
  /\ at' = [at EXCEPT ![c] = 0]
  /\ replays' = [replays EXCEPT ![c] = 0]
  /\ eased' = eased \ {c}
  /\ UNCHANGED <<next, cooling, checking, turns>>

-----------------------------------------------------------------------------
(* The console's check, and the clock *)

StartCheck ==
  /\ checking = N
  /\ checking' = 0
  /\ UNCHANGED <<next, cooling, caller, turns, eased>>

\* Check marks a proxy by the answer to a request of its own; an answer with an
\* error status is good enough.
Check ==
  /\ checking < N
  /\ MarkGood(checking) \/ MarkBad(checking)
  /\ checking' = checking + 1
  /\ UNCHANGED <<next, caller>>

CoolDown(p) ==
  /\ ~Available(p)
  /\ MarkGood(p)
  /\ UNCHANGED <<next, caller, checking>>

-----------------------------------------------------------------------------
PoolNext ==
  \/ \E c \in Caller :
       \/ \E k \in {"upload", "dial"} : Call(c, k)
       \/ Succeed(c) \/ Fail(c)
       \/ Replay(c) \/ ComeRound(c) \/ Exhaust(c)
       \/ Leave(c)
  \/ StartCheck \/ Check
  \/ \E p \in Index : CoolDown(p)

PoolSpec == PoolInit /\ [][PoolNext]_poolVars

\* Attempts have deadlines, and RoundTrip goes on.
Proceed(c) == Succeed(c) \/ Fail(c) \/ Replay(c) \/ ComeRound(c) \/ Exhaust(c)

PoolFairSpec == PoolSpec /\ \A c \in Caller : WF_poolVars(Proceed(c))

-----------------------------------------------------------------------------
(* Properties *)

PoolTypeOK ==
  /\ next \in Index
  /\ cooling \subseteq Index
  /\ phase \in [Caller -> {"idle", "try", "again", "done", "failed"}]
  /\ kind \in [Caller -> {"upload", "dial"}]
  /\ entry \in [Caller -> Index]
  /\ at \in [Caller -> Index]
  /\ replays \in [Caller -> 0..(N + 1)]
  /\ checking \in 0..N
  /\ turns \in [Index -> [Index -> Nat]]
  /\ eased \subseteq Caller

\* Between two turns of an available proxy no other proxy has two, whoever
\* picks, fails, checks and recovers meanwhile (pick goes on behind the proxy it
\* returned, not behind the one it looked at first).
FairShare == \A p, q \in Index : turns[p][q] <= 1

\* An upload is given up only when every proxy has failed: unless one recovers
\* while it is under way, all of them are cooling down then (RoundTrip's loop,
\* in which other goroutines take turns of the pool).
FailsOver ==
  \A c \in Caller :
    phase[c] = "failed" /\ kind[c] = "upload" /\ c \notin eased => cooling = Index

\* Every upload and every dial ends: others cannot keep an upload going round by
\* taking the turns that would end its loop.
EveryCallEnds == \A c \in Caller : phase[c] = "try" ~> phase[c] \in {"done", "failed"}

\* "Replay the request on the next healthy proxy once" (pool.go:153).
ReplayedOnce == \A c \in Caller : replays[c] <= 1

\* With proxies configured "with http / https / socks5" (web/index.html:659) no
\* connection goes past them.  The pool's dialer uses the NetDialContext of the
\* proxy's own dialer; for http:// that one has only Proxy set, and the
\* connection is direct.
EveryDialIsProxied ==
  \A c \in Caller : phase[c] = "try" /\ kind[c] = "dial" => at[c] \notin PlainHTTP
=============================================================================
