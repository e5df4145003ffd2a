------------------------------ MODULE Rotation ------------------------------
(***************************************************************************)
(* The choice of an account for a request: nextRotationAccount of           *)
(* pkg/webadmin/admin.go over the round robin of accounts.Store and the     *)
(* health book of account_health.go.  A request holds rotationMu from its   *)
(* first look at the rotation state until EnsureValid has answered; the     *)
(* settings it goes by were read before.  Meanwhile the admin plane deletes *)
(* accounts, signs them in, switches accounts and changes the settings.     *)
(*                                                                          *)
(* Nothing in the program calls MarkFailure and MarkSuccess: the health     *)
(* book of a running server stays empty (told = FALSE), and an account that *)
(* fails is chosen like any other.  rotation_test.go reports failures       *)
(* itself; told = TRUE is the rotation as those tests use it.               *)
(*                                                                          *)
(* EnsureValid (module AccountStore) is one step here: it fails for an      *)
(* account that is gone or dead.                                            *)
(***************************************************************************)
EXTENDS Naturals, Sequences, FiniteSets, SequencesExt

CONSTANTS
  Account,
  NoAccount,  \* the empty account id
  Request,    \* goroutines inside nextRotationAccount
  Nobody,     \* the holder of a free rotationMu
  Limits,     \* values of MaxRequestsPerAccount that may be configured
  MaxProbe,   \* maxAccountProbe
  Reports,    \* {FALSE}: the program; {TRUE}: somebody reports failures, as
              \* only rotation_test.go does
  MaxEvents   \* bound: administrative and external events

ASSUME NoAccountAssumption == IsFiniteSet(Account) /\ NoAccount \notin Account
ASSUME NobodyAssumption == Nobody \notin Request
ASSUME LimitsAssumption == Limits \subseteq Nat /\ Limits # {}
ASSUME MaxProbeAssumption == MaxProbe \in Nat \ {0}
ASSUME ReportsAssumption == Reports \subseteq BOOLEAN /\ Reports # {}
ASSUME MaxEventsAssumption == MaxEvents \in Nat

VARIABLES
  accounts,      \* s.data.Accounts
  nextIdx,       \* Store.nextIdx
  health,        \* accountHealth, by account
  told,          \* whether anybody calls MarkFailure and MarkSuccess
  dead,          \* external: accounts that cannot be given a valid token
  refused,       \* history: accounts whose failure a request has met
  settings,      \* AutoRotateAccounts and MaxRequestsPerAccount
  rotationID, rotationCount,
  holder,        \* the holder of rotationMu
  pc, cfg, probes, chosen,  \* each request's program counter and locals
  switching,     \* the account a switchToAccount has checked, before it locks
  events,        \* events so far (MaxEvents)
  shunned,       \* history: accounts unusable ever since a request came in
  last, kept     \* history: the latest choice, and whether nothing disturbed it

request == <<holder, pc, cfg, probes, chosen>>
rotation == <<rotationID, rotationCount>>
outside == <<told, dead, refused>>
vars == <<accounts, nextIdx, health, outside, settings, rotation, request,
          switching, events, shunned, last, kept>>

Setting == [auto: BOOLEAN, max: Limits]

Present(a) == a \in Range(accounts)
Available(a) == health[a] = "ok"
Usable(a) == Present(a) /\ Available(a)

Init ==
  /\ accounts = SetToSeq(Account)
  /\ nextIdx = 0
  /\ health = [a \in Account |-> "ok"]
  /\ told \in Reports
  /\ dead = {}
  /\ refused = {}
  /\ settings \in Setting
  /\ rotationID = NoAccount
  /\ rotationCount = 0
  /\ holder = Nobody
  /\ pc = [r \in Request |-> "idle"]
  /\ cfg = [r \in Request |-> settings]
  /\ probes = [r \in Request |-> 0]
  /\ chosen = [r \in Request |-> NoAccount]
  /\ switching = NoAccount
  /\ events = 0
  /\ shunned = [r \in Request |-> {}]
  /\ last = NoAccount
  /\ kept = FALSE

-----------------------------------------------------------------------------
(* nextRotationAccount *)

\* The settings are read before rotationMu is taken.
Begin(r) ==
  /\ pc[r] = "idle"
  /\ cfg' = [cfg EXCEPT ![r] = settings]
  /\ pc' = [pc EXCEPT ![r] = "lock"]
  /\ shunned' = [shunned EXCEPT ![r] = {a \in Account : ~Usable(a)}]
  /\ UNCHANGED <<accounts, nextIdx, health, outside, settings, rotation, holder,
                 probes, chosen, switching, events, last, kept>>

\* Mutant: the quota counts even when rotation is disabled.
StaysWithinQuota(r) ==
  /\ rotationID # NoAccount
  /\ cfg[r].max > 0 /\ rotationCount < cfg[r].max

\* Whether the request first tries the account that served the previous one.
Stays(r) ==
  /\ rotationID # NoAccount
  /\ cfg[r].auto => cfg[r].max > 0 /\ rotationCount < cfg[r].max

Lock(r) ==
  /\ pc[r] = "lock"
  /\ holder = Nobody
  /\ holder' = r
  /\ pc' = [pc EXCEPT ![r] = IF Stays(r) THEN "stay" ELSE "probe"]
  /\ UNCHANGED <<accounts, nextIdx, health, outside, settings, rotation, cfg, probes,
                 chosen, switching, events, shunned, last, kept>>

\* The request's account is settled; EnsureValid is next.
Choose(r, a) ==
  /\ chosen' = [chosen EXCEPT ![r] = a]
  /\ pc' = [pc EXCEPT ![r] = "ensure"]
  /\ last' = a
  /\ kept' = Usable(a)

\* Mutant: the current account is not looked up in the store.
StayUnchecked(r) ==
  /\ pc[r] = "stay"
  /\ Available(rotationID)
  /\ Choose(r, rotationID)
  /\ rotationCount' = IF cfg[r].auto THEN rotationCount + 1 ELSE rotationCount
  /\ UNCHANGED <<accounts, nextIdx, health, outside, settings, rotationID, holder, cfg,
                 probes, switching, events, shunned>>

\* Get(rotationID) finds the account and it is available.  Only a rotating
\* request counts.
Stay(r) ==
  /\ pc[r] = "stay"
  /\ Usable(rotationID)
  /\ Choose(r, rotationID)
  /\ rotationCount' = IF cfg[r].auto THEN rotationCount + 1 ELSE rotationCount
  /\ UNCHANGED <<accounts, nextIdx, health, outside, settings, rotationID, holder, cfg,
                 probes, switching, events, shunned>>

\* It is gone or unavailable: look for another one.
Leave(r) ==
  /\ pc[r] = "stay"
  /\ ~Usable(rotationID)
  /\ rotationID' = IF cfg[r].auto THEN rotationID ELSE NoAccount
  /\ pc' = [pc EXCEPT ![r] = "probe"]
  /\ UNCHANGED <<accounts, nextIdx, health, outside, settings, rotationCount, holder, cfg,
                 probes, chosen, switching, events, shunned, last, kept>>

\* The request is answered and rotationMu released.
Finish(r) ==
  /\ holder' = Nobody
  /\ pc' = [pc EXCEPT ![r] = "idle"]
  /\ cfg' = [cfg EXCEPT ![r] = settings]
  /\ probes' = [probes EXCEPT ![r] = 0]
  /\ chosen' = [chosen EXCEPT ![r] = NoAccount]
  /\ shunned' = [shunned EXCEPT ![r] = {}]

\* The plain round robin (limit 0) probes once before it starts to count.
PlainRoundRobin(r) == cfg[r].auto /\ cfg[r].max = 0

ProbeLimit(r) == IF PlainRoundRobin(r) THEN MaxProbe + 1 ELSE MaxProbe

\* Store.Next: the list may have shrunk since nextIdx was stored.
Candidate == accounts[(nextIdx % Len(accounts)) + 1]

\* Mutant: the round robin does not move on.
AdvanceNot == nextIdx' = nextIdx % Len(accounts)

Advance == nextIdx' = (nextIdx + 1) % Len(accounts)

\* Next has no account at all.  The plain round robin, once it has looked at
\* an account, takes the empty one it was given, which nothing can validate.
NoAccounts(r) ==
  /\ pc[r] = "probe"
  /\ accounts = <<>>
  /\ IF PlainRoundRobin(r) /\ probes[r] > 0
       THEN rotationID' = NoAccount /\ rotationCount' = 1
       ELSE UNCHANGED rotation
  /\ Finish(r)
  /\ UNCHANGED <<accounts, nextIdx, health, outside, settings, switching, events, last,
                 kept>>

\* Next's account is available: it is the current one from now on.
Take(r) ==
  /\ pc[r] = "probe"
  /\ accounts # <<>>
  /\ Available(Candidate)
  /\ Advance
  /\ rotationID' = Candidate
  /\ rotationCount' = 1
  /\ Choose(r, Candidate)
  /\ UNCHANGED <<accounts, health, outside, settings, holder, cfg, probes, switching,
                 events, shunned>>

\* Mutant: the probing does not count.
SkipForever(r) ==
  /\ pc[r] = "probe"
  /\ accounts # <<>>
  /\ ~Available(Candidate)
  /\ Advance
  /\ UNCHANGED <<accounts, health, outside, settings, rotation, request, switching,
                 events, shunned, last, kept>>

Skip(r) ==
  /\ pc[r] = "probe"
  /\ accounts # <<>>
  /\ ~Available(Candidate)
  /\ probes[r] + 1 < ProbeLimit(r)
  /\ Advance
  /\ probes' = [probes EXCEPT ![r] = @ + 1]
  /\ UNCHANGED <<accounts, health, outside, settings, rotation, holder, pc, cfg, chosen,
                 switching, events, shunned, last, kept>>

\* "all accounts are cooling down or failing auth; try again later"
GiveUp(r) ==
  /\ pc[r] = "probe"
  /\ accounts # <<>>
  /\ ~Available(Candidate)
  /\ probes[r] + 1 >= ProbeLimit(r)
  /\ Advance
  /\ Finish(r)
  /\ UNCHANGED <<accounts, health, outside, settings, rotation, switching, events, last,
                 kept>>

\* EnsureValid answers.
Serve(r) ==
  /\ pc[r] = "ensure"
  /\ Present(chosen[r])
  /\ chosen[r] \notin dead
  /\ Finish(r)
  /\ UNCHANGED <<accounts, nextIdx, health, outside, settings, rotation, switching, events,
                 last, kept>>

Refuse(r) ==
  /\ pc[r] = "ensure"
  /\ ~Present(chosen[r]) \/ chosen[r] \in dead
  /\ refused' = refused \cup {chosen[r]}
  /\ Finish(r)
  /\ UNCHANGED <<accounts, nextIdx, health, told, dead, settings, rotation, switching,
                 events, last, kept>>

-----------------------------------------------------------------------------
(* The admin plane and the outside world *)

Event == events < MaxEvents /\ events' = events + 1

\* An account may be picked again.
Rehabilitate(a) ==
  shunned' = [r \in Request |-> shunned[r] \ {a}]

\* Something happened to account a, or to the choice of accounts as such.
Disturbed(a) == kept' = (kept /\ a # last)

\* An account is in the list once.
Delete(a) ==
  /\ Event
  /\ \E i \in 1..Len(accounts) : accounts[i] = a /\ accounts' = RemoveAt(accounts, i)
  /\ Disturbed(a)
  /\ UNCHANGED <<nextIdx, health, outside, settings, rotation, request, switching,
                 shunned, last>>

\* A sign-in revives an account, or appends it to the list.
Login(a) ==
  /\ Event
  /\ accounts' = IF Present(a) THEN accounts ELSE Append(accounts, a)
  /\ dead' = dead \ {a}
  /\ refused' = refused \ {a}
  /\ IF Available(a) THEN Rehabilitate(a) ELSE UNCHANGED shunned
  /\ UNCHANGED <<nextIdx, health, told, settings, rotation, request, switching, last,
                 kept>>

\* The identity provider no longer gives out tokens for the account.
Die(a) ==
  /\ Event
  /\ a \notin dead
  /\ dead' = dead \cup {a}
  /\ UNCHANGED <<accounts, nextIdx, health, told, refused, settings, rotation, request,
                 switching, shunned, last, kept>>

\* MarkFailure, which only the tests call: an authorization failure replaces a
\* cooldown and vice versa.
MarkFailure(a, state) ==
  /\ told
  /\ Event
  /\ health[a] # state
  /\ health' = [health EXCEPT ![a] = state]
  /\ Disturbed(a)
  /\ UNCHANGED <<accounts, nextIdx, outside, settings, rotation, request, switching,
                 shunned, last>>

\* The end of a cooldown, or MarkSuccess, which nothing calls.
Recover(a) ==
  /\ told
  /\ Event
  /\ ~Available(a)
  /\ health' = [health EXCEPT ![a] = "ok"]
  /\ Rehabilitate(a)
  /\ UNCHANGED <<accounts, nextIdx, outside, settings, rotation, request, switching,
                 last, kept>>

\* switchToAccount looks at the account first and takes rotationMu after.
CheckSwitch(a) ==
  /\ Event
  /\ switching = NoAccount
  /\ Usable(a)
  /\ switching' = a
  /\ UNCHANGED <<accounts, nextIdx, health, outside, settings, rotation, request,
                 shunned, last, kept>>

Switch ==
  /\ switching # NoAccount
  /\ holder = Nobody
  /\ rotationID' = switching
  /\ rotationCount' = 0
  /\ switching' = NoAccount
  /\ kept' = FALSE
  /\ UNCHANGED <<accounts, nextIdx, health, outside, settings, request, events, shunned,
                 last>>

SaveSettings ==
  /\ Event
  /\ settings' \in Setting \ {settings}
  /\ UNCHANGED <<accounts, nextIdx, health, outside, rotation, request, switching,
                 shunned, last, kept>>

-----------------------------------------------------------------------------
Step(r) ==
  \/ Lock(r) \/ Stay(r) \/ Leave(r)
  \/ NoAccounts(r) \/ Take(r) \/ Skip(r) \/ GiveUp(r)
  \/ Serve(r) \/ Refuse(r)

Next ==
  \/ \E r \in Request : Begin(r) \/ Step(r)
  \/ \E a \in Account :
       \/ Delete(a) \/ Login(a) \/ Die(a)
       \/ MarkFailure(a, "cooling") \/ MarkFailure(a, "authFail") \/ Recover(a)
       \/ CheckSwitch(a)
  \/ Switch
  \/ SaveSettings

\* Requests keep running, EnsureValid answers, and a request that waits for
\* rotationMu is not overtaken for ever (sync.Mutex's starvation mode).
Fairness == \A r \in Request : WF_vars(Step(r)) /\ SF_vars(Lock(r))

Spec == Init /\ [][Next]_vars
FairSpec == Spec /\ Fairness

-----------------------------------------------------------------------------
(* Properties *)

TypeOK ==
  /\ accounts \in Seq(Account)
  /\ nextIdx \in Nat
  /\ health \in [Account -> {"ok", "cooling", "authFail"}]
  /\ told \in BOOLEAN
  /\ dead \subseteq Account
  /\ refused \subseteq Account \cup {NoAccount}
  /\ settings \in Setting
  /\ rotationID \in Account \cup {NoAccount}
  /\ rotationCount \in Nat
  /\ holder \in Request \cup {Nobody}
  /\ pc \in [Request -> {"idle", "lock", "stay", "probe", "ensure"}]
  /\ cfg \in [Request -> Setting]
  /\ probes \in [Request -> 0..MaxProbe]
  /\ chosen \in [Request -> Account \cup {NoAccount}]
  /\ switching \in Account \cup {NoAccount}
  /\ events \in 0..MaxEvents
  /\ shunned \in [Request -> SUBSET Account]
  /\ last \in Account \cup {NoAccount}
  /\ kept \in BOOLEAN

\* A request is not given an account that the store had lost, or the health book
\* ruled out, before the request came in, and that has not come back since: the
\* list, the book, the pin and the settings change while it waits for rotationMu
\* and probes.  In the program this is about deleted accounts; it is about
\* reported ones only where somebody reports (told).
UnusableAccountsSkipped ==
  \A r \in Request : pc[r] = "ensure" => chosen[r] \notin shunned[r]

\* admin.go:464: with rotation disabled a stable account is pinned, so that
\* incremental sessions continue.  A request that goes by such settings gets the
\* account of the request before it, unless that account became unusable or an
\* administrator switched accounts in between.
PinnedAccountIsStable ==
  [][\A r \in Request :
       (pc[r] # "ensure" /\ pc'[r] = "ensure" /\ kept /\ ~cfg[r].auto)
       => chosen'[r] = last]_vars

\* With rotation enabled no account starves: when it stays usable and requests
\* keep coming, its turn comes again and again, however the list has changed.
NoAccountStarves ==
  \A a \in Account :
    /\ <>[](Usable(a) /\ \A r \in Request : cfg[r].auto)
    /\ []<>(\E r \in Request : pc[r] = "ensure")
    => []<>(last = a)

\* Every request is answered: the probing ends, and rotationMu is released.
EveryRequestAnswered == \A r \in Request : pc[r] # "idle" ~> pc[r] = "idle"

\* admin.go:463: the current account serves up to MaxRequestsPerAccount requests
\* before the next healthy account takes over.  When the quota is used up and
\* another account is usable, the next choice is a different account.
NextAccountTakesOver ==
  [][\A r \in Request :
       (pc[r] = "probe" /\ pc'[r] = "ensure" /\ cfg[r].auto /\ cfg[r].max > 0
          /\ rotationCount >= cfg[r].max /\ \E b \in Account \ {rotationID} : Usable(b))
       => chosen'[r] # rotationID]_vars

\* admin.go:466: "Cooling-down or auth-failing accounts are always skipped."  An
\* account that could not be given a token for an earlier request, and that nobody
\* has signed in again, is not chosen.
FailingAccountsSkipped ==
  [][\A r \in Request :
       (pc[r] # "ensure" /\ pc'[r] = "ensure") => chosen'[r] \notin refused]_vars
=============================================================================
