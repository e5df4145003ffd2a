---------------------------- MODULE AccountStore ----------------------------
(***************************************************************************)
(* The account token store of pkg/accounts/cache.go: the accounts kept in   *)
(* memory and in accounts.json, and EnsureValid, by which every request     *)
(* obtains an access token.  An expired token is refreshed by ONE of the    *)
(* goroutines that need it (refreshInflight); the others wait for that      *)
(* flight.  Beside the callers the store is changed by the admin plane: a   *)
(* PKCE login (Upsert), a deletion, an import of a backup.                  *)
(*                                                                          *)
(* Tokens are generations: the g-th token pair minted for an account is the *)
(* number g, and 0 is the empty string.  The identity provider is external: *)
(* redeemable[a] holds the refresh tokens it would still accept.  A token's *)
(* age is two watermarks per account, so that time passes independently of  *)
(* every caller: generations up to expired[a] are past ExpiresAt-30s, those *)
(* up to due[a] were last updated more than refreshInterval ago.            *)
(***************************************************************************)
EXTENDS Naturals

CONSTANTS
  Account,     \* account ids (here ID, OID and e-mail name the same account)
  NoAccount,   \* "no account": the argument of a caller that is not calling
  Caller,      \* goroutines that may be inside EnsureValid at the same time
  NFlights,    \* inflightRefresh objects that can be referenced at one time
  MaxGen,      \* bound: token pairs the identity provider mints per account
  Hooks,       \* fallbacks that are installed: a subset of {"sso", "cdp"}
  Interval,    \* whether a refreshInterval is configured
  Admin,       \* admin operations that occur: {"login", "delete", "import"}
  Faults       \* what may fail: {"net", "disk", "crash"}

ASSUME NoAccountAssumption == NoAccount \notin Account
ASSUME NFlightsAssumption == NFlights \in Nat
ASSUME MaxGenAssumption == MaxGen \in Nat \ {0}

VARIABLES
  memory,      \* s.data.Accounts, by account
  disk,        \* accounts.json
  inflight,    \* s.inflight: account |-> flight, 0 when the key is absent
  flights,     \* the inflightRefresh objects
  pc, arg, snap, tok, flight,   \* each caller's program counter and locals
  chromium,    \* the holders of cdpMu that run a Chromium
  minted,      \* external: token pairs minted so far, by account
  redeemable,  \* external: refresh tokens the provider still accepts
  expired, due \* external: the watermarks of time

locals == <<pc, arg, snap, tok, flight>>
provider == <<minted, redeemable>>
time == <<expired, due>>
vars == <<memory, disk, inflight, flights, pc, arg, snap, tok, flight,
          chromium, minted, redeemable, expired, due>>

Gen == 0..MaxGen
FlightId == 1..NFlights
Record == [status: {"absent", "online", "expired"}, at: Gen, rt: Gen]
Absent == [status |-> "absent", at |-> 0, rt |-> 0]
TokenSet == [at: Gen, rt: Gen]
NoToken == [at |-> 0, rt |-> 0]
FlightRecord == [done: BOOLEAN, ok: BOOLEAN, acc: Record]
NewFlight == [done |-> FALSE, ok |-> FALSE, acc |-> Absent]

\* The steps of refreshInflight that the winner of a flight goes through.
LeaderPC == {"redeem", "sso", "cdp", "chromium", "fail", "commit", "close", "clear"}
PC == {"idle", "join", "mark", "wait"} \cup LeaderPC

Present(a) == memory[a].status # "absent"
Leads(c) == pc[c] \in LeaderPC

-----------------------------------------------------------------------------
(* Helpers *)

\* saveLocked: write a temporary file and rename it; the rename is atomic, so
\* the file is the whole new content or the whole old one.
Save(m, ok) ==
  IF ok THEN disk' = m ELSE "disk" \in Faults /\ UNCHANGED disk

\* The record Upsert stores over old (Absent when there is none).
Upserted(old, t) ==
  [status |-> "online", at |-> t.at, rt |-> IF t.rt = 0 THEN old.rt ELSE t.rt]

\* acc.Status = "expired"
AsExpired(acc) == [status |-> "expired", at |-> acc.at, rt |-> acc.rt]

Move(c, l) == pc' = [pc EXCEPT ![c] = l]

\* EnsureValid returns: its locals are gone, and so is a flight that only this
\* caller still referred to.
Return(c) ==
  /\ Move(c, "idle")
  /\ flights' = [f \in FlightId |->
       IF \A d \in Caller \ {c} : flight[d] # f THEN NewFlight ELSE flights[f]]
  /\ arg' = [arg EXCEPT ![c] = NoAccount]
  /\ snap' = [snap EXCEPT ![c] = Absent]
  /\ tok' = [tok EXCEPT ![c] = NoToken]
  /\ flight' = [flight EXCEPT ![c] = 0]

\* The copy and the new tokens are not looked at again.
Forget(c) ==
  /\ snap' = [snap EXCEPT ![c] = Absent]
  /\ tok' = [tok EXCEPT ![c] = NoToken]

\* The provider mints the next pair of account a.
Mint(a) ==
  /\ minted[a] < MaxGen
  /\ minted' = [minted EXCEPT ![a] = @ + 1]
  /\ redeemable' = [redeemable EXCEPT ![a] = @ \cup {minted[a] + 1}]

\* Where a leader goes when its refresh, or its SSO fallback, has failed.
AfterSSO == IF "cdp" \in Hooks THEN "cdp" ELSE "fail"
AfterRedeem == IF "sso" \in Hooks THEN "sso" ELSE AfterSSO

-----------------------------------------------------------------------------
Init ==
  /\ memory = [a \in Account |-> [status |-> "online", at |-> 1, rt |-> 1]]
  /\ disk = memory
  /\ inflight = [a \in Account |-> 0]
  /\ flights = [f \in FlightId |-> NewFlight]
  /\ pc = [c \in Caller |-> "idle"]
  /\ arg = [c \in Caller |-> NoAccount]
  /\ snap = [c \in Caller |-> Absent]
  /\ tok = [c \in Caller |-> NoToken]
  /\ flight = [c \in Caller |-> 0]
  /\ chromium = {}
  /\ minted = [a \in Account |-> 1]
  /\ redeemable = [a \in Account |-> {1}]
  /\ expired = [a \in Account |-> 0]
  /\ due = [a \in Account |-> 0]

-----------------------------------------------------------------------------
(* EnsureValid *)

\* Get copies the record under the lock; what follows looks at the copy only.
\* A missing account or a token that is still good returns at once.
EnsureValid(c, a) ==
  /\ pc[c] = "idle"
  /\ Present(a)
  /\ LET acc == memory[a]
         overdue == Interval /\ acc.at <= due[a]
     IN /\ overdue \/ acc.at <= expired[a]
        /\ Move(c, IF ~overdue /\ acc.rt = 0 THEN "mark" ELSE "join")
        /\ arg' = [arg EXCEPT ![c] = a]
        /\ snap' = [snap EXCEPT ![c] = acc]
  /\ UNCHANGED <<memory, disk, inflight, flights, tok, flight, chromium,
                 provider, time>>

\* Mutant: the record is written back without looking whether it still exists.
WriteBackAnyway(c, saved) ==
  LET m == [memory EXCEPT ![arg[c]] = AsExpired(snap[c])]
  IN memory' = m /\ Save(m, saved)

\* Write the caller's copy back as "expired", if the account still exists.
WriteBack(c, saved) ==
  LET a == arg[c]
      m == [memory EXCEPT ![a] = AsExpired(snap[c])]
  IN IF Present(a) THEN memory' = m /\ Save(m, saved)
                   ELSE UNCHANGED <<memory, disk>>

\* EnsureValid of an account that has no refresh token.
MarkExpired(c) ==
  /\ pc[c] = "mark"
  /\ \E saved \in BOOLEAN : WriteBack(c, saved)
  /\ Return(c)
  /\ UNCHANGED <<inflight, chromium, provider, time>>

-----------------------------------------------------------------------------
(* refreshInflight *)

\* No goroutine holds a reference to flight f any more.
Unreferenced(f) == \A c \in Caller : flight[c] # f

\* Mutant: a flight that is already registered is not looked up.
LeadAnyway(c) ==
  /\ pc[c] = "join"
  /\ \E f \in FlightId :
       /\ Unreferenced(f)
       /\ \A g \in 1..(f - 1) : ~Unreferenced(g)
       /\ inflight' = [inflight EXCEPT ![arg[c]] = f]
       /\ flights' = [flights EXCEPT ![f] = NewFlight]
       /\ flight' = [flight EXCEPT ![c] = f]
  /\ Move(c, "redeem")
  /\ UNCHANGED <<memory, disk, arg, snap, tok, chromium, provider, time>>

\* Create the flight: the caller becomes its leader.  The object is a fresh one.
Lead(c) ==
  /\ pc[c] = "join"
  /\ inflight[arg[c]] = 0
  /\ \E f \in FlightId :
       /\ Unreferenced(f)
       /\ \A g \in 1..(f - 1) : ~Unreferenced(g)
       /\ inflight' = [inflight EXCEPT ![arg[c]] = f]
       /\ flights' = [flights EXCEPT ![f] = NewFlight]
       /\ flight' = [flight EXCEPT ![c] = f]
  /\ Move(c, "redeem")
  /\ UNCHANGED <<memory, disk, arg, snap, tok, chromium, provider, time>>

\* A flight of this account is registered: wait for it instead.
Join(c) ==
  /\ pc[c] = "join"
  /\ inflight[arg[c]] # 0
  /\ flight' = [flight EXCEPT ![c] = inflight[arg[c]]]
  /\ Move(c, "wait")
  /\ UNCHANGED <<memory, disk, inflight, flights, arg, snap, tok, chromium,
                 provider, time>>

\* <-f.done
Wake(c) ==
  /\ pc[c] = "wait"
  /\ flights[flight[c]].done
  /\ Return(c)
  /\ UNCHANGED <<memory, disk, inflight, chromium, provider, time>>

\* Refresh(acc.RefreshToken) succeeds: the provider takes the old refresh token
\* and mints a new pair.
RedeemSucceeds(c) ==
  /\ pc[c] = "redeem"
  /\ snap[c].rt \in redeemable[arg[c]]
  /\ minted[arg[c]] < MaxGen
  /\ LET g == minted[arg[c]] + 1
     IN /\ minted' = [minted EXCEPT ![arg[c]] = g]
        /\ redeemable' = [redeemable EXCEPT ![arg[c]] = (@ \ {snap[c].rt}) \cup {g}]
        /\ tok' = [tok EXCEPT ![c] = [at |-> g, rt |-> g]]
  /\ Move(c, "commit")
  /\ UNCHANGED <<memory, disk, inflight, flights, arg, snap, flight, chromium, time>>

\* Refresh fails: the provider does not accept the token, or cannot be reached
\* (MaxGen: it mints nothing more); a connection that breaks may lose the answer
\* after the provider has taken the token.
RedeemFails(c) ==
  /\ pc[c] = "redeem"
  /\ \/ snap[c].rt \notin redeemable[arg[c]]
     \/ "net" \in Faults
     \/ minted[arg[c]] = MaxGen
  /\ redeemable' \in {redeemable} \cup
       IF "net" \in Faults
       THEN {[redeemable EXCEPT ![arg[c]] = @ \ {snap[c].rt}]} ELSE {}
  /\ Move(c, AfterRedeem)
  /\ UNCHANGED <<memory, disk, inflight, flights, arg, snap, tok, flight,
                 chromium, minted, time>>

\* The SSO cookie hook mints a pair of its own, or fails.
SSOSucceeds(c) ==
  /\ pc[c] = "sso"
  /\ Mint(arg[c])
  /\ tok' = [tok EXCEPT ![c] = [at |-> minted[arg[c]] + 1, rt |-> minted[arg[c]] + 1]]
  /\ Move(c, "commit")
  /\ UNCHANGED <<memory, disk, inflight, flights, arg, snap, flight, chromium, time>>

SSOFails(c) ==
  /\ pc[c] = "sso"
  /\ Move(c, AfterSSO)
  /\ UNCHANGED <<memory, disk, inflight, flights, arg, snap, tok, flight,
                 chromium, provider, time>>

\* Mutant: cdpMu is not taken.
LaunchChromiumUnlocked(c) ==
  /\ pc[c] = "cdp"
  /\ chromium' = chromium \cup {c}
  /\ Move(c, "chromium")
  /\ UNCHANGED <<memory, disk, inflight, flights, arg, snap, tok, flight,
                 provider, time>>

\* cdpMu.Lock(): one Chromium at a time.
LaunchChromium(c) ==
  /\ pc[c] = "cdp"
  /\ chromium = {}
  /\ chromium' = {c}
  /\ Move(c, "chromium")
  /\ UNCHANGED <<memory, disk, inflight, flights, arg, snap, tok, flight,
                 provider, time>>

\* The page yields an access token and never a refresh token; cdpMu.Unlock().
ChromiumSucceeds(c) ==
  /\ pc[c] = "chromium"
  /\ minted[arg[c]] < MaxGen
  /\ minted' = [minted EXCEPT ![arg[c]] = @ + 1]
  /\ tok' = [tok EXCEPT ![c] = [at |-> minted[arg[c]] + 1, rt |-> 0]]
  /\ chromium' = chromium \ {c}
  /\ Move(c, "commit")
  /\ UNCHANGED <<memory, disk, inflight, flights, arg, snap, flight,
                 redeemable, time>>

\* Mutant: the error path leaves cdpMu locked.
ChromiumFailsLocked(c) ==
  /\ pc[c] = "chromium"
  /\ Move(c, "fail")
  /\ UNCHANGED <<memory, disk, inflight, flights, arg, snap, tok, flight,
                 chromium, provider, time>>

ChromiumFails(c) ==
  /\ pc[c] = "chromium"
  /\ chromium' = chromium \ {c}
  /\ Move(c, "fail")
  /\ UNCHANGED <<memory, disk, inflight, flights, arg, snap, tok, flight,
                 provider, time>>

\* Mutant: the error path returns without closing f.done.
CommitFailureUnclosed(c) ==
  /\ pc[c] = "fail"
  /\ \E saved \in BOOLEAN : WriteBack(c, saved)
  /\ flights' = [flights EXCEPT ![flight[c]].acc = AsExpired(snap[c])]
  /\ Move(c, "clear")
  /\ Forget(c)
  /\ UNCHANGED <<inflight, arg, flight, chromium, provider, time>>

\* Every way failed: write the copy back as expired; the flight's outcome is
\* the refresh's error.
CommitFailure(c) ==
  /\ pc[c] = "fail"
  /\ \E saved \in BOOLEAN : WriteBack(c, saved)
  /\ flights' = [flights EXCEPT ![flight[c]].acc = AsExpired(snap[c])]
  /\ Move(c, "close")
  /\ Forget(c)
  /\ UNCHANGED <<inflight, arg, flight, chromium, provider, time>>

\* Mutant: the error of saving is dropped.
CommitSuccessUnsaved(c) ==
  /\ pc[c] = "commit"
  /\ LET a == arg[c]
         acc == Upserted(memory[a], tok[c])
         m == [memory EXCEPT ![a] = acc]
     IN \E saved \in BOOLEAN :
          /\ memory' = m
          /\ Save(m, saved)
          /\ flights' = [flights EXCEPT ![flight[c]].acc = acc, ![flight[c]].ok = TRUE]
  /\ Move(c, "close")
  /\ Forget(c)
  /\ UNCHANGED <<inflight, arg, flight, chromium, provider, time>>

\* f.acc, f.err = s.Upsert(tok): memory changes even when the save fails, and
\* the save's error is the flight's.
CommitSuccess(c) ==
  /\ pc[c] = "commit"
  /\ LET a == arg[c]
         acc == Upserted(memory[a], tok[c])
         m == [memory EXCEPT ![a] = acc]
     IN \E saved \in BOOLEAN :
          /\ memory' = m
          /\ Save(m, saved)
          /\ flights' = [flights EXCEPT ![flight[c]].acc = acc, ![flight[c]].ok = saved]
  /\ Move(c, "close")
  /\ Forget(c)
  /\ UNCHANGED <<inflight, arg, flight, chromium, provider, time>>

\* close(f.done) wakes every waiter; the flight is still registered.
Close(c) ==
  /\ pc[c] = "close"
  /\ flights' = [flights EXCEPT ![flight[c]].done = TRUE]
  /\ Move(c, "clear")
  /\ UNCHANGED <<memory, disk, inflight, arg, snap, tok, flight, chromium,
                 provider, time>>

\* delete(s.inflight, acc.ID), and return.
Clear(c) ==
  /\ pc[c] = "clear"
  /\ inflight' = [inflight EXCEPT ![arg[c]] = 0]
  /\ Return(c)
  /\ UNCHANGED <<memory, disk, chromium, provider, time>>

-----------------------------------------------------------------------------
(* The admin plane, time and crashes *)

\* callbackPKCE: a sign-in mints a new pair, which Upsert stores.
Login(a) ==
  /\ "login" \in Admin
  /\ Mint(a)
  /\ LET m == [memory EXCEPT ![a] =
                 Upserted(@, [at |-> minted[a] + 1, rt |-> minted[a] + 1])]
     IN /\ memory' = m
        /\ \E saved \in BOOLEAN : Save(m, saved)
  /\ UNCHANGED <<inflight, flights, locals, chromium, time>>

\* Delete keeps the deletion in memory even if the save fails; a flight of the
\* account goes on.
Delete(a) ==
  /\ "delete" \in Admin
  /\ Present(a)
  /\ LET m == [memory EXCEPT ![a] = Absent]
     IN /\ memory' = m
        /\ \E saved \in BOOLEAN : Save(m, saved)
  /\ UNCHANGED <<inflight, flights, locals, chromium, provider, time>>

\* Import of a backup that holds one earlier pair of the account: the record
\* is replaced, and restored when the save fails.
Import(a) ==
  /\ "import" \in Admin
  /\ \E g \in 1..minted[a] :
       LET m == [memory EXCEPT ![a] = [status |-> "online", at |-> g, rt |-> g]]
       IN \E saved \in BOOLEAN :
            /\ Save(m, saved)
            /\ memory' = IF saved THEN m ELSE memory
  /\ UNCHANGED <<inflight, flights, locals, chromium, provider, time>>

\* Time passes the expiry, or the refresh interval, of every token of a so far.
Expire(a) ==
  /\ expired[a] < minted[a]
  /\ expired' = [expired EXCEPT ![a] = minted[a]]
  /\ UNCHANGED <<memory, disk, inflight, flights, locals, chromium, provider, due>>

FallDue(a) ==
  /\ Interval
  /\ due[a] < minted[a]
  /\ due' = [due EXCEPT ![a] = minted[a]]
  /\ UNCHANGED <<memory, disk, inflight, flights, locals, chromium, provider, expired>>

\* The process dies and is started again: OpenStore reads what was saved.
Crash ==
  /\ "crash" \in Faults
  /\ \E c \in Caller : pc[c] # "idle"
  /\ memory' = disk
  /\ inflight' = [a \in Account |-> 0]
  /\ flights' = [f \in FlightId |-> NewFlight]
  /\ pc' = [c \in Caller |-> "idle"]
  /\ arg' = [c \in Caller |-> NoAccount]
  /\ snap' = [c \in Caller |-> Absent]
  /\ tok' = [c \in Caller |-> NoToken]
  /\ flight' = [c \in Caller |-> 0]
  /\ chromium' = {}
  /\ UNCHANGED <<disk, provider, time>>

-----------------------------------------------------------------------------
\* What a caller does by itself once EnsureValid has been called.
Step(c) ==
  \/ MarkExpired(c) \/ Lead(c) \/ Join(c) \/ Wake(c)
  \/ RedeemSucceeds(c) \/ RedeemFails(c)
  \/ SSOSucceeds(c) \/ SSOFails(c)
  \/ LaunchChromium(c) \/ ChromiumSucceeds(c) \/ ChromiumFails(c)
  \/ CommitFailure(c) \/ CommitSuccess(c) \/ Close(c) \/ Clear(c)

Next ==
  \/ \E c \in Caller : Step(c) \/ \E a \in Account : EnsureValid(c, a)
  \/ \E a \in Account : Login(a) \/ Delete(a) \/ Import(a) \/ Expire(a) \/ FallDue(a)
  \/ Crash

\* The Go scheduler runs every goroutine that can run, the token endpoint and
\* the SSO hook answer or fail, the Chromium run has a deadline, and sync.Mutex
\* hands cdpMu to a waiter that has been kept waiting (starvation mode).
Fairness == \A c \in Caller : WF_vars(Step(c)) /\ SF_vars(LaunchChromium(c))

Spec == Init /\ [][Next]_vars
FairSpec == Spec /\ Fairness

-----------------------------------------------------------------------------
(* Properties *)

TypeOK ==
  /\ memory \in [Account -> Record]
  /\ disk \in [Account -> Record]
  /\ inflight \in [Account -> 0..NFlights]
  /\ flights \in [FlightId -> FlightRecord]
  /\ pc \in [Caller -> PC]
  /\ arg \in [Caller -> Account \cup {NoAccount}]
  /\ snap \in [Caller -> Record]
  /\ tok \in [Caller -> TokenSet]
  /\ flight \in [Caller -> 0..NFlights]
  /\ chromium \in SUBSET Caller
  /\ minted \in [Account -> 1..MaxGen]
  /\ redeemable \in [Account -> SUBSET Gen]
  /\ expired \in [Account -> Gen]
  /\ due \in [Account -> Gen]

\* At most one goroutine is refreshing an account, whatever the order in which
\* callers arrive, flights end and the admin plane changes the account: the
\* promise of refreshInflight ("exactly once per account") for overlapping
\* callers.
OneLeaderPerAccount ==
  \A c, d \in Caller : Leads(c) /\ Leads(d) /\ arg[c] = arg[d] => c = d

\* cdpMu: only one Chromium may be alive at a time, whatever accounts are being
\* recovered.
OneChromium == \A c, d \in Caller : pc[c] = "chromium" /\ pc[d] = "chromium" => c = d

\* Nobody waits for a flight that no one will end: a waiter's flight has its
\* outcome, or has a leader that is refreshing the waiter's own account.
NoStrandedWaiter ==
  \A w \in Caller : pc[w] = "wait" =>
    \/ flights[flight[w]].done
    \/ \E c \in Caller : Leads(c) /\ flight[c] = flight[w] /\ arg[c] = arg[w]

\* A flight that reports success has its tokens in accounts.json at that moment:
\* the refresh token it replaced is spent, so a restart must find the new one.
SuccessIsSaved ==
  [][\A c \in Caller :
       (flight[c] # 0 /\ flight'[c] = flight[c]
          /\ ~flights[flight[c]].ok /\ flights'[flight[c]].ok)
       => disk'[arg[c]] = flights'[flight[c]].acc]_vars

\* A flight that fails after its account was deleted does not bring the account
\* back: only new tokens or an import create an account (or a restart, from a
\* file that the deletion could not be saved to).
DeletedStaysDeleted ==
  [][\A a \in Account : ~Present(a) /\ Present(a)' =>
       memory'[a].status = "online" \/ memory' = disk]_vars

\* Every call of EnsureValid returns (or dies with the process).
EveryCallReturns == \A c \in Caller : pc[c] # "idle" ~> pc[c] = "idle"

\* cache.go:75-77: refresh tokens can be redeemed only once, so concurrent
\* requests must not each try Refresh().  No leader presents a refresh token
\* that the provider has already taken from another caller.
RefreshTokenRedeemedOnce ==
  \A c \in Caller : pc[c] = "redeem" => snap[c].rt \in redeemable[arg[c]]
=============================================================================
