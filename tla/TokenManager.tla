---------------------------- MODULE TokenManager ----------------------------
(***************************************************************************)
(* The tokens of a single-account installation (pkg/auth): four files that *)
(* every request and the background refresher read and write without a     *)
(* lock, renewed from a refresh token or, when that has expired, from the  *)
(* cookies of a browser.  The account's token ("m365") and the token for   *)
(* images ("designer") go through the same steps.  os.WriteFile truncates  *)
(* and then writes, and of two writes that overlap the longer leaves its   *)
(* tail; the cookies are replaced by a rename.                             *)
(***************************************************************************)
EXTENDS Naturals

CONSTANTS
  Requester,  \* the requests
  MaxEvents   \* bound: expirations, network and disk failures, logins, crashes

ASSUME TokenManagerAssumption == MaxEvents \in Nat /\ "refresher" \notin Requester

VARIABLES
  refresh,   \* the refresh token each family's file holds
  cache,     \* the access token each family's cache holds
  cookies,   \* the cookies of the browser's session
  proc,      \* a call of the token manager
  stopCh,    \* whether Stop has closed the channel, and set it to nil
  torn,      \* history: whether a crash, a failed write or two that overlapped have damaged the
             \* file of the account's refresh token
  events     \* how many of MaxEvents have happened

singleVars == <<refresh, cache, cookies, proc, stopCh, torn, events>>

Family == {"m365", "designer"}
Token == {"live", "dead"}
None == "none"
Empty == "empty"
Mixed == "mixed"
Stored == Token \cup {None, Empty, Mixed}
Proc == Requester \cup {"refresher"}

\* rt and at are the tokens it has been given, sso whether the cookies gave them; the refresher
\* listens to the channel it found when it last looked.
CallRecord ==
  [pc : {"idle", "cache", "read", "redeem", "sso", "openToken", "writeToken", "openCache", "writeCache",
         "stopped"},
   of : Family, rt : Token \cup {None, Mixed}, at : Token \cup {None}, sso : BOOLEAN, listens : BOOLEAN]

Idle == [pc |-> "idle", of |-> "m365", rt |-> None, at |-> None, sso |-> FALSE, listens |-> TRUE]

SingleInit ==
  /\ refresh = [f \in Family |-> IF f = "m365" THEN "live" ELSE None]
  /\ cache = [f \in Family |-> None]
  /\ cookies \in Token \cup {None}
  /\ proc = [p \in Proc |-> Idle]
  /\ stopCh = FALSE
  /\ torn = FALSE
  /\ events = 0

Event == events < MaxEvents /\ events' = events + 1
Quiet == UNCHANGED events

At(p, pc) == proc[p].pc = pc
Of(p) == proc[p].of
Goes(p, pc) == proc' = [proc EXCEPT ![p].pc = pc]

\* The call returns.  The refresher goes on to the designer token, then looks at stopCh again.
End(p) ==
  proc' = [proc EXCEPT ![p] =
    IF p = "refresher" /\ Of(p) = "m365" THEN [Idle EXCEPT !.pc = "cache", !.of = "designer"]
    ELSE [Idle EXCEPT !.listens = ~stopCh]]

Files == <<refresh, cache, cookies>>
Fixed == <<stopCh, torn>>

-----------------------------------------------------------------------------
(* The calls. *)

\* A request calls Get or GetDesignerToken.
Call(p) ==
  /\ p \in Requester /\ At(p, "idle")
  /\ \E f \in Family : proc' = [proc EXCEPT ![p] = [Idle EXCEPT !.pc = "cache", !.of = f]]
  /\ UNCHANGED <<Files, Fixed>> /\ Quiet

\* Every 30 minutes, whatever the cache holds.
RefresherTicks ==
  /\ At("refresher", "idle")
  /\ Goes("refresher", "read")
  /\ UNCHANGED <<Files, Fixed>> /\ Quiet

ReadCache(p) ==
  /\ At(p, "cache")
  /\ IF cache[Of(p)] = "live" THEN End(p) ELSE Goes(p, "read")
  /\ UNCHANGED <<Files, Fixed>> /\ Quiet

\* readRefreshToken, readBrokerRefreshToken.
Readable(token) == token \notin {None, Empty}

\* A file that cannot be decrypted is taken for a token.  Without one Refresh gives up, and the
\* designer asks the cookies.
ReadToken(p) ==
  LET token == refresh[Of(p)]
  IN  /\ At(p, "read")
      /\ CASE Readable(token) -> proc' = [proc EXCEPT ![p].pc = "redeem", ![p].rt = token]
           [] ~Readable(token) /\ Of(p) = "designer" -> Goes(p, "sso")
           [] ~Readable(token) /\ Of(p) = "m365" -> End(p)
      /\ UNCHANGED <<Files, Fixed>> /\ Quiet

\* Mutant: an answer without a refresh token is saved as it is.
SavesAny(token) == "openToken"

\* A refresh token in the answer is saved first.
Saves(token) == IF token = None THEN "openCache" ELSE "openToken"

\* AADSTS700084 and no other refusal: the cookies are asked once.
AsksCookies(p) ==
  proc[p].rt = "dead" /\ IF Of(p) = "m365" THEN cookies # None ELSE ~proc[p].sso

Redeem(p, f) ==
  /\ At(p, "redeem") /\ Of(p) = f
  /\ \/ /\ proc[p].rt = "live"
        /\ \E token \in {"live", None} :
             proc' = [proc EXCEPT ![p].pc = Saves(token), ![p].rt = token, ![p].at = "live"]
     \/ proc[p].rt # "live" /\ IF AsksCookies(p) THEN Goes(p, "sso") ELSE End(p)
  /\ UNCHANGED <<Files, Fixed>> /\ Quiet

RedeemAccount(p) == Redeem(p, "m365")
RedeemDesigner(p) == Redeem(p, "designer")

\* ReauthWithSSOCookies gives an access token, and may give a refresh token.
ReauthAccount(p) ==
  /\ At(p, "sso") /\ Of(p) = "m365"
  /\ \/ /\ cookies = "live"
        /\ \E token \in {"live", None} :
             proc' = [proc EXCEPT ![p].pc = Saves(token), ![p].rt = token, ![p].at = "live", ![p].sso = TRUE]
     \/ cookies # "live" /\ End(p)
  /\ UNCHANGED <<Files, Fixed>> /\ Quiet

\* acquireBrokerRefreshTokenViaSSO gives a refresh token, which has to be redeemed.
ReauthDesigner(p) ==
  /\ At(p, "sso") /\ Of(p) = "designer"
  /\ \/ /\ cookies = "live"
        /\ proc' = [proc EXCEPT ![p].pc = "openToken", ![p].rt = "live", ![p].at = None, ![p].sso = TRUE]
     \/ cookies # "live" /\ End(p)
  /\ UNCHANGED <<Files, Fixed>> /\ Quiet

\* The request fails, or is answered with another error.
NetworkFails(p) ==
  /\ Event
  /\ At(p, "redeem") \/ At(p, "sso")
  /\ End(p)
  /\ UNCHANGED <<Files, Fixed>>

\* writeRefreshToken, writeBrokerRefreshToken: os.WriteFile truncates ...
OpenToken(p) ==
  /\ At(p, "openToken")
  /\ refresh' = [refresh EXCEPT ![Of(p)] = Empty]
  /\ Goes(p, "writeToken")
  /\ UNCHANGED <<cache, cookies, Fixed>> /\ Quiet

\* Mutant: the call returns once the rotated token is saved, and caches nothing.
WriteTokenReturns(p) ==
  /\ At(p, "writeToken")
  /\ refresh' = [refresh EXCEPT ![Of(p)] = proc[p].rt]
  /\ torn' = IF Of(p) = "m365" THEN FALSE ELSE torn
  /\ IF proc[p].at = None THEN Goes(p, "redeem") ELSE End(p)
  /\ UNCHANGED <<cache, cookies, stopCh>> /\ Quiet

\* ... and writes; a broker's refresh token that the cookies gave is redeemed now.
WriteToken(p) ==
  /\ At(p, "writeToken")
  /\ \E overlap \in {FALSE, refresh[Of(p)] # Empty} :
       /\ refresh' = [refresh EXCEPT ![Of(p)] = IF overlap THEN Mixed ELSE proc[p].rt]
       /\ torn' = IF Of(p) = "m365" THEN overlap ELSE torn
  /\ Goes(p, IF proc[p].at = None THEN "redeem" ELSE "openCache")
  /\ UNCHANGED <<cache, cookies, stopCh>> /\ Quiet

\* Refresh reports the failure, reauthWithSSO goes on.
WriteTokenFails(p) ==
  /\ Event
  /\ At(p, "writeToken")
  /\ IF Of(p) = "m365" /\ proc[p].sso THEN Goes(p, "openCache") ELSE End(p)
  /\ torn' = (torn \/ Of(p) = "m365")
  /\ UNCHANGED <<Files, stopCh>>

OpenCache(p) ==
  /\ At(p, "openCache")
  /\ cache' = [cache EXCEPT ![Of(p)] = Empty]
  /\ proc' = [proc EXCEPT ![p].pc = "writeCache", ![p].rt = None, ![p].sso = FALSE]
  /\ UNCHANGED <<refresh, cookies, Fixed>> /\ Quiet

WriteCache(p) ==
  /\ At(p, "writeCache")
  /\ \E overlap \in {FALSE, cache[Of(p)] # Empty} :
       cache' = [cache EXCEPT ![Of(p)] = IF overlap THEN Mixed ELSE proc[p].at]
  /\ End(p)
  /\ UNCHANGED <<refresh, cookies, Fixed>> /\ Quiet

WriteCacheFails(p) ==
  /\ Event
  /\ At(p, "writeCache")
  /\ End(p)
  /\ UNCHANGED <<Files, Fixed>>

-----------------------------------------------------------------------------
(* What happens around them. *)

\* An access token expires, or comes within cacheExpiryBuffer of it.
AccessExpires(f) ==
  /\ Event
  /\ cache[f] = "live"
  /\ cache' = [cache EXCEPT ![f] = "dead"]
  /\ proc' = [p \in Proc |-> IF Of(p) = f /\ proc[p].at = "live" THEN [proc[p] EXCEPT !.at = "dead"]
                             ELSE proc[p]]
  /\ UNCHANGED <<refresh, cookies, Fixed>>

\* A refresh token lives 24 hours, and so do those it was exchanged for.
RefreshExpires(f) ==
  /\ Event
  /\ refresh[f] = "live"
  /\ refresh' = [refresh EXCEPT ![f] = "dead"]
  /\ proc' = [p \in Proc |-> IF Of(p) = f /\ proc[p].rt = "live" THEN [proc[p] EXCEPT !.rt = "dead"]
                             ELSE proc[p]]
  /\ UNCHANGED <<cache, cookies, Fixed>>

CookiesExpire ==
  /\ Event
  /\ cookies = "live" /\ cookies' = "dead"
  /\ UNCHANGED <<refresh, cache, proc, Fixed>>

\* The user logs in again: atomicWriteFile.
SaveCookies ==
  /\ Event
  /\ cookies' = "live"
  /\ UNCHANGED <<refresh, cache, proc, Fixed>>

\* APIServer.Stop.
Stop ==
  /\ ~stopCh /\ stopCh' = TRUE
  /\ UNCHANGED <<Files, proc, torn>> /\ Quiet

RefresherStops ==
  /\ stopCh /\ At("refresher", "idle") /\ proc["refresher"].listens
  /\ Goes("refresher", "stopped")
  /\ UNCHANGED <<Files, Fixed>> /\ Quiet

Die ==
  /\ Event
  /\ torn' = (torn \/ refresh["m365"] = Empty)
  /\ proc' = [p \in Proc |-> Idle]
  /\ stopCh' = FALSE
  /\ UNCHANGED Files

SingleStep(p) ==
  \/ ReadCache(p) \/ ReadToken(p)
  \/ RedeemAccount(p) \/ RedeemDesigner(p) \/ ReauthAccount(p) \/ ReauthDesigner(p)
  \/ OpenToken(p) \/ WriteToken(p) \/ OpenCache(p) \/ WriteCache(p)

SingleNext ==
  \/ \E p \in Proc : SingleStep(p) \/ Call(p) \/ NetworkFails(p) \/ WriteTokenFails(p) \/ WriteCacheFails(p)
  \/ \E f \in Family : AccessExpires(f) \/ RefreshExpires(f)
  \/ RefresherTicks \/ CookiesExpire \/ SaveCookies \/ Stop \/ RefresherStops \/ Die

\* Calls go on (every request of the token manager has an end), the ticker ticks.
SingleFairness ==
  /\ \A p \in Proc : WF_singleVars(SingleStep(p))
  /\ WF_singleVars(RefresherTicks) /\ WF_singleVars(RefresherStops)

SingleSpec == SingleInit /\ [][SingleNext]_singleVars
SingleFairSpec == SingleSpec /\ SingleFairness

-----------------------------------------------------------------------------
\* Files and calls hold what their types allow.
SingleTypeOK ==
  /\ refresh \in [Family -> Stored]
  /\ cache \in [Family -> Stored]
  /\ cookies \in Token \cup {None}
  /\ proc \in [Proc -> CallRecord]
  /\ stopCh \in BOOLEAN /\ torn \in BOOLEAN /\ events \in 0..MaxEvents

\* The account's refresh token outlives any number of exchanges: its file is without one only while
\* somebody writes it, or after a write that failed, was cut short by a crash or overlapped another.
TokenKept ==
  refresh["m365"] \notin Token =>
    torn \/ \E p \in Proc : Of(p) = "m365" /\ At(p, "writeToken")

\* Nothing can be renewed: no refresh token that lives, and no cookies to ask for one.  They are asked
\* only when a refresh token has expired, not when it is garbage or, for the account's, missing.
Hopeless(f) ==
  /\ refresh[f] # "live"
  /\ cookies # "live" \/ refresh[f] = Mixed \/ (f = "m365" /\ refresh[f] \notin Token)

\* Whatever expires and whoever writes last, the refresher brings a valid token back into each cache
\* again and again, unless in the end it is stopped for good or nothing can be renewed any more: a
\* file that is only being rewritten is no excuse, since it does not stay so.
TokensComeBack ==
  \A f \in Family : []<>(cache[f] = "live") \/ <>[](stopCh \/ Hopeless(f))

\* "Stop stops the HTTP server and background token refresher" (APIServer.Stop).
StopStops == stopCh ~> (~stopCh \/ At("refresher", "stopped"))
=============================================================================
