---------------------------- MODULE OutboundProofs ----------------------------
(***************************************************************************)
(* Theorems about the outbound proxies.  ProxyPool, for any number of       *)
(* proxies and callers: the proxies take turns, and an upload is given up   *)
(* only when all of them have failed.  ProxySettings, for any proxies,      *)
(* settings, handlers and files: a request that runs alone sets everything  *)
(* right, and a file that is not whole takes two saves that overlap.        *)
(***************************************************************************)
EXTENDS ProxyPool, ProxySettings, FiniteSetTheorems, TLAPS

-----------------------------------------------------------------------------
(* The invariant of the pool. *)

\* A proxy that cools down has no turns to wait for; one that waits for its turn
\* has been passed only by proxies that are behind it now, going round from next.
Waiting(p, q) ==
  /\ ~Available(p) => turns[p][q] = 0
  /\ turns[p][q] <= 1
  /\ turns[p][q] # 0 => Ahead(p) < Ahead(q)

Queued == \A p, q \in Index : Waiting(p, q)

\* What an upload that nothing has eased knows: the proxy of its first attempt
\* cools down, and there are at least as many others as it has asked for again.
Knows(c) ==
  /\ phase[c] = "try" /\ replays[c] = 0 => at[c] = entry[c]
  /\ phase[c] = "try" /\ replays[c] > 0 => entry[c] \in cooling
  /\ phase[c] = "try" =>
       cooling = Index \/ Cardinality(cooling \ {at[c]}) >= replays[c]
  /\ phase[c] = "again" => entry[c] \in cooling
  /\ phase[c] = "again" => cooling = Index \/ Cardinality(cooling) >= replays[c] + 1
  /\ phase[c] = "failed" => cooling = Index

Counts(c) ==
  /\ phase[c] = "idle" => replays[c] = 0
  /\ kind[c] = "upload" /\ c \notin eased => Knows(c)

Failing == \A c \in Caller : Counts(c)

\* The inductive invariant.
PoolInv == PoolTypeOK /\ Queued /\ Failing

-----------------------------------------------------------------------------
(* The ring *)

\* After goes round.
LEMMA AfterRound ==
  ASSUME NEW p \in Index
  PROVE  After(p) \in Index /\ After(p) = IF p = N - 1 THEN 0 ELSE p + 1
<1>1. N \in Nat /\ N > 0 /\ p \in Nat /\ p <= N - 1
  BY NAssumption DEF Index
<1>2. CASE p = N - 1
  <2>1. After(p) = N % N
    BY <1>1, <1>2 DEF After
  <2>2. N % N = 0
    BY <1>1
  <2> QED
    BY <1>1, <1>2, <2>1, <2>2 DEF Index
<1>3. CASE p # N - 1
  <2>1. p + 1 \in 0..(N - 1)
    BY <1>1, <1>3
  <2>2. (p + 1) % N = p + 1
    BY <1>1, <2>1
  <2> QED
    BY <2>1, <2>2, <1>3 DEF After, Index
<1> QED
  BY <1>2, <1>3

\* A step of next behind p moves everyone up, and those before it to the end.
LEMMA MovedUp ==
  ASSUME next \in Index, NEW p \in Index, next' = After(p), NEW q \in Index
  PROVE  /\ Ahead(q) \in 0..(N - 1) /\ Ahead(q)' \in 0..(N - 1)
         /\ Ahead(q)' = IF Ahead(q) > Ahead(p) THEN Ahead(q) - Ahead(p) - 1
                        ELSE Ahead(q) - Ahead(p) - 1 + N
         /\ Ahead(q) = Ahead(p) => q = p
<1>1. /\ N \in Nat /\ N > 0
      /\ next \in Nat /\ next <= N - 1
      /\ p \in Nat /\ p <= N - 1 /\ q \in Nat /\ q <= N - 1
  BY NAssumption DEF Index
<1>2. next' = IF p = N - 1 THEN 0 ELSE p + 1
  BY AfterRound
<1> QED
  BY <1>1, <1>2, SMT DEF Ahead

-----------------------------------------------------------------------------
(* What pick and mark do *)

LEMMA PickQueues ==
  ASSUME PoolTypeOK, Queued, NEW p \in Index, Pick(p), cooling' = cooling
  PROVE  /\ next' \in Index
         /\ turns' \in [Index -> [Index -> Nat]]
         /\ Queued'
<1>1. next' \in Index
  BY AfterRound DEF Pick
<1>2. turns' \in [Index -> [Index -> Nat]]
  BY DEF Pick, PoolTypeOK
<1>3. ASSUME NEW r \in Index, NEW q \in Index PROVE Waiting(r, q)'
  <2>1. Waiting(r, q) /\ turns[r] \in [Index -> Nat] /\ turns[r][q] \in Nat
    BY DEF Queued, PoolTypeOK
  <2>2. CASE r = p \/ ~Available(r)
    BY <2>2 DEF Pick, Waiting, Available
  <2>3. CASE r # p /\ Available(r)
    <3>1. Ahead(p) <= Ahead(r) /\ Available(p)
      BY <2>3 DEF Pick, Picks, Available
    <3>2. turns'[r] = [turns[r] EXCEPT ![p] = @ + 1]
      BY <2>3 DEF Pick
    <3>3. /\ Ahead(r) \in Nat /\ Ahead(p) \in Nat /\ Ahead(q) \in Nat /\ N \in Nat
          /\ Ahead(r) <= N - 1 /\ Ahead(p) < Ahead(r)
      <4>1. next \in Index /\ next' = After(p)
        BY DEF PoolTypeOK, Pick
      <4>2. Ahead(r) \in 0..(N - 1) /\ (Ahead(r) = Ahead(p) => r = p)
        BY <4>1, MovedUp
      <4>3. Ahead(p) \in 0..(N - 1) /\ Ahead(q) \in 0..(N - 1)
        BY <4>1, MovedUp
      <4> QED
        BY <2>3, <3>1, <4>2, <4>3, NAssumption
    <3>4. Ahead(r)' = Ahead(r) - Ahead(p) - 1
      BY <3>3, MovedUp DEF PoolTypeOK, Pick
    <3>5. CASE q = p
      <4>1. turns[r][p] = 0
        BY <2>1, <3>3, <3>5 DEF Waiting
      <4>2. turns'[r][q] = 1
        BY <2>1, <3>2, <3>5, <4>1
      <4>3. Ahead(q)' = N - 1
        BY <3>3, <3>5, MovedUp DEF PoolTypeOK, Pick
      <4>4. Ahead(r)' < Ahead(q)'
        BY <3>3, <3>4, <4>3
      <4> QED
        BY <2>3, <4>2, <4>4 DEF Waiting, Available
    <3>6. CASE q # p
      <4>1. turns'[r][q] = turns[r][q]
        BY <2>1, <3>2, <3>6
      <4>2. ASSUME turns[r][q] # 0 PROVE Ahead(r)' < Ahead(q)'
        <5>1. Ahead(r) < Ahead(q)
          BY <2>1, <4>2 DEF Waiting
        <5>2. Ahead(q)' = Ahead(q) - Ahead(p) - 1
          BY <3>3, <5>1, MovedUp DEF PoolTypeOK, Pick
        <5> QED
          BY <3>3, <3>4, <5>1, <5>2
      <4> QED
        BY <2>1, <2>3, <4>1, <4>2 DEF Waiting, Available
    <3> QED
      BY <3>5, <3>6
  <2> QED
    BY <2>2, <2>3
<1> QED
  BY <1>1, <1>2, <1>3 DEF Queued

\* A proxy that recovers has nobody to wait for.
LEMMA MarkGoodQueues ==
  ASSUME PoolTypeOK, Queued, NEW p \in Index, MarkGood(p), next' = next
  PROVE  /\ cooling' \subseteq Index /\ eased' \subseteq Caller
         /\ turns' = turns /\ Queued'
<1>1. ASSUME NEW r \in Index, NEW q \in Index PROVE Waiting(r, q)'
  <2>1. Waiting(r, q) /\ turns' = turns /\ Ahead(r)' = Ahead(r) /\ Ahead(q)' = Ahead(q)
    BY DEF Queued, MarkGood, Ahead
  <2>2. ~Available(r)' => ~Available(r)
    BY DEF MarkGood, Available
  <2> QED
    BY <2>1, <2>2 DEF Waiting
<1> QED
  BY <1>1 DEF MarkGood, PoolTypeOK, Queued

LEMMA MarkBadQueues ==
  ASSUME PoolTypeOK, Queued, NEW p \in Index, MarkBad(p), next' = next
  PROVE  /\ cooling' \subseteq Index /\ eased' = eased
         /\ turns' \in [Index -> [Index -> Nat]] /\ Queued'
<1>1. turns' \in [Index -> [Index -> Nat]]
  BY DEF MarkBad, PoolTypeOK
<1>2. ASSUME NEW r \in Index, NEW q \in Index PROVE Waiting(r, q)'
  <2>1. Waiting(r, q) /\ Ahead(r)' = Ahead(r) /\ Ahead(q)' = Ahead(q)
    BY DEF Queued, Ahead
  <2>2. CASE r = p
    BY <2>2 DEF MarkBad, Waiting, PoolTypeOK
  <2>3. CASE r # p
    <3>1. turns'[r] = turns[r] /\ (Available(r)' <=> Available(r))
      BY <2>3 DEF MarkBad, PoolTypeOK, Available
    <3> QED
      BY <2>1, <3>1 DEF Waiting
  <2> QED
    BY <2>2, <2>3
<1> QED
  BY <1>1, <1>2 DEF MarkBad, PoolTypeOK, Queued

\* Good or bad, a mark eases all callers that it helps.
LEMMA MarkEases ==
  ASSUME PoolTypeOK, NEW p \in Index, MarkGood(p) \/ MarkBad(p), NEW c \in Caller
  PROVE  /\ c \in eased => c \in eased'
         /\ cooling \subseteq cooling' \/ c \in eased' \/ phase[c] = "idle"
<1>1. CASE MarkBad(p)
  BY <1>1 DEF MarkBad
<1>2. CASE MarkGood(p)
  <2>1. /\ cooling' = cooling \ {p}
        /\ eased' = eased \cup {d \in Caller : ~Available(p) /\ phase[d] # "idle"}
    BY <1>2 DEF MarkGood
  <2> QED
    BY <2>1 DEF Available
<1> QED
  BY <1>1, <1>2

\* There are N proxies, and sets of them are finite.
LEMMA ProxySets ==
  ASSUME NEW S \in SUBSET Index
  PROVE  /\ IsFiniteSet(S) /\ Cardinality(S) \in Nat /\ Cardinality(S) <= N
<1>1. IsFiniteSet(0..(N - 1)) /\ Cardinality(0..(N - 1)) = N
  BY NAssumption, FS_Interval
<1> QED
  BY <1>1, FS_Subset, FS_CardinalityType DEF Index

\* A caller that does not move itself knows what it knew, as long as no proxy
\* recovers without easing it.
LEMMA Bystander ==
  ASSUME PoolTypeOK, NEW c \in Caller, Counts(c), cooling' \subseteq Index,
         phase'[c] = phase[c], kind'[c] = kind[c], entry'[c] = entry[c],
         at'[c] = at[c], replays'[c] = replays[c],
         c \in eased => c \in eased',
         cooling \subseteq cooling' \/ c \in eased' \/ phase[c] = "idle"
  PROVE  Counts(c)'
<1>1. CASE cooling \subseteq cooling'
  <2> SUFFICES ASSUME kind[c] = "upload", c \notin eased, Knows(c) PROVE Knows(c)'
    BY DEF Counts
  <2>1. cooling = Index => cooling' = Index
    BY <1>1
  <2>2. /\ Cardinality(cooling) <= Cardinality(cooling')
        /\ Cardinality(cooling \ {at[c]}) <= Cardinality(cooling' \ {at[c]})
    <3>1. cooling \in SUBSET cooling' /\ cooling \ {at[c]} \in SUBSET (cooling' \ {at[c]})
      BY <1>1
    <3>2. IsFiniteSet(cooling') /\ IsFiniteSet(cooling' \ {at[c]})
      BY ProxySets
    <3> QED
      BY <3>1, <3>2, FS_Subset
  <2>3. /\ Cardinality(cooling) \in Nat /\ Cardinality(cooling') \in Nat
        /\ Cardinality(cooling \ {at[c]}) \in Nat /\ Cardinality(cooling' \ {at[c]}) \in Nat
        /\ replays[c] \in Nat
    BY ProxySets DEF PoolTypeOK
  <2> QED
    BY <1>1, <2>1, <2>2, <2>3 DEF Knows
<1>2. CASE c \in eased' \/ phase[c] = "idle"
  BY <1>2 DEF Counts, Knows
<1> QED
  BY <1>1, <1>2

-----------------------------------------------------------------------------
(* Every step keeps the invariant *)

\* Nobody has picked yet.
LEMMA PoolInitInv == PoolInit => PoolInv
<1> SUFFICES ASSUME PoolInit PROVE PoolInv
  OBVIOUS
<1>1. 0 \in Index /\ 0 \in 0..(N + 1) /\ N \in 0..N
  BY NAssumption DEF Index
<1>2. PoolTypeOK
  BY <1>1 DEF PoolInit, PoolTypeOK
<1>3. Queued
  BY DEF PoolInit, Queued, Waiting
<1>4. Failing
  BY DEF PoolInit, Failing, Counts, Knows
<1> QED
  BY <1>2, <1>3, <1>4 DEF PoolInv

\* A call starts at the proxy that was picked.
LEMMA CallInv ==
  ASSUME PoolInv, NEW c \in Caller, NEW k \in {"upload", "dial"}, Call(c, k)
  PROVE  PoolInv'
<1> USE DEF PoolInv
<1>1. PICK p \in Index : /\ Pick(p)
                         /\ entry' = [entry EXCEPT ![c] = p]
                         /\ at' = [at EXCEPT ![c] = p]
  BY DEF Call
<1>2. /\ phase[c] = "idle" /\ phase' = [phase EXCEPT ![c] = "try"]
      /\ kind' = [kind EXCEPT ![c] = k]
      /\ UNCHANGED <<cooling, replays, checking, eased>>
  BY DEF Call, Goes
<1> HIDE DEF Call
<1>3. next' \in Index /\ turns' \in [Index -> [Index -> Nat]] /\ Queued'
  BY <1>1, <1>2, PickQueues
<1>4. PoolTypeOK'
  BY <1>1, <1>2, <1>3 DEF PoolTypeOK
<1>5. ASSUME NEW d \in Caller PROVE Counts(d)'
  <2>1. CASE d # c
    <3>1. /\ phase'[d] = phase[d] /\ kind'[d] = kind[d] /\ entry'[d] = entry[d]
          /\ at'[d] = at[d] /\ replays'[d] = replays[d]
      BY <1>1, <1>2, <2>1 DEF PoolTypeOK
    <3> QED
      BY <1>2, <3>1, Bystander DEF Failing, PoolTypeOK
  <2>2. CASE d = c
    <3>1. replays'[d] = 0 /\ phase'[d] = "try" /\ at'[d] = entry'[d]
      BY <1>1, <1>2, <2>2 DEF Failing, Counts, PoolTypeOK
    <3>2. Cardinality(cooling' \ {at'[d]}) \in Nat
      BY <1>4, ProxySets DEF PoolTypeOK
    <3> QED
      BY <3>1, <3>2 DEF Counts, Knows
  <2> QED
    BY <2>1, <2>2
<1> QED
  BY <1>3, <1>4, <1>5 DEF Failing

\* A success ends the caller's errand; the others are eased if it helps them.
LEMMA PoolSucceedInv ==
  ASSUME PoolInv, NEW c \in Caller, Succeed(c)
  PROVE  PoolInv'
<1> USE DEF PoolInv
<1>1. at[c] \in Index /\ MarkGood(at[c]) /\ next' = next
  BY DEF Succeed, PoolTypeOK
<1>2. /\ phase[c] = "try" /\ phase' = [phase EXCEPT ![c] = "done"]
      /\ UNCHANGED <<next, kind, entry, at, replays, checking>>
  BY DEF Succeed, Goes
<1>3. /\ cooling' \subseteq Index /\ eased' \subseteq Caller /\ turns' = turns /\ Queued'
  BY <1>1, MarkGoodQueues
<1>4. PoolTypeOK'
  BY <1>2, <1>3 DEF PoolTypeOK
<1>5. ASSUME NEW d \in Caller PROVE Counts(d)'
  <2>1. CASE d # c
    <3>1. phase'[d] = phase[d]
      BY <1>2, <2>1
    <3>2. /\ d \in eased => d \in eased'
          /\ cooling \subseteq cooling' \/ d \in eased' \/ phase[d] = "idle"
      BY <1>1, MarkEases
    <3> QED
      BY <1>2, <1>3, <3>1, <3>2, Bystander DEF Failing
  <2>2. CASE d = c
    BY <1>2, <2>2 DEF Counts, Knows, PoolTypeOK
  <2> QED
    BY <2>1, <2>2
<1> QED
  BY <1>3, <1>4, <1>5 DEF Failing

\* A failure adds its proxy to those that cool down.
LEMMA FailInv ==
  ASSUME PoolInv, NEW c \in Caller, Fail(c)
  PROVE  PoolInv'
<1> USE DEF PoolInv
<1>1. at[c] \in Index /\ MarkBad(at[c]) /\ next' = next
  BY DEF Fail, PoolTypeOK
<1>2. /\ phase[c] = "try"
      /\ phase' = [phase EXCEPT ![c] = IF kind[c] = "upload" THEN "again" ELSE "failed"]
      /\ UNCHANGED <<next, kind, entry, at, replays, checking>>
  BY DEF Fail, Goes
<1>3. /\ cooling' \subseteq Index /\ eased' = eased
      /\ turns' \in [Index -> [Index -> Nat]] /\ Queued'
  BY <1>1, MarkBadQueues
<1>4. PoolTypeOK'
  BY <1>2, <1>3 DEF PoolTypeOK
<1>5. cooling' = cooling \cup {at[c]}
  BY <1>1 DEF MarkBad
<1>6. ASSUME NEW d \in Caller PROVE Counts(d)'
  <2>1. CASE d # c
    <3>1. phase'[d] = phase[d]
      BY <1>2, <2>1
    <3> QED
      BY <1>2, <1>3, <1>5, <3>1, Bystander DEF Failing
  <2>2. CASE d = c
    <3> SUFFICES ASSUME kind[c] = "upload", c \notin eased PROVE Knows(c)'
      BY <1>2, <1>3, <2>2 DEF Counts, PoolTypeOK
    <3>1. Knows(c)
      BY DEF Failing, Counts
    <3>2. phase'[c] = "again" /\ replays'[c] = replays[c] /\ entry'[c] = entry[c]
      BY <1>2 DEF PoolTypeOK
    <3>3. entry[c] \in cooling'
      BY <1>2, <1>5, <3>1 DEF Knows, PoolTypeOK
    <3>4. cooling = Index => cooling' = Index
      BY <1>3, <1>5
    <3>5. Cardinality(cooling') = Cardinality(cooling \ {at[c]}) + 1
      <4>1. IsFiniteSet(cooling \ {at[c]})
        BY ProxySets DEF PoolTypeOK
      <4>2. cooling' = (cooling \ {at[c]}) \cup {at[c]} /\ at[c] \notin cooling \ {at[c]}
        BY <1>5
      <4> QED
        BY <4>1, <4>2, FS_AddElement
    <3>6. Cardinality(cooling \ {at[c]}) \in Nat /\ replays[c] \in Nat
      BY ProxySets DEF PoolTypeOK
    <3>7. cooling' = Index \/ Cardinality(cooling') >= replays[c] + 1
      BY <1>2, <3>1, <3>4, <3>5, <3>6 DEF Knows
    <3> QED
      BY <3>2, <3>3, <3>7 DEF Knows
  <2> QED
    BY <2>1, <2>2
<1> QED
  BY <1>3, <1>4, <1>6 DEF Failing

\* A replay goes to a proxy that was available, or all of them cool down.
LEMMA ReplayInv ==
  ASSUME PoolInv, NEW c \in Caller, Replay(c)
  PROVE  PoolInv'
<1> USE DEF PoolInv
<1>1. PICK p \in Index : /\ p # entry[c] /\ Pick(p)
                         /\ at' = [at EXCEPT ![c] = p]
  BY DEF Replay
<1>2. /\ phase[c] = "again" /\ phase' = [phase EXCEPT ![c] = "try"]
      /\ replays[c] < N + 1 /\ replays' = [replays EXCEPT ![c] = @ + 1]
      /\ UNCHANGED <<cooling, kind, entry, checking, eased>>
  BY DEF Replay, Replays, Goes
<1> HIDE DEF Replay
<1>3. next' \in Index /\ turns' \in [Index -> [Index -> Nat]] /\ Queued'
  BY <1>1, <1>2, PickQueues
<1>4. PoolTypeOK'
  <2>1. replays[c] + 1 \in 0..(N + 1)
    BY <1>2, NAssumption DEF PoolTypeOK
  <2>2. replays' \in [Caller -> 0..(N + 1)]
    BY <1>2, <2>1 DEF PoolTypeOK
  <2> QED
    BY <1>1, <1>2, <1>3, <2>2 DEF PoolTypeOK
<1>5. ASSUME NEW d \in Caller PROVE Counts(d)'
  <2>1. CASE d # c
    <3>1. phase'[d] = phase[d] /\ at'[d] = at[d] /\ replays'[d] = replays[d]
      BY <1>1, <1>2, <2>1 DEF PoolTypeOK
    <3> QED
      BY <1>2, <3>1, Bystander DEF Failing, PoolTypeOK
  <2>2. CASE d = c
    <3> SUFFICES ASSUME kind[c] = "upload", c \notin eased PROVE Knows(c)'
      BY <1>2, <2>2 DEF Counts, PoolTypeOK
    <3>1. /\ entry[c] \in cooling
          /\ cooling = Index \/ Cardinality(cooling) >= replays[c] + 1
      BY <1>2 DEF Failing, Counts, Knows
    <3>2. /\ phase'[c] = "try" /\ at'[c] = p /\ entry'[c] = entry[c] /\ cooling' = cooling
          /\ replays'[c] = replays[c] + 1 /\ replays'[c] > 0
      BY <1>1, <1>2 DEF PoolTypeOK
    <3>3. cooling = Index \/ Cardinality(cooling \ {p}) >= replays[c] + 1
      <4>1. CASE p \notin cooling
        <5>1. cooling \ {p} = cooling
          BY <4>1
        <5> QED
          BY <3>1, <5>1
      <4>2. CASE p \in cooling
        BY <1>1, <4>2 DEF Pick, Picks, Available
      <4> QED
        BY <4>1, <4>2
    <3> QED
      BY <3>1, <3>2, <3>3 DEF Knows
  <2> QED
    BY <2>1, <2>2
<1> QED
  BY <1>3, <1>4, <1>5 DEF Failing

\* The pool comes round to the first proxy, which cools down, only when all do.
LEMMA ComeRoundInv ==
  ASSUME PoolInv, NEW c \in Caller, ComeRound(c)
  PROVE  PoolInv'
<1> USE DEF PoolInv
<1>1. entry[c] \in Index /\ Pick(entry[c])
  BY DEF ComeRound, PoolTypeOK
<1>2. /\ phase[c] = "again" /\ phase' = [phase EXCEPT ![c] = "failed"]
      /\ UNCHANGED <<cooling, kind, entry, at, replays, checking, eased>>
  BY DEF ComeRound, Goes
<1>3. next' \in Index /\ turns' \in [Index -> [Index -> Nat]] /\ Queued'
  BY <1>1, <1>2, PickQueues
<1>4. PoolTypeOK'
  BY <1>2, <1>3 DEF PoolTypeOK
<1>5. ASSUME NEW d \in Caller PROVE Counts(d)'
  <2>1. CASE d # c
    <3>1. phase'[d] = phase[d]
      BY <1>2, <2>1
    <3> QED
      BY <1>2, <3>1, Bystander DEF Failing, PoolTypeOK
  <2>2. CASE d = c
    <3> SUFFICES ASSUME kind[c] = "upload", c \notin eased PROVE Knows(c)'
      BY <1>2, <2>2 DEF Counts, PoolTypeOK
    <3>1. entry[c] \in cooling
      BY <1>2 DEF Failing, Counts, Knows
    <3>2. cooling' = Index
      BY <1>1, <1>2, <3>1 DEF Pick, Picks, Available
    <3> QED
      BY <1>2, <3>2 DEF Knows, PoolTypeOK
  <2> QED
    BY <2>1, <2>2
<1> QED
  BY <1>3, <1>4, <1>5 DEF Failing

\* The loop cannot have asked for more proxies than there are.
LEMMA ExhaustInv ==
  ASSUME PoolInv, NEW c \in Caller, Exhaust(c)
  PROVE  PoolInv'
<1> USE DEF PoolInv
<1>1. /\ phase[c] = "again" /\ phase' = [phase EXCEPT ![c] = "failed"] /\ ~(replays[c] < N + 1)
      /\ UNCHANGED <<next, cooling, kind, entry, at, replays, checking, turns, eased>>
  BY DEF Exhaust, Replays, Goes
<1>2. PoolTypeOK'
  BY <1>1 DEF PoolTypeOK
<1>3. Queued'
  BY <1>1 DEF Queued, Waiting, Available, Ahead
<1>4. ASSUME NEW d \in Caller PROVE Counts(d)'
  <2>1. CASE d # c
    <3>1. phase'[d] = phase[d]
      BY <1>1, <2>1
    <3> QED
      BY <1>1, <3>1, Bystander DEF Failing, PoolTypeOK
  <2>2. CASE d = c
    <3> SUFFICES ASSUME kind[c] = "upload", c \notin eased PROVE Knows(c)'
      BY <1>1, <2>2 DEF Counts, PoolTypeOK
    <3>1. cooling = Index \/ Cardinality(cooling) >= replays[c] + 1
      BY <1>1 DEF Failing, Counts, Knows
    <3>2. replays[c] \in Nat /\ Cardinality(cooling) \in Nat /\ Cardinality(cooling) <= N
      BY ProxySets DEF PoolTypeOK
    <3>3. cooling' = Index
      BY <1>1, <3>1, <3>2, NAssumption
    <3> QED
      BY <1>1, <3>3 DEF Knows, PoolTypeOK
  <2> QED
    BY <2>1, <2>2
<1> QED
  BY <1>2, <1>3, <1>4 DEF Failing

\* A caller leaves with nothing.
LEMMA LeaveInv ==
  ASSUME PoolInv, NEW c \in Caller, Leave(c)
  PROVE  PoolInv'
<1> USE DEF PoolInv
<1>1. /\ phase' = [phase EXCEPT ![c] = "idle"] /\ kind' = [kind EXCEPT ![c] = "dial"]
      /\ entry' = [entry EXCEPT ![c] = 0] /\ at' = [at EXCEPT ![c] = 0]
      /\ replays' = [replays EXCEPT ![c] = 0] /\ eased' = eased \ {c}
      /\ UNCHANGED <<next, cooling, checking, turns>>
  BY DEF Leave, Goes
<1>2. PoolTypeOK'
  <2>1. 0 \in Index /\ 0 \in 0..(N + 1)
    BY NAssumption DEF Index
  <2> QED
    BY <1>1, <2>1 DEF PoolTypeOK
<1>3. Queued'
  BY <1>1 DEF Queued, Waiting, Available, Ahead
<1>4. ASSUME NEW d \in Caller PROVE Counts(d)'
  <2>1. CASE d # c
    <3>1. /\ phase'[d] = phase[d] /\ kind'[d] = kind[d] /\ entry'[d] = entry[d]
          /\ at'[d] = at[d] /\ replays'[d] = replays[d]
          /\ d \in eased => d \in eased'
      BY <1>1, <2>1 DEF PoolTypeOK
    <3> QED
      BY <1>1, <3>1, Bystander DEF Failing, PoolTypeOK
  <2>2. CASE d = c
    BY <1>1, <2>2 DEF Counts, PoolTypeOK
  <2> QED
    BY <2>1, <2>2
<1> QED
  BY <1>2, <1>3, <1>4 DEF Failing

\* A mark that no caller makes leaves all callers as they are.
LEMMA MarkInv ==
  ASSUME PoolInv, NEW p \in Index, MarkGood(p) \/ MarkBad(p),
         UNCHANGED <<next, caller>>, checking' \in 0..N
  PROVE  PoolInv'
<1> USE DEF PoolInv, caller
<1>1. /\ cooling' \subseteq Index /\ eased' \subseteq Caller
      /\ turns' \in [Index -> [Index -> Nat]] /\ Queued'
  <2>1. CASE MarkGood(p)
    BY <2>1, MarkGoodQueues DEF PoolTypeOK
  <2>2. CASE MarkBad(p)
    BY <2>2, MarkBadQueues DEF PoolTypeOK
  <2> QED
    BY <2>1, <2>2
<1>2. PoolTypeOK'
  BY <1>1 DEF PoolTypeOK
<1>3. ASSUME NEW d \in Caller PROVE Counts(d)'
  <2>1. /\ d \in eased => d \in eased'
        /\ cooling \subseteq cooling' \/ d \in eased' \/ phase[d] = "idle"
    BY MarkEases
  <2> QED
    BY <1>1, <2>1, Bystander DEF Failing
<1> QED
  BY <1>1, <1>2, <1>3 DEF Failing

\* Every step keeps the invariant.
LEMMA PoolStepInv == PoolInv /\ [PoolNext]_poolVars => PoolInv'
<1> SUFFICES ASSUME PoolInv, [PoolNext]_poolVars PROVE PoolInv'
  OBVIOUS
<1>1. ASSUME NEW c \in Caller, NEW k \in {"upload", "dial"}, Call(c, k) PROVE PoolInv'
  BY <1>1, CallInv
<1>2. ASSUME NEW c \in Caller, Succeed(c) PROVE PoolInv'
  BY <1>2, PoolSucceedInv
<1>3. ASSUME NEW c \in Caller, Fail(c) PROVE PoolInv'
  BY <1>3, FailInv
<1>4. ASSUME NEW c \in Caller, Replay(c) PROVE PoolInv'
  BY <1>4, ReplayInv
<1>5. ASSUME NEW c \in Caller, ComeRound(c) PROVE PoolInv'
  BY <1>5, ComeRoundInv
<1>6. ASSUME NEW c \in Caller, Exhaust(c) PROVE PoolInv'
  BY <1>6, ExhaustInv
<1>7. ASSUME NEW c \in Caller, Leave(c) PROVE PoolInv'
  BY <1>7, LeaveInv
<1>8. CASE StartCheck
  <2>1. PoolTypeOK'
    BY <1>8, NAssumption DEF StartCheck, PoolInv, PoolTypeOK, caller
  <2>2. Queued'
    BY <1>8 DEF StartCheck, PoolInv, Queued, Waiting, Available, Ahead
  <2>3. Failing'
    BY <1>8 DEF StartCheck, PoolInv, Failing, Counts, Knows, caller
  <2> QED
    BY <2>1, <2>2, <2>3 DEF PoolInv
<1>9. CASE Check
  <2>1. checking \in Index /\ checking' \in 0..N
    BY <1>9, NAssumption DEF Check, PoolInv, PoolTypeOK, Index
  <2> QED
    BY <1>9, <2>1, MarkInv DEF Check
<1>10. ASSUME NEW p \in Index, CoolDown(p) PROVE PoolInv'
  <2>1. checking' \in 0..N
    BY <1>10 DEF CoolDown, PoolInv, PoolTypeOK
  <2> QED
    BY <1>10, <2>1, MarkInv DEF CoolDown
<1>11. CASE UNCHANGED poolVars
  <2>1. PoolTypeOK'
    BY <1>11 DEF poolVars, caller, PoolInv, PoolTypeOK
  <2>2. Queued'
    BY <1>11 DEF poolVars, PoolInv, Queued, Waiting, Available, Ahead
  <2>3. Failing'
    BY <1>11 DEF poolVars, caller, PoolInv, Failing, Counts, Knows
  <2> QED
    BY <2>1, <2>2, <2>3 DEF PoolInv
<1> QED
  BY <1>1, <1>2, <1>3, <1>4, <1>5, <1>6, <1>7, <1>8, <1>9, <1>10, <1>11 DEF PoolNext

\* The invariant always holds.
LEMMA PoolInvariance == PoolSpec => []PoolInv
<1>1. PoolInit => PoolInv
  BY PoolInitInv
<1>2. PoolInv /\ [PoolNext]_poolVars => PoolInv'
  BY PoolStepInv
<1> QED
  BY <1>1, <1>2, PTL DEF PoolSpec

-----------------------------------------------------------------------------
(* The theorems *)

\* The pool's position, the loop counters and the proxies stay in their ranges,
\* for any number of proxies and callers.
THEOREM PoolTypeCorrect == PoolSpec => []PoolTypeOK
<1>1. PoolInv => PoolTypeOK
  BY DEF PoolInv
<1> QED
  BY <1>1, PoolInvariance, PTL

\* No proxy has two turns while another one is waiting for its own (pick).
THEOREM TurnsAreFair == PoolSpec => []FairShare
<1>1. PoolInv => FairShare
  BY DEF PoolInv, Queued, Waiting, FairShare
<1> QED
  BY <1>1, PoolInvariance, PTL

\* An upload is given up only when all proxies cool down, unless one recovered
\* while it was under way (RoundTrip).
THEOREM UploadsFailOver == PoolSpec => []FailsOver
<1>1. PoolInv => FailsOver
  BY DEF PoolInv, Failing, Counts, Knows, FailsOver
<1> QED
  BY <1>1, PoolInvariance, PTL

-----------------------------------------------------------------------------
(* The invariant of the settings. *)

\* A handler that none has overlapped is the only one at work.
Sole == \A h \in alone, g \in Handler : g # h => pc[g] = "idle"

\* What a save finds where it left it.
OnDisk(h) ==
  /\ pc[h] = "write" => tmp # NoInode /\ fd[h] = tmp /\ content[tmp] = Torn
  /\ pc[h] = "rename" => tmp # NoInode /\ content[tmp] = v[h]
  /\ pc[h] \in {"adopt", "apply"} => file # NoInode /\ content[file] = v[h]
  /\ pc[h] = "apply" => memory = v[h]

Saving == \A h \in alone : OnDisk(h)

\* A save that no other has overlapped, or any as long as none has, has the temporary file for itself.
Owning ==
  \A h \in Writing : h \in clean \/ ~overlap =>
    /\ Writing = {h} /\ tmp # NoInode
    /\ pc[h] = "write" => fd[h] = tmp /\ content[tmp] = Torn
    /\ pc[h] = "rename" => content[tmp] = v[h]

\* Requests that change the route first save what it is.
Followed(h) ==
  pc[h] \in {"save", "write", "rename", "adopt"} /\ req[h].op \notin {"putPool", "putOther"}
    => route \in {NoPool, v[h].pool}

Routed == \A h \in alone : Followed(h)

\* Only a toggle comes to setProxyEnabled.
Asked == \A h \in Handler : pc[h] = "switch" => req[h].op = "toggle"

Settled == calm => Quiet /\ Stored = memory /\ route \in {NoPool, memory.pool}

\* The inductive invariant.
IInv ==
  TypeOK /\ Sole /\ Asked /\ Saving /\ Routed /\ Settled /\ Owning /\ WholeUnlessOverlapped

-----------------------------------------------------------------------------
(* Types *)

LEMMA DefaultTyped == Default \in Settings
BY UnsetAssumption DEF Default, Settings

LEMMA StoredTyped ==
  ASSUME TypeOK
  PROVE  Stored \in Settings
BY DefaultTyped DEF TypeOK, Stored

LEMMA IdleTyped == Idle \in Request
BY DEF Idle, Request, Clear

LEMMA ListedTyped ==
  ASSUME TypeOK
  PROVE  Listed \in SUBSET Proxy
BY DEF TypeOK, Listed

\* What GetSettings merges is well typed.
LEMMA MergedTyped ==
  ASSUME TypeOK, NEW r \in Request
  PROVE  Merged(r) \in Settings
<1>1. memory \in Settings
  BY DEF TypeOK
<1>2. CASE r.op = "putPool"
  <2>1. r.pool \in SUBSET Proxy
    BY <1>2 DEF Request, Add, Remove, Clear, Toggle, PutPool, PutOther
  <2> QED
    BY <1>1, <1>2, <2>1 DEF Merged, Settings
<1>3. CASE r.op = "putOther"
  <2>1. r.other \in Other
    BY <1>3 DEF Request, Add, Remove, Clear, Toggle, PutPool, PutOther
  <2> QED
    BY <1>1, <1>3, <2>1 DEF Merged, Settings
<1> QED
  BY <1>1, <1>2, <1>3 DEF Merged

\* The end of a handler leaves its locals well typed.
LEMMA EndTyped ==
  ASSUME TypeOK, NEW h \in Handler, NEW ok \in BOOLEAN, End(h, ok)
  PROVE  /\ pc' \in [Handler -> {"idle", "list", "configure", "settings", "status",
                                 "switch", "save", "write", "rename", "adopt", "apply"}]
         /\ req' \in [Handler -> Request]
         /\ todo' \in [Handler -> SUBSET (Proxy \cup {Bad})]
         /\ list' \in [Handler -> SUBSET Proxy]
         /\ v' \in [Handler -> Settings]
         /\ fd' \in [Handler -> Inode \cup {NoInode}]
         /\ alone' \subseteq Handler /\ clean' \subseteq Handler
         /\ {overlap', calm'} \subseteq BOOLEAN
<1>1. (ok /\ h \in alone) \in BOOLEAN
  OBVIOUS
<1> QED
  BY <1>1, IdleTyped, DefaultTyped DEF TypeOK, End

-----------------------------------------------------------------------------
(* Who is at work *)

LEMMA Others ==
  ASSUME Sole, NEW h \in Handler, NEW g \in Handler, g # h, pc[h] # "idle", g \in alone \/ h \in alone
  PROVE  pc[g] = "idle" /\ g \notin alone
BY DEF Sole

\* A step of a handler that goes on leaves everybody else to be shown.
LEMMA GoesOnInv ==
  ASSUME TypeOK, Sole, Asked, Settled, NEW h \in Handler, pc[h] # "idle",
         NEW there, pc' = [pc EXCEPT ![h] = there], UNCHANGED <<req, alone, calm>>,
         there = "switch" => req[h].op = "toggle",
         h \in alone => OnDisk(h)' /\ Followed(h)'
  PROVE  Sole' /\ Asked' /\ Settled' /\ Saving' /\ Routed'
<1>1. \A g \in Handler : g # h => pc'[g] = pc[g]
  BY DEF TypeOK
<1>2. ~calm
  BY DEF Settled, Quiet
<1>3. Sole'
  BY <1>1 DEF Sole, TypeOK
<1>4. alone' = alone /\ alone \subseteq Handler
  BY DEF TypeOK
<1>5. \A g \in alone : g = h
  BY <1>4, Others
<1>6. Saving' /\ Routed'
  BY <1>4, <1>5 DEF Saving, Routed
<1>7. Asked'
  BY DEF TypeOK, Asked
<1> QED
  BY <1>2, <1>3, <1>6, <1>7 DEF Settled

\* A handler that ends leaves nobody at work that none has overlapped.
LEMMA EndInv ==
  ASSUME TypeOK, Sole, Asked, NEW h \in Handler, pc[h] # "idle", NEW ok \in BOOLEAN,
         End(h, ok)
  PROVE  /\ Sole' /\ Asked' /\ Saving' /\ Routed'
         /\ calm' => Quiet'
         /\ calm' = (ok /\ h \in alone)
<1>1. /\ \A g \in Handler : pc'[g] = IF g = h THEN "idle" ELSE pc[g]
      /\ calm' = (ok /\ h \in alone)
      /\ alone' = alone /\ alone \subseteq Handler
  BY DEF TypeOK, End
<1>2. Sole'
  BY <1>1 DEF Sole
<1>3. \A g \in alone : pc'[g] = "idle"
  BY <1>1, Others
<1>4. Saving'
  BY <1>1, <1>3 DEF Saving, OnDisk
<1>5. Routed'
  BY <1>1, <1>3 DEF Routed, Followed
<1>6. calm' => Quiet'
  BY <1>1, Others DEF Quiet
<1>7. Asked'
  BY <1>1 DEF TypeOK, Asked, End
<1> QED
  BY <1>1, <1>2, <1>4, <1>5, <1>6, <1>7

\* So long as nobody opens, writes or renames, the saves under way keep what they have, if any are left.
LEMMA OwningKept ==
  ASSUME TypeOK, Owning, WholeUnlessOverlapped, UNCHANGED <<disk, overlap>>, clean' \subseteq clean,
         \A g \in Handler : g \in Writing' => g \in Writing /\ pc'[g] = pc[g] /\ fd'[g] = fd[g] /\ v'[g] = v[g]
  PROVE  Owning' /\ WholeUnlessOverlapped'
<1>1. Writing' \subseteq Writing /\ Writing \subseteq Handler
  BY DEF Writing
<1>2. WholeUnlessOverlapped'
  BY DEF WholeUnlessOverlapped, disk
<1>3. ASSUME NEW h \in Writing', h \in clean' \/ ~overlap'
      PROVE  /\ Writing' = {h} /\ tmp' # NoInode
             /\ pc'[h] = "write" => fd'[h] = tmp' /\ content'[tmp'] = Torn
             /\ pc'[h] = "rename" => content'[tmp'] = v'[h]
  <2>1. h \in Writing /\ (h \in clean \/ ~overlap) /\ pc'[h] = pc[h] /\ fd'[h] = fd[h] /\ v'[h] = v[h]
    BY <1>1, <1>3
  <2>2. Writing' = {h}
    BY <1>1, <1>3, <2>1 DEF Owning
  <2> QED
    BY <2>1, <2>2 DEF Owning, disk
<1> QED
  BY <1>2, <1>3 DEF Owning

-----------------------------------------------------------------------------
(* The actions *)

LEMMA InitInv == Init => IInv
<1> SUFFICES ASSUME Init PROVE IInv
  OBVIOUS
<1>1. TypeOK
  BY DefaultTyped, IdleTyped, UnsetAssumption DEF Init, TypeOK
<1>2. Sole /\ Asked /\ Saving /\ Routed
  BY DEF Init, Asked, Sole, Saving, OnDisk, Routed
<1>3. Settled /\ Owning /\ WholeUnlessOverlapped
  BY DEF Init, Settled, Owning, Writing, WholeUnlessOverlapped
<1> QED
  BY <1>1, <1>2, <1>3 DEF IInv

LEMMA BeginInv ==
  ASSUME IInv, NEW h \in Handler, NEW r \in Request, Begin(h, r)
  PROVE  IInv'
<1>1. \A g \in Handler :
        pc'[g] = IF g = h THEN (IF r \in Add \cup Remove THEN "list"
                                ELSE IF r \in Clear THEN "configure" ELSE "settings")
                 ELSE pc[g]
  BY DEF IInv, TypeOK, Begin
<1>2. pc'[h] \in {"list", "configure", "settings"} /\ pc[h] = "idle"
  BY <1>1 DEF Begin
<1>3. TypeOK'
  <2>1. (IF r \in Add THEN r.links ELSE {}) \in SUBSET (Proxy \cup {Bad})
    BY DEF Add
  <2>2. (IF Quiet THEN {h} ELSE {}) \subseteq Handler
    OBVIOUS
  <2> QED
    BY <1>2, <2>1, <2>2 DEF IInv, TypeOK, Begin, disk, saves
<1>4. Sole'
  <2>1. CASE Quiet
    BY <1>1, <2>1 DEF Begin, Quiet, Sole
  <2>2. CASE ~Quiet
    BY <2>2 DEF Begin, Sole
  <2> QED
    BY <2>1, <2>2
<1>6. Saving'
  <2>1. SUFFICES ASSUME NEW g \in alone' PROVE OnDisk(g)'
    BY DEF Saving
  <2>2. g = h
    BY <2>1 DEF Begin
  <2> QED
    BY <1>2, <2>2 DEF OnDisk
<1>7. Routed'
  <2>1. SUFFICES ASSUME NEW g \in alone' PROVE Followed(g)'
    BY DEF Routed
  <2>2. g = h
    BY <2>1 DEF Begin
  <2> QED
    BY <1>2, <2>2 DEF Followed
<1>8. Settled'
  BY DEF Begin, Settled
<1>9. Asked'
  BY <1>1, <1>2 DEF IInv, TypeOK, Begin, Asked
<1>10. Owning' /\ WholeUnlessOverlapped'
  <2>1. UNCHANGED <<disk, overlap, clean, fd, v>>
    BY DEF Begin, saves
  <2> QED
    BY <1>1, <1>2, <2>1, OwningKept DEF IInv, Writing
<1> QED
  BY <1>3, <1>4, <1>6, <1>7, <1>8, <1>9, <1>10 DEF IInv

\* The steps before anything is saved.
LEMMA RouteInv ==
  ASSUME IInv, NEW h \in Handler,
         \/ ListToAdd(h) \/ ListToRemove(h) \/ Configure(h)
         \/ GetSettings(h) \/ ReadStatus(h) \/ Switch(h)
  PROVE  IInv'
<1>1. TypeOK /\ Sole /\ Asked /\ Saving /\ Routed /\ Settled /\ Owning /\ WholeUnlessOverlapped
  BY DEF IInv
<1>2. TypeOK'
  <2>1. CASE ListToAdd(h)
    BY <1>1, <2>1, ListedTyped DEF TypeOK, ListToAdd, At, history, saves, disk
  <2>2. CASE ListToRemove(h)
    BY <1>1, <2>2 DEF TypeOK, ListToRemove, At, history, saves, disk
  <2>3. CASE Configure(h)
    BY <1>1, <2>3 DEF TypeOK, Configure, At, history, saves, disk, locals
  <2>4. CASE GetSettings(h)
    <3>1. Merged(req[h]) \in Settings
      BY <1>1, MergedTyped DEF TypeOK
    <3> QED
      BY <1>1, <2>4, <3>1 DEF TypeOK, GetSettings, At, history, saves, disk
  <2>5. CASE ReadStatus(h)
    <3>1. v[h] \in Settings /\ [v[h] EXCEPT !.pool = Listed] \in Settings
      BY <1>1, ListedTyped DEF TypeOK, Settings
    <3>2. v' = [v EXCEPT ![h] = [v[h] EXCEPT !.pool = Listed]]
      BY <1>1, <2>5 DEF TypeOK, ReadStatus
    <3> QED
      BY <1>1, <2>5, <3>1, <3>2 DEF TypeOK, ReadStatus, At, history, saves, disk
  <2>6. CASE Switch(h)
    <3>1. req[h] \in Request /\ req[h].op = "toggle"
      BY <1>1, <2>6 DEF TypeOK, Switch, At, Asked
    <3>2. req[h].enabled \in BOOLEAN
      BY <3>1 DEF Request, Add, Remove, Clear, Toggle, PutPool, PutOther
    <3>3. v[h] \in Settings /\ [v[h] EXCEPT !.enabled = req[h].enabled] \in Settings
      BY <1>1, <3>2 DEF TypeOK, Settings
    <3>4. v' = [v EXCEPT ![h] = [v[h] EXCEPT !.enabled = req[h].enabled]]
      BY <1>1, <2>6 DEF TypeOK, Switch
    <3>5. route' \in {NoPool} \cup SUBSET Proxy
      BY <2>6, <3>2, <3>3 DEF Switch, Settings
    <3> QED
      BY <1>1, <2>6, <3>3, <3>4, <3>5 DEF TypeOK, Switch, At, history, saves, disk
  <2> QED
    BY <2>1, <2>2, <2>3, <2>4, <2>5, <2>6
<1>3. /\ UNCHANGED <<req, disk, history>>
      /\ pc[h] # "idle"
      /\ \E there \in {"list", "configure", "settings", "status", "switch", "save"} :
           /\ pc' = [pc EXCEPT ![h] = there]
           /\ there = "switch" => req[h].op = "toggle"
  BY DEF ListToAdd, ListToRemove, Configure, GetSettings, ReadStatus, Switch, At, locals
<1>4. pc'[h] \in {"list", "configure", "settings", "status", "switch", "save"}
  BY <1>1, <1>3 DEF TypeOK
<1>5. OnDisk(h)'
  BY <1>4 DEF OnDisk
<1>6. Followed(h)'
  <2>1. CASE GetSettings(h)
    BY <1>1, <2>1 DEF TypeOK, GetSettings, At, Followed
  <2>2. CASE ReadStatus(h)
    BY <1>1, <2>2 DEF TypeOK, Settings, ReadStatus, At, Listed, Followed
  <2>3. CASE Switch(h)
    BY <1>1, <2>3 DEF TypeOK, Settings, Switch, At, Followed
  <2>4. CASE ListToAdd(h) \/ ListToRemove(h) \/ Configure(h)
    BY <1>1, <2>4 DEF TypeOK, ListToAdd, ListToRemove, Configure, At, Followed
  <2> QED
    BY <2>1, <2>2, <2>3, <2>4
<1>7. Sole' /\ Asked' /\ Settled' /\ Saving' /\ Routed'
  BY <1>1, <1>3, <1>5, <1>6, GoesOnInv DEF history
<1>8. Owning' /\ WholeUnlessOverlapped'
  <2>1. UNCHANGED <<disk, overlap, clean, fd>> /\ \A g \in Handler : g # h => v'[g] = v[g]
    BY <1>1 DEF TypeOK, ListToAdd, ListToRemove, Configure, GetSettings, ReadStatus, Switch, locals,
       history, saves
  <2>2. \A g \in Handler : g # h => pc'[g] = pc[g]
    BY <1>1, <1>3 DEF TypeOK
  <2> QED
    BY <1>1, <1>4, <2>1, <2>2, OwningKept DEF Writing
<1> QED
  BY <1>2, <1>7, <1>8 DEF IInv

\* The steps of a save.
LEMMA SaveInv ==
  ASSUME IInv, NEW h \in Handler, Open(h) \/ Write(h) \/ Rename(h)
  PROVE  IInv'
<1>1. TypeOK /\ Sole /\ Asked /\ Saving /\ Routed /\ Settled /\ Owning /\ WholeUnlessOverlapped
  BY DEF IInv
<1>2. TypeOK'
  <2>1. CASE Open(h)
    <3>1. PICK i \in IF tmp = NoInode THEN Inode \ Used ELSE {tmp} :
            /\ fd' = [fd EXCEPT ![h] = i]
            /\ content' = [content EXCEPT ![i] = Torn]
            /\ tmp' = i
      BY <2>1 DEF Open
    <3>2. i \in Inode /\ i # file
      BY <1>1, <3>1, InodeAssumption DEF TypeOK, Used
    <3> QED
      BY <1>1, <2>1, <3>1, <3>2, InodeAssumption DEF TypeOK, Open, At, history, saves
  <2>2. CASE Write(h)
    BY <1>1, <2>2 DEF TypeOK, Write, At, history, saves
  <2>3. CASE Rename(h)
    BY <1>1, <2>3 DEF TypeOK, Rename, At, history, saves, locals
  <2> QED
    BY <2>1, <2>2, <2>3
<1>3. /\ UNCHANGED <<route, memory, req, v, alone, calm>>
      /\ pc[h] # "idle"
      /\ \E there \in {"write", "rename", "adopt"} : pc' = [pc EXCEPT ![h] = there]
  BY DEF Open, Write, Rename, At, locals, history
<1>4. ASSUME h \in alone PROVE OnDisk(h)'
  <2>1. OnDisk(h)
    BY <1>1, <1>4 DEF Saving
  <2>2. CASE Open(h)
    BY <1>1, <1>2, <2>2, InodeAssumption DEF TypeOK, Open, At, OnDisk
  <2>3. CASE Write(h)
    BY <1>1, <2>1, <2>3 DEF TypeOK, Write, At, OnDisk
  <2>4. CASE Rename(h)
    BY <1>1, <2>1, <2>4 DEF TypeOK, Rename, At, OnDisk, locals
  <2> QED
    BY <2>2, <2>3, <2>4
<1>5. ASSUME h \in alone PROVE Followed(h)'
  <2>1. Followed(h) /\ pc[h] \in {"save", "write", "rename"}
    BY <1>1, <1>5 DEF Routed, Open, Write, Rename, At
  <2> QED
    BY <1>3, <2>1 DEF Followed
<1>6. Sole' /\ Asked' /\ Settled' /\ Saving' /\ Routed'
  BY <1>1, <1>3, <1>4, <1>5, GoesOnInv
<1>7. Owning' /\ WholeUnlessOverlapped'
  <2>0. \A g \in Handler : g # h => pc'[g] = pc[g]
    BY <1>1, <1>3 DEF TypeOK
  <2>1. CASE Open(h)
    <3>1. h \notin Writing /\ Writing' = Writing \cup {h} /\ pc'[h] = "write"
      BY <1>1, <2>0, <2>1 DEF TypeOK, Open, At, Writing
    <3>2. PICK i \in IF tmp = NoInode THEN Inode \ Used ELSE {tmp} :
            /\ fd' = [fd EXCEPT ![h] = i]
            /\ content' = [content EXCEPT ![i] = Torn]
            /\ tmp' = i
      BY <2>1 DEF Open
    <3>3. i \in Inode /\ i # file /\ i # NoInode /\ file' = file
      BY <1>1, <2>1, <3>2, InodeAssumption DEF TypeOK, Used, Open
    <3>4. fd'[h] = tmp' /\ content'[tmp'] = Torn
      BY <1>1, <3>2, <3>3 DEF TypeOK
    <3>5. WholeUnlessOverlapped'
      BY <1>1, <2>1, <3>2, <3>3 DEF WholeUnlessOverlapped, TypeOK, Open
    <3>6. CASE Writing = {}
      BY <3>1, <3>2, <3>3, <3>4, <3>5, <3>6 DEF Owning
    <3>7. CASE Writing # {}
      BY <2>1, <3>5, <3>7 DEF Owning, Open
    <3> QED
      BY <3>6, <3>7
  <2>2. CASE Write(h)
    <3>1. h \in Writing /\ Writing' = Writing /\ pc[h] = "write" /\ pc'[h] = "rename"
      BY <1>1, <2>0, <2>2 DEF TypeOK, Write, At, Writing
    <3>2. /\ UNCHANGED <<file, tmp, v, clean, overlap>>
          /\ \E s \in {v[h]} \cup (IF content[fd[h]] = Torn THEN {} ELSE {Torn}) :
               content' = [content EXCEPT ![fd[h]] = s]
      BY <2>2 DEF Write, history, saves
    <3>3. CASE h \in clean \/ ~overlap
      <4>1. Writing = {h} /\ tmp # NoInode /\ fd[h] = tmp /\ content[tmp] = Torn /\ tmp \in Inode
        BY <1>1, <3>1, <3>3 DEF Owning, TypeOK
      <4>2. content' = [content EXCEPT ![tmp] = v[h]] /\ content'[tmp] = v[h]
        BY <1>1, <3>2, <4>1 DEF TypeOK
      <4>3. Owning'
        BY <3>1, <3>2, <4>1, <4>2 DEF Owning
      <4>4. WholeUnlessOverlapped'
        BY <1>1, <3>2, <4>1, <4>2 DEF WholeUnlessOverlapped, TypeOK
      <4> QED
        BY <4>3, <4>4
    <3>4. CASE ~(h \in clean \/ ~overlap)
      <4>1. \A g \in Writing : g \notin clean
        BY <1>1, <3>1, <3>4 DEF Owning
      <4> QED
        BY <3>1, <3>2, <3>4, <4>1 DEF Owning, WholeUnlessOverlapped
    <3> QED
      BY <3>3, <3>4
  <2>3. CASE Rename(h)
    <3>1. h \in Writing /\ Writing' = Writing \ {h} /\ pc[h] = "rename"
      BY <1>1, <2>0, <2>3 DEF TypeOK, Rename, At, Writing
    <3>2. /\ file' = tmp /\ clean' = clean \ {h} /\ overlap' = (overlap /\ h \notin clean)
          /\ content' = IF file = NoInode THEN content ELSE [content EXCEPT ![file] = Torn]
      BY <2>3 DEF Rename
    <3>3. CASE h \in clean \/ ~overlap
      <4>1. Writing = {h} /\ tmp # NoInode /\ content[tmp] = v[h]
        BY <1>1, <3>1, <3>3 DEF Owning
      <4>2. content'[file'] = v[h] /\ v[h] # Torn
        BY <1>1, <3>2, <4>1, TornAssumption DEF TypeOK
      <4> QED
        BY <3>1, <4>1, <4>2 DEF Owning, WholeUnlessOverlapped
    <3>4. CASE ~(h \in clean \/ ~overlap)
      <4>1. \A g \in Writing : g \notin clean
        BY <1>1, <3>1, <3>4 DEF Owning
      <4> QED
        BY <3>1, <3>2, <3>4, <4>1 DEF Owning, WholeUnlessOverlapped
    <3> QED
      BY <3>3, <3>4
  <2> QED
    BY <2>1, <2>2, <2>3
<1> QED
  BY <1>2, <1>6, <1>7 DEF IInv

\* The end of a handler leaves the saves of others what they have.
LEMMA EndOwning ==
  ASSUME TypeOK, Owning, WholeUnlessOverlapped, NEW h \in Handler, NEW ok \in BOOLEAN, End(h, ok),
         UNCHANGED disk
  PROVE  Owning' /\ WholeUnlessOverlapped'
<1>1. UNCHANGED <<disk, overlap>> /\ clean' \subseteq clean
  BY DEF End
<1>2. pc'[h] = "idle" /\ \A g \in Handler : g # h => pc'[g] = pc[g] /\ fd'[g] = fd[g] /\ v'[g] = v[g]
  BY DEF TypeOK, End
<1> QED
  BY <1>1, <1>2, OwningKept DEF Writing

\* The ways to end.
LEMMA EndsInv ==
  ASSUME IInv, NEW h \in Handler, Refuse(h) \/ NotListed(h) \/ SaveFails(h)
  PROVE  IInv'
<1>1. TypeOK /\ Sole /\ Asked /\ Saving /\ Routed /\ Settled /\ Owning /\ WholeUnlessOverlapped
  BY DEF IInv
<1>2. pc[h] # "idle" /\ End(h, FALSE) /\ UNCHANGED <<route, memory, disk, acked>>
  BY DEF Refuse, NotListed, SaveFails
<1>3. TypeOK'
  <2>1. /\ pc' \in [Handler -> {"idle", "list", "configure", "settings", "status",
                                "switch", "save", "write", "rename", "adopt", "apply"}]
        /\ req' \in [Handler -> Request]
        /\ todo' \in [Handler -> SUBSET (Proxy \cup {Bad})]
        /\ list' \in [Handler -> SUBSET Proxy]
        /\ v' \in [Handler -> Settings]
        /\ fd' \in [Handler -> Inode \cup {NoInode}]
        /\ alone' \subseteq Handler /\ clean' \subseteq Handler
        /\ {overlap', calm'} \subseteq BOOLEAN
    BY <1>1, <1>2, EndTyped
  <2> QED
    BY <1>1, <1>2, <2>1 DEF TypeOK, disk
<1>4. /\ Sole' /\ Asked' /\ Saving' /\ Routed'
      /\ calm' = (FALSE /\ h \in alone)
  BY <1>1, <1>2, EndInv
<1>5. Settled' /\ Owning' /\ WholeUnlessOverlapped'
  BY <1>1, <1>2, <1>4, EndOwning DEF Settled
<1> QED
  BY <1>3, <1>4, <1>5 DEF IInv

\* Success.
LEMMA SucceedInv ==
  ASSUME IInv, NEW h \in Handler, Adopt(h) \/ Apply(h)
  PROVE  IInv'
<1>1. TypeOK /\ Sole /\ Asked /\ Saving /\ Routed /\ Settled /\ Owning /\ WholeUnlessOverlapped
  BY DEF IInv
<1>2. CASE Adopt(h) /\ req[h].op \in {"putPool", "putOther"}
  <2>1. /\ At(h, "adopt", "apply")
        /\ UNCHANGED <<route, disk, locals, alone, calm, clean, overlap>>
        /\ memory' = v[h]
        /\ acked' \in Other
    BY <1>1, <1>2 DEF Adopt, TypeOK, Settings, saves
  <2>2. TypeOK'
    BY <1>1, <2>1 DEF TypeOK, At, disk, locals
  <2>3. ASSUME h \in alone PROVE OnDisk(h)'
    BY <1>1, <2>1, <2>3 DEF Saving, OnDisk, TypeOK, At, disk, locals
  <2>4. Followed(h)'
    BY <1>1, <2>1 DEF Followed, TypeOK, At
  <2>5. Sole' /\ Asked' /\ Settled' /\ Saving' /\ Routed'
    BY <1>1, <2>1, <2>3, <2>4, GoesOnInv DEF At, locals
  <2>6. Owning' /\ WholeUnlessOverlapped'
    <3>1. pc'[h] = "apply" /\ \A g \in Handler : g # h => pc'[g] = pc[g]
      BY <1>1, <2>1 DEF TypeOK, At
    <3> QED
      BY <1>1, <2>1, <3>1, OwningKept DEF Writing, locals
  <2> QED
    BY <2>2, <2>5, <2>6 DEF IInv
<1>3. CASE Apply(h) \/ (Adopt(h) /\ req[h].op \notin {"putPool", "putOther"})
  <2>1. /\ pc[h] \in {"adopt", "apply"} /\ pc[h] # "idle"
        /\ End(h, TRUE)
        /\ UNCHANGED disk
        /\ memory' \in Settings /\ acked' \in Other
        /\ route' \in {NoPool} \cup SUBSET Proxy
    <3>1. memory \in Settings /\ v[h] \in Settings
      BY <1>1 DEF TypeOK
    <3>2. v[h].pool \in SUBSET Proxy /\ v[h].other \in Other
      BY <3>1 DEF Settings
    <3>3. CASE Apply(h)
      BY <1>1, <3>1, <3>2, <3>3 DEF Apply, TypeOK
    <3>4. CASE Adopt(h) /\ req[h].op \notin {"putPool", "putOther"}
      BY <1>1, <3>1, <3>2, <3>4 DEF Adopt, TypeOK
    <3> QED
      BY <1>3, <3>3, <3>4
  <2>2. TypeOK'
    <3>1. /\ pc' \in [Handler -> {"idle", "list", "configure", "settings", "status",
                                  "switch", "save", "write", "rename", "adopt", "apply"}]
          /\ req' \in [Handler -> Request]
          /\ todo' \in [Handler -> SUBSET (Proxy \cup {Bad})]
          /\ list' \in [Handler -> SUBSET Proxy]
          /\ v' \in [Handler -> Settings]
          /\ fd' \in [Handler -> Inode \cup {NoInode}]
          /\ alone' \subseteq Handler /\ clean' \subseteq Handler
          /\ {overlap', calm'} \subseteq BOOLEAN
      BY <1>1, <2>1, EndTyped
    <3> QED
      BY <1>1, <2>1, <3>1 DEF TypeOK, disk
  <2>3. /\ Sole' /\ Asked' /\ Saving' /\ Routed'
        /\ calm' => Quiet'
        /\ calm' = (TRUE /\ h \in alone)
    BY <1>1, <2>1, EndInv
  <2>4. ASSUME h \in alone
        PROVE  /\ file # NoInode /\ content[file] = v[h] /\ memory' = v[h]
               /\ route' \in {NoPool, v[h].pool}
    <3>1. OnDisk(h) /\ Followed(h)
      BY <1>1, <2>4 DEF Saving, Routed
    <3>2. CASE Apply(h)
      BY <3>1, <3>2 DEF Apply, OnDisk
    <3>3. CASE Adopt(h) /\ req[h].op \notin {"putPool", "putOther"}
      BY <3>1, <3>3 DEF Adopt, OnDisk, Followed
    <3> QED
      BY <1>3, <3>2, <3>3
  <2>5. v[h] \in Settings /\ v[h] # Torn
    BY <1>1, TornAssumption DEF TypeOK
  <2>6. Settled'
    BY <2>1, <2>3, <2>4, <2>5 DEF Settled, Stored, disk
  <2>7. Owning' /\ WholeUnlessOverlapped'
    BY <1>1, <2>1, EndOwning
  <2> QED
    BY <2>2, <2>3, <2>6, <2>7 DEF IInv
<1> QED
  BY <1>2, <1>3

LEMMA RestartInv ==
  ASSUME IInv, Restart
  PROVE  IInv'
<1>1. TypeOK /\ Settled /\ WholeUnlessOverlapped
  BY DEF IInv
<1>2. Stored \in Settings /\ Stored.other \in Other
  BY <1>1, StoredTyped DEF Settings
<1>3. TypeOK'
  BY <1>1, <1>2, IdleTyped, DefaultTyped DEF TypeOK, Restart, disk
<1>4. \A g \in Handler : pc'[g] = "idle"
  BY DEF Restart
<1>5. alone' \subseteq Handler
  BY <1>1 DEF TypeOK, Restart
<1>6. Sole' /\ Asked' /\ Saving' /\ Routed'
  BY <1>4, <1>5 DEF Sole, Asked, Saving, OnDisk, Routed, Followed
<1>7. Settled' /\ Owning' /\ WholeUnlessOverlapped'
  BY <1>1, <1>4 DEF Restart, Settled, Quiet, Stored, Owning, Writing, WholeUnlessOverlapped, disk
<1> QED
  BY <1>3, <1>6, <1>7 DEF IInv

LEMMA StutterInv ==
  ASSUME IInv, UNCHANGED vars
  PROVE  IInv'
BY DEF IInv, TypeOK, Sole, Asked, Saving, OnDisk, Routed, Followed, Settled, Quiet, Stored,
       Owning, Writing, WholeUnlessOverlapped, vars, disk, locals, history, saves

LEMMA StepInv == IInv /\ [Next]_vars => IInv'
<1> SUFFICES ASSUME IInv, [Next]_vars PROVE IInv'
  OBVIOUS
<1>1. CASE \E h \in Handler, r \in Request : Begin(h, r)
  BY <1>1, BeginInv
<1>2. CASE \E h \in Handler : \/ ListToAdd(h) \/ ListToRemove(h) \/ Configure(h)
                              \/ GetSettings(h) \/ ReadStatus(h) \/ Switch(h)
  BY <1>2, RouteInv
<1>3. CASE \E h \in Handler : Open(h) \/ Write(h) \/ Rename(h)
  BY <1>3, SaveInv
<1>4. CASE \E h \in Handler : Refuse(h) \/ NotListed(h) \/ SaveFails(h)
  BY <1>4, EndsInv
<1>5. CASE \E h \in Handler : Adopt(h) \/ Apply(h)
  BY <1>5, SucceedInv
<1>6. CASE Restart
  BY <1>6, RestartInv
<1>7. CASE UNCHANGED vars
  BY <1>7, StutterInv
<1> QED
  BY <1>1, <1>2, <1>3, <1>4, <1>5, <1>6, <1>7 DEF Next

LEMMA Invariance == Spec => []IInv
<1>1. IInv /\ [Next]_vars => IInv'
  BY StepInv
<1> QED
  BY InitInv, <1>1, PTL DEF Spec

-----------------------------------------------------------------------------
(* The theorems *)

\* Route, settings and files hold what their types allow, whoever overlaps whom.
THEOREM TypeCorrect == Spec => []TypeOK
<1>1. IInv => TypeOK
  BY DEF IInv
<1> QED
  BY Invariance, <1>1, PTL

\* A request that runs alone and succeeds leaves file, memory and route in
\* agreement, whatever requests before it have left (proxyPool, adminSettings).
THEOREM LoneChangesSettle == Spec => []LoneChangeSettles
<1>1. IInv => LoneChangeSettles
  BY DEF IInv, Settled, LoneChangeSettles
<1> QED
  BY Invariance, <1>1, PTL

\* Wherever the process dies, settings.json is whole, unless saves overlapped and none since
\* had the temporary file for itself (writeFileAtomic).
THEOREM FilesAreWhole == Spec => []WholeUnlessOverlapped
<1>1. IInv => WholeUnlessOverlapped
  BY DEF IInv
<1> QED
  BY Invariance, <1>1, PTL
=============================================================================
