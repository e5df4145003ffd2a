---------------------------- MODULE RotationProofs ----------------------------
(***************************************************************************)
(* Theorems about Rotation, for any number of requests, accounts, limits   *)
(* and events: unusable accounts are skipped, a pinned account stays.      *)
(***************************************************************************)
EXTENDS Rotation, SequenceTheorems, FiniteSetTheorems, TLAPS

\* Only the holder of rotationMu is past the lock.
Exclusive == \A r \in Request : pc[r] \in {"stay", "probe", "ensure"} => holder = r

\* An account that is shunned has not become usable since; and the one that a
\* request has chosen is not shunned.
Shunning ==
  /\ \A r \in Request : \A a \in shunned[r] : ~Usable(a)
  /\ UnusableAccountsSkipped

\* A choice that nothing has disturbed is the current account and usable; and a
\* request that goes by the pin does not look for another one.
Pinned ==
  /\ kept => rotationID = last /\ last \in Account /\ Usable(last)
  /\ \A r \in Request : pc[r] = "probe" /\ ~cfg[r].auto => ~kept

\* The inductive invariant.
IInv == TypeOK /\ Exclusive /\ Shunning /\ Pinned

-----------------------------------------------------------------------------
(* The list of accounts *)

\* The accounts of a list, by their places.
LEMMA PresentPlace ==
  ASSUME accounts \in Seq(Account), NEW a
  PROVE  Present(a) <=> \E i \in 1..Len(accounts) : accounts[i] = a
BY DEF Present, Range

\* ... and in the next state.
LEMMA PresentPlaceNext ==
  ASSUME accounts' \in Seq(Account), NEW a
  PROVE  Present(a)' <=> \E i \in 1..Len(accounts') : accounts'[i] = a
BY DEF Present, Range

\* The list starts with all accounts, in some order.
LEMMA InitialList == SetToSeq(Account) \in Seq(Account)
<1>1. Cardinality(Account) \in Nat /\ ExistsBijection(1..Cardinality(Account), Account)
  BY NoAccountAssumption, FS_CardinalityType
<1>2. PICK f : f \in Bijection(1..Cardinality(Account), Account)
  BY <1>1 DEF ExistsBijection
<1>3. f \in [1..Cardinality(Account) -> Account] /\ IsInjective(f)
  BY <1>2 DEF Bijection, Injection
<1>4. SetToSeq(Account) \in [1..Cardinality(Account) -> Account]
  BY <1>3 DEF SetToSeq
<1> QED
  BY <1>1, <1>4, SeqDef

\* Taking out one place leaves the accounts of the others.
LEMMA RemoveOne ==
  ASSUME NEW s \in Seq(Account), NEW i \in 1..Len(s)
  PROVE  /\ RemoveAt(s, i) \in Seq(Account)
         /\ \A j \in 1..Len(RemoveAt(s, i)) : \E k \in 1..Len(s) : RemoveAt(s, i)[j] = s[k]
         /\ \A k \in 1..Len(s) : k # i => \E j \in 1..Len(RemoveAt(s, i)) : RemoveAt(s, i)[j] = s[k]
<1> DEFINE r == RemoveAt(s, i)
           front == SubSeq(s, 1, i - 1)
           back == SubSeq(s, i + 1, Len(s))
<1>0. Len(s) \in Nat /\ i \in Nat /\ 1 <= i /\ i <= Len(s)
  OBVIOUS
<1>1. /\ front \in Seq(Account) /\ Len(front) = i - 1 /\ \A j \in 1..(i - 1) : front[j] = s[j]
  BY SubSeqProperties
<1>2. /\ back \in Seq(Account) /\ Len(back) = Len(s) - i
      /\ \A j \in 1..(Len(s) - i) : back[j] = s[(i + 1) + j - 1]
  BY SubSeqProperties
<1>3. r = front \o back
  BY DEF RemoveAt
<1> HIDE DEF front, back, r
<1>4. /\ r \in Seq(Account) /\ Len(r) = Len(s) - 1
      /\ \A j \in 1..(Len(s) - 1) : r[j] = IF j <= i - 1 THEN front[j] ELSE back[j - (i - 1)]
  <2>1. /\ r \in Seq(Account) /\ Len(r) = Len(front) + Len(back)
        /\ \A j \in 1..(Len(front) + Len(back)) :
             r[j] = IF j <= Len(front) THEN front[j] ELSE back[j - Len(front)]
    BY <1>1, <1>2, <1>3, ConcatProperties
  <2>2. Len(front) + Len(back) = Len(s) - 1 /\ Len(front) = i - 1
    BY <1>0, <1>1, <1>2
  <2> QED
    BY <2>1, <2>2
<1>5. \A j \in 1..(Len(s) - 1) : r[j] = IF j <= i - 1 THEN s[j] ELSE s[j + 1]
  <2>1. ASSUME NEW j \in 1..(Len(s) - 1), j > i - 1 PROVE r[j] = s[j + 1]
    <3>1. r[j] = back[j - (i - 1)] /\ j - (i - 1) \in 1..(Len(s) - i)
      BY <1>0, <1>4, <2>1
    <3>2. (i + 1) + (j - (i - 1)) - 1 = j + 1
      BY <1>0
    <3> QED
      BY <1>2, <3>1, <3>2
  <2>2. ASSUME NEW j \in 1..(Len(s) - 1), j <= i - 1 PROVE r[j] = s[j]
    BY <1>0, <1>1, <1>4, <2>2
  <2> QED
    BY <1>0, <2>1, <2>2
<1>6. \A j \in 1..Len(r) : \E k \in 1..Len(s) : r[j] = s[k]
  BY <1>0, <1>4, <1>5
<1>7. ASSUME NEW k \in 1..Len(s), k # i PROVE \E j \in 1..Len(r) : r[j] = s[k]
  <2>1. CASE k < i
    BY <1>0, <1>4, <1>5, <2>1
  <2>2. CASE k > i
    <3>1. k - 1 \in 1..Len(r) /\ r[k - 1] = s[(k - 1) + 1] /\ (k - 1) + 1 = k
      BY <1>0, <1>4, <1>5, <2>2
    <3> QED
      BY <3>1
  <2> QED
    BY <1>0, <1>7, <2>1, <2>2
<1> QED
  BY <1>4, <1>6, <1>7 DEF r

\* What Delete does to the list.
LEMMA DeleteList ==
  ASSUME TypeOK, NEW a \in Account, Delete(a)
  PROVE  /\ accounts' \in Seq(Account)
         /\ \A b : Present(b)' => Present(b)
         /\ \A b : b # a /\ Present(b) => Present(b)'
<1>1. accounts \in Seq(Account)
  BY DEF TypeOK
<1>2. PICK i \in 1..Len(accounts) : accounts[i] = a /\ accounts' = RemoveAt(accounts, i)
  BY DEF Delete
<1> HIDE DEF Delete
<1>3. /\ accounts' \in Seq(Account)
      /\ \A j \in 1..Len(accounts') : \E k \in 1..Len(accounts) : accounts'[j] = accounts[k]
      /\ \A k \in 1..Len(accounts) : k # i => \E j \in 1..Len(accounts') : accounts'[j] = accounts[k]
  BY <1>1, <1>2, RemoveOne
<1>4. ASSUME NEW b, Present(b)' PROVE Present(b)
  BY <1>1, <1>3, <1>4, PresentPlace, PresentPlaceNext
<1>5. ASSUME NEW b, b # a, Present(b) PROVE Present(b)'
  BY <1>1, <1>2, <1>3, <1>5, PresentPlace, PresentPlaceNext
<1> QED
  BY <1>3, <1>4, <1>5

\* What Login does to it.
LEMMA LoginList ==
  ASSUME TypeOK, NEW a \in Account, Login(a)
  PROVE  /\ accounts' \in Seq(Account)
         /\ \A b : Present(b) => Present(b)'
         /\ \A b : b # a /\ Present(b)' => Present(b)
<1>1. accounts \in Seq(Account)
  BY DEF TypeOK
<1>2. CASE accounts' = accounts
  BY <1>1, <1>2 DEF Present
<1>3. CASE accounts' = Append(accounts, a)
  <2>1. /\ accounts' \in Seq(Account) /\ Len(accounts') = Len(accounts) + 1
        /\ accounts'[Len(accounts) + 1] = a
        /\ \A i \in 1..Len(accounts) : accounts'[i] = accounts[i]
    BY <1>1, <1>3
  <2>2. ASSUME NEW b, Present(b) PROVE Present(b)'
    BY <1>1, <2>1, <2>2, PresentPlace, PresentPlaceNext
  <2>3. ASSUME NEW b, b # a, Present(b)' PROVE Present(b)
    BY <1>1, <2>1, <2>3, PresentPlace, PresentPlaceNext
  <2> QED
    BY <2>1, <2>2, <2>3
<1> QED
  BY <1>2, <1>3 DEF Login

\* The round robin's account is one of the list.
LEMMA CandidatePresent ==
  ASSUME TypeOK, accounts # <<>>
  PROVE  /\ Candidate \in Account /\ Present(Candidate)
         /\ (nextIdx + 1) % Len(accounts) \in Nat
<1>1. accounts \in Seq(Account) /\ Len(accounts) \in Nat \ {0} /\ nextIdx \in Nat
  BY DEF TypeOK
<1>2. nextIdx % Len(accounts) \in 0..(Len(accounts) - 1) /\ (nextIdx + 1) % Len(accounts) \in Nat
  BY <1>1
<1>3. (nextIdx % Len(accounts)) + 1 \in 1..Len(accounts)
  BY <1>1, <1>2
<1> QED
  BY <1>1, <1>2, <1>3, PresentPlace DEF Candidate

-----------------------------------------------------------------------------
(* Every step keeps the invariant *)

\* Nobody has asked for an account yet.
LEMMA InitInv == Init => IInv
<1> SUFFICES ASSUME Init PROVE IInv
  OBVIOUS
<1>1. TypeOK
  <2>1. 0 \in 0..MaxProbe /\ 0 \in 0..MaxEvents
    BY MaxProbeAssumption, MaxEventsAssumption
  <2> QED
    BY <2>1, InitialList, ReportsAssumption DEF Init, TypeOK
<1>2. Exclusive
  BY DEF Init, Exclusive
<1>3. Shunning
  BY DEF Init, Shunning, UnusableAccountsSkipped
<1>4. Pinned
  BY DEF Init, Pinned
<1> QED
  BY <1>1, <1>2, <1>3, <1>4 DEF IInv

\* Every step leaves the state well typed.
LEMMA StepType ==
  ASSUME TypeOK, [Next]_vars
  PROVE  TypeOK'
<1> USE DEF request, rotation, outside
<1>1. ASSUME NEW r \in Request, Begin(r) PROVE TypeOK'
  <2>1. {a \in Account : ~Usable(a)} \in SUBSET Account
    OBVIOUS
  <2> QED
    BY <1>1, <2>1 DEF Begin, TypeOK
<1>2. ASSUME NEW r \in Request, Lock(r) PROVE TypeOK'
  BY <1>2 DEF Lock, TypeOK
<1>3. ASSUME NEW r \in Request, Stay(r) PROVE TypeOK'
  <2>1. rotationID \in Account \cup {NoAccount} /\ rotationCount' \in Nat /\ Usable(rotationID) \in BOOLEAN
    BY <1>3 DEF Stay, TypeOK, Usable, Present, Available
  <2> QED
    BY <1>3, <2>1 DEF Stay, Choose, TypeOK
<1>4. ASSUME NEW r \in Request, Leave(r) PROVE TypeOK'
  BY <1>4 DEF Leave, TypeOK
<1>5. ASSUME NEW r \in Request, Finish(r),
             UNCHANGED <<accounts, health, told, dead, settings, switching, events, last, kept>>,
             refused' \subseteq Account \cup {NoAccount},
             nextIdx' \in Nat, rotationID' \in Account \cup {NoAccount}, rotationCount' \in Nat
      PROVE  TypeOK'
  <2>1. 0 \in 0..MaxProbe
    BY MaxProbeAssumption
  <2> QED
    BY <1>5, <2>1 DEF Finish, TypeOK
<1>6. ASSUME NEW r \in Request, NoAccounts(r) PROVE TypeOK'
  BY <1>5, <1>6 DEF NoAccounts, TypeOK
<1>7. ASSUME NEW r \in Request, Take(r) PROVE TypeOK'
  <2>1. Candidate \in Account /\ nextIdx' \in Nat /\ Usable(Candidate) \in BOOLEAN
    BY <1>7, CandidatePresent DEF Take, Advance, Usable, Present, Available
  <2> QED
    BY <1>7, <2>1 DEF Take, Choose, TypeOK
<1>8. ASSUME NEW r \in Request, Skip(r) PROVE TypeOK'
  <2>1. nextIdx' \in Nat
    BY <1>8, CandidatePresent DEF Skip, Advance
  <2>2. probes[r] + 1 \in 0..MaxProbe
    BY <1>8, MaxProbeAssumption DEF Skip, ProbeLimit, TypeOK
  <2> QED
    BY <1>8, <2>1, <2>2 DEF Skip, TypeOK
<1>9. ASSUME NEW r \in Request, GiveUp(r) PROVE TypeOK'
  <2>1. nextIdx' \in Nat
    BY <1>9, CandidatePresent DEF GiveUp, Advance
  <2> QED
    BY <1>5, <1>9, <2>1 DEF GiveUp, TypeOK
<1>10. ASSUME NEW r \in Request, Serve(r) PROVE TypeOK'
  BY <1>5, <1>10 DEF Serve, TypeOK
<1>r. ASSUME NEW r \in Request, Refuse(r) PROVE TypeOK'
  <2>1. chosen[r] \in Account \cup {NoAccount}
    BY DEF TypeOK
  <2> QED
    BY <1>5, <1>r, <2>1 DEF Refuse, outside, TypeOK
<1>e. Event => events' \in 0..MaxEvents
  BY MaxEventsAssumption DEF Event, TypeOK
<1>11. ASSUME NEW a \in Account, Delete(a) PROVE TypeOK'
  <2>1. accounts' \in Seq(Account) /\ kept' \in BOOLEAN
    BY <1>11, DeleteList DEF Delete, Disturbed
  <2> QED
    BY <1>11, <1>e, <2>1 DEF Delete, TypeOK
<1>12. ASSUME NEW a \in Account, Login(a) PROVE TypeOK'
  <2>1. accounts' \in Seq(Account)
    BY <1>12, LoginList
  <2>2. shunned' \in [Request -> SUBSET Account]
    BY <1>12 DEF Login, Rehabilitate, TypeOK
  <2> QED
    BY <1>12, <1>e, <2>1, <2>2 DEF Login, TypeOK
<1>13. ASSUME NEW a \in Account, Die(a) PROVE TypeOK'
  BY <1>13, <1>e DEF Die, TypeOK
<1>14. ASSUME NEW a \in Account, NEW state \in {"cooling", "authFail"}, MarkFailure(a, state) PROVE TypeOK'
  BY <1>14, <1>e DEF MarkFailure, Disturbed, TypeOK
<1>15. ASSUME NEW a \in Account, Recover(a) PROVE TypeOK'
  BY <1>15, <1>e DEF Recover, Rehabilitate, TypeOK
<1>16. ASSUME NEW a \in Account, CheckSwitch(a) PROVE TypeOK'
  BY <1>16, <1>e DEF CheckSwitch, TypeOK
<1>17. CASE Switch
  BY <1>17 DEF Switch, TypeOK
<1>18. CASE SaveSettings
  BY <1>18, <1>e DEF SaveSettings, TypeOK
<1>19. CASE UNCHANGED vars
  BY <1>19 DEF vars, TypeOK
<1> QED
  BY <1>1, <1>2, <1>3, <1>4, <1>6, <1>7, <1>8, <1>9, <1>10, <1>r, <1>11, <1>12, <1>13, <1>14, <1>15,
     <1>16, <1>17, <1>18, <1>19
  DEF Next, Step

\* rotationMu is taken and released by its holder.
LEMMA StepExclusive ==
  ASSUME TypeOK, Exclusive, [Next]_vars
  PROVE  Exclusive'
<1> USE DEF request, rotation, outside
<1>1. ASSUME NEW r \in Request, Begin(r) PROVE Exclusive'
  BY <1>1 DEF Begin, Exclusive, TypeOK
<1>2. ASSUME NEW r \in Request, Lock(r) PROVE Exclusive'
  <2>1. \A s \in Request : pc[s] \notin {"stay", "probe", "ensure"}
    BY <1>2, NobodyAssumption DEF Lock, Exclusive
  <2> QED
    BY <1>2, <2>1 DEF Lock, Exclusive, TypeOK
<1>3. ASSUME NEW r \in Request, Stay(r) \/ Leave(r) \/ Take(r) \/ Skip(r) PROVE Exclusive'
  <2>1. /\ pc[r] \in {"stay", "probe"} /\ UNCHANGED holder
        /\ \A s \in Request : s # r => pc'[s] = pc[s]
    BY <1>3 DEF Stay, Leave, Take, Skip, Choose, TypeOK
  <2> QED
    BY <2>1 DEF Exclusive
<1>4. ASSUME NEW r \in Request, NoAccounts(r) \/ GiveUp(r) \/ Serve(r) \/ Refuse(r) PROVE Exclusive'
  <2>1. /\ pc[r] \in {"probe", "ensure"} /\ pc'[r] = "idle"
        /\ \A s \in Request : s # r => pc'[s] = pc[s]
    BY <1>4 DEF NoAccounts, GiveUp, Serve, Refuse, Finish, TypeOK
  <2>2. \A s \in Request : s # r => pc[s] \notin {"stay", "probe", "ensure"}
    BY <2>1 DEF Exclusive
  <2> QED
    BY <2>1, <2>2 DEF Exclusive
<1>5. ASSUME UNCHANGED <<pc, holder>> PROVE Exclusive'
  BY <1>5 DEF Exclusive
<1> QED
  BY <1>1, <1>2, <1>3, <1>4, <1>5
  DEF Next, Step, Delete, Login, Die, MarkFailure, Recover, CheckSwitch, Switch, SaveSettings, vars

\* Nobody shuns an account that becomes usable, nor chooses one that is shunned.
LEMMA ShunningKept ==
  ASSUME Shunning,
         \A r \in Request : \A a \in shunned'[r] : a \in shunned[r] /\ (Usable(a)' => Usable(a)),
         \A r \in Request : pc'[r] = "ensure" =>
           chosen'[r] \notin shunned[r] \/ (pc[r] = "ensure" /\ chosen'[r] = chosen[r])
  PROVE  Shunning'
BY DEF Shunning, UnusableAccountsSkipped

\* The same when nothing happens to the list and to the health book.
LEMMA UsableKept ==
  ASSUME UNCHANGED <<accounts, health>>
  PROVE  \A a : Usable(a)' <=> Usable(a)
BY DEF Usable, Present, Available

\* Every step leaves unusable accounts shunned, and nobody with one of them.
LEMMA StepShunning ==
  ASSUME TypeOK, Shunning, [Next]_vars
  PROVE  Shunning'
<1> USE DEF request, rotation, outside
<1>1. ASSUME NEW r \in Request, Begin(r) PROVE Shunning'
  <2>1. /\ UNCHANGED <<accounts, health, chosen>> /\ pc'[r] = "lock"
        /\ shunned'[r] = {a \in Account : ~Usable(a)}
        /\ \A s \in Request : s # r => pc'[s] = pc[s] /\ shunned'[s] = shunned[s]
    BY <1>1 DEF Begin, TypeOK
  <2> QED
    BY <2>1, UsableKept DEF Shunning, UnusableAccountsSkipped
<1>2. ASSUME UNCHANGED <<accounts, health, shunned>>,
             \A r \in Request : pc'[r] = "ensure" =>
               chosen'[r] \notin shunned[r] \/ (pc[r] = "ensure" /\ chosen'[r] = chosen[r])
      PROVE  Shunning'
  BY <1>2, UsableKept, ShunningKept
<1>3. ASSUME NEW r \in Request, Lock(r) \/ Leave(r) \/ Skip(r) PROVE Shunning'
  <2>1. /\ UNCHANGED <<accounts, health, shunned, chosen>>
        /\ pc'[r] # "ensure" /\ \A s \in Request : s # r => pc'[s] = pc[s]
    BY <1>3 DEF Lock, Leave, Skip, TypeOK
  <2> QED
    BY <1>2, <2>1
<1>4. ASSUME NEW r \in Request, NEW a, Usable(a), Choose(r, a), UNCHANGED <<accounts, health, shunned>>
      PROVE  Shunning'
  <2>1. /\ chosen'[r] = a /\ a \notin shunned[r]
        /\ \A s \in Request : s # r => pc'[s] = pc[s] /\ chosen'[s] = chosen[s]
    BY <1>4 DEF Choose, Shunning, TypeOK
  <2> QED
    BY <1>2, <1>4, <2>1
<1>5. ASSUME NEW r \in Request, Stay(r) PROVE Shunning'
  BY <1>4, <1>5 DEF Stay
<1>6. ASSUME NEW r \in Request, Take(r) PROVE Shunning'
  <2>1. Usable(Candidate)
    BY <1>6, CandidatePresent DEF Take, Usable
  <2> QED
    BY <1>4, <1>6, <2>1 DEF Take
<1>7. ASSUME NEW r \in Request, NoAccounts(r) \/ GiveUp(r) \/ Serve(r) \/ Refuse(r) PROVE Shunning'
  <2>1. /\ UNCHANGED <<accounts, health>> /\ pc'[r] # "ensure" /\ shunned'[r] = {}
        /\ \A s \in Request : s # r => /\ pc'[s] = pc[s] /\ chosen'[s] = chosen[s]
                                       /\ shunned'[s] = shunned[s]
    BY <1>7 DEF NoAccounts, GiveUp, Serve, Refuse, Finish, TypeOK
  <2> QED
    BY <2>1, UsableKept, ShunningKept
<1>8. ASSUME UNCHANGED <<pc, chosen>>,
             \A r \in Request : \A a \in shunned'[r] : a \in shunned[r] /\ (Usable(a)' => Usable(a))
      PROVE  Shunning'
  BY <1>8, ShunningKept
<1>9. ASSUME NEW a \in Account, Delete(a) PROVE Shunning'
  <2>1. UNCHANGED <<pc, chosen, health, shunned>>
    BY <1>9 DEF Delete
  <2>2. \A b : Usable(b)' => Usable(b)
    BY <1>9, <2>1, DeleteList DEF Usable, Available
  <2> QED
    BY <1>8, <2>1, <2>2
<1>10. ASSUME NEW a \in Account, Login(a) PROVE Shunning'
  <2>1. /\ UNCHANGED <<pc, chosen, health>>
        /\ \A r \in Request : shunned'[r] \subseteq shunned[r] /\ (Available(a) => a \notin shunned'[r])
    BY <1>10 DEF Login, Rehabilitate, TypeOK
  <2>2. \A b : b # a /\ Usable(b)' => Usable(b)
    BY <1>10, <2>1, LoginList DEF Usable, Available
  <2>3. ~Available(a) => ~Usable(a)'
    BY <2>1 DEF Usable, Available
  <2> QED
    BY <1>8, <2>1, <2>2, <2>3
<1>11. ASSUME NEW a \in Account, NEW state \in {"cooling", "authFail"}, MarkFailure(a, state) PROVE Shunning'
  <2>1. UNCHANGED <<pc, chosen, accounts, shunned>> /\ \A b \in Account : health'[b] = "ok" => health[b] = "ok"
    BY <1>11 DEF MarkFailure, TypeOK
  <2>2. \A b \in Account : Usable(b)' => Usable(b)
    BY <2>1 DEF Usable, Present, Available
  <2>3. \A r \in Request : shunned[r] \subseteq Account
    BY DEF TypeOK
  <2> QED
    BY <1>8, <2>1, <2>2, <2>3
<1>12. ASSUME NEW a \in Account, Recover(a) PROVE Shunning'
  <2>1. /\ UNCHANGED <<pc, chosen, accounts>>
        /\ \A b \in Account : b # a => health'[b] = health[b]
        /\ \A r \in Request : shunned'[r] = shunned[r] \ {a} /\ shunned[r] \subseteq Account
    BY <1>12 DEF Recover, Rehabilitate, TypeOK
  <2>2. \A b \in Account : b # a /\ Usable(b)' => Usable(b)
    BY <2>1 DEF Usable, Present, Available
  <2> QED
    BY <1>8, <2>1, <2>2
<1>13. CASE UNCHANGED <<accounts, health, shunned, pc, chosen>>
  BY <1>2, <1>13
<1> QED
  BY <1>1, <1>3, <1>5, <1>6, <1>7, <1>9, <1>10, <1>11, <1>12, <1>13
  DEF Next, Step, Die, CheckSwitch, Switch, SaveSettings, vars

\* Every step leaves an undisturbed choice in force.
LEMMA StepPinned ==
  ASSUME TypeOK, Exclusive, Pinned, [Next]_vars
  PROVE  Pinned'
<1> USE DEF request, rotation, outside
\* Steps that choose no account and leave the current one.
<1>1. ASSUME UNCHANGED <<rotationID, last, cfg>>, kept' => kept /\ Usable(last)',
             \A r \in Request : pc'[r] = "probe" => pc[r] = "probe" \/ cfg[r].auto \/ ~kept
      PROVE  Pinned'
  BY <1>1 DEF Pinned
<1>2. ASSUME NEW r \in Request, Begin(r) PROVE Pinned'
  <2>1. /\ UNCHANGED <<accounts, health, rotationID, last, kept>> /\ pc'[r] = "lock"
        /\ \A s \in Request : s # r => pc'[s] = pc[s] /\ cfg'[s] = cfg[s]
    BY <1>2 DEF Begin, TypeOK
  <2> QED
    BY <2>1, UsableKept DEF Pinned
<1>3. ASSUME NEW r \in Request, Lock(r) PROVE Pinned'
  <2>1. /\ UNCHANGED <<accounts, health, rotationID, last, kept, cfg>>
        /\ pc'[r] = "probe" => ~Stays(r)
        /\ \A s \in Request : s # r => pc'[s] = pc[s]
    BY <1>3 DEF Lock, TypeOK
  <2>2. ~Stays(r) => cfg[r].auto \/ ~kept
    BY NoAccountAssumption DEF Stays, Pinned
  <2> QED
    BY <1>1, <2>1, <2>2, UsableKept DEF Pinned
<1>4. ASSUME NEW r \in Request, NEW a \in Account, pc[r] \in {"stay", "probe"}, Choose(r, a),
             rotationID' = a, UNCHANGED <<accounts, health, cfg>>
      PROVE  Pinned'
  <2>1. /\ last' = a /\ kept' = Usable(a) /\ pc'[r] = "ensure"
        /\ \A s \in Request : s # r => pc'[s] = pc[s]
    BY <1>4 DEF Choose, TypeOK
  <2>2. \A s \in Request : s # r => pc[s] # "probe"
    BY <1>4 DEF Exclusive
  <2> QED
    BY <1>4, <2>1, <2>2, UsableKept DEF Pinned
<1>5. ASSUME NEW r \in Request, Stay(r) PROVE Pinned'
  <2>1. rotationID \in Account \cup {NoAccount} /\ Usable(rotationID)
    BY <1>5 DEF Stay, TypeOK
  <2>2. rotationID \in Account
    BY <2>1, PresentPlace DEF Usable, TypeOK
  <2> QED
    BY <1>4, <1>5, <2>2 DEF Stay
<1>6. ASSUME NEW r \in Request, Take(r) PROVE Pinned'
  BY <1>4, <1>6, CandidatePresent DEF Take
<1>7. ASSUME NEW r \in Request, Leave(r) PROVE Pinned'
  <2>1. ~kept /\ UNCHANGED kept
    BY <1>7 DEF Leave, Pinned
  <2> QED
    BY <2>1 DEF Pinned
<1>8. ASSUME NEW r \in Request, Skip(r) PROVE Pinned'
  BY <1>1, <1>8, UsableKept DEF Skip, Pinned
<1>9. ASSUME NEW r \in Request, NoAccounts(r) \/ GiveUp(r) \/ Serve(r) \/ Refuse(r) PROVE Pinned'
  <2>1. /\ UNCHANGED <<accounts, health, last, kept>> /\ pc'[r] = "idle"
        /\ \A s \in Request : s # r => pc'[s] = pc[s] /\ cfg'[s] = cfg[s]
    BY <1>9 DEF NoAccounts, GiveUp, Serve, Refuse, Finish, TypeOK
  <2>2. rotationID' = rotationID \/ ~kept
    <3>1. accounts = <<>> => \A a : ~Usable(a)
      BY PresentPlace DEF Usable, TypeOK
    <3> QED
      BY <1>9, <3>1 DEF NoAccounts, GiveUp, Serve, Refuse, Pinned
  <2> QED
    BY <2>1, <2>2, UsableKept DEF Pinned
<1>10. ASSUME NEW a \in Account, Delete(a) PROVE Pinned'
  <2>1. UNCHANGED <<rotationID, last, cfg, pc, health>> /\ (kept' => kept /\ last # a)
    BY <1>10 DEF Delete, Disturbed
  <2>2. kept' => Usable(last)'
    BY <1>10, <2>1, DeleteList DEF Pinned, Usable, Available
  <2> QED
    BY <1>1, <2>1, <2>2
<1>11. ASSUME NEW a \in Account, Login(a) PROVE Pinned'
  <2>1. UNCHANGED <<rotationID, last, cfg, pc, health, kept>>
    BY <1>11 DEF Login
  <2>2. kept => Usable(last)'
    BY <1>11, <2>1, LoginList DEF Pinned, Usable, Available
  <2> QED
    BY <1>1, <2>1, <2>2
<1>12. ASSUME NEW a \in Account, NEW state \in {"cooling", "authFail"}, MarkFailure(a, state) PROVE Pinned'
  <2>1. /\ UNCHANGED <<rotationID, last, cfg, pc, accounts>> /\ (kept' => kept /\ last # a)
        /\ \A b \in Account : b # a => health'[b] = health[b]
    BY <1>12 DEF MarkFailure, Disturbed, TypeOK
  <2>2. kept' => Usable(last)'
    BY <2>1 DEF Pinned, Usable, Present, Available
  <2> QED
    BY <1>1, <2>1, <2>2
<1>13. ASSUME NEW a \in Account, Recover(a) PROVE Pinned'
  <2>1. /\ UNCHANGED <<rotationID, last, cfg, pc, accounts, kept>>
        /\ \A b \in Account : health[b] = "ok" => health'[b] = "ok"
    BY <1>13 DEF Recover, TypeOK
  <2>2. kept' => Usable(last)'
    BY <2>1 DEF Pinned, Usable, Present, Available
  <2> QED
    BY <1>1, <2>1, <2>2
<1>14. CASE Switch
  BY <1>14 DEF Switch, Pinned
<1>15. CASE UNCHANGED <<accounts, health, rotationID, last, cfg, pc, kept>>
  BY <1>1, <1>15, UsableKept DEF Pinned
<1> QED
  BY <1>2, <1>3, <1>5, <1>6, <1>7, <1>8, <1>9, <1>10, <1>11, <1>12, <1>13, <1>14, <1>15
  DEF Next, Step, Die, CheckSwitch, SaveSettings, vars

-----------------------------------------------------------------------------
(* The theorems *)

\* The invariant holds throughout.
LEMMA Invariance == Spec => []IInv
<1>1. IInv /\ [Next]_vars => IInv'
  BY StepType, StepExclusive, StepShunning, StepPinned DEF IInv
<1> QED
  BY <1>1, InitInv, PTL DEF Spec

\* The variables have their types: no probing goes beyond its limit (admin.go:523).
THEOREM TypeCorrect == Spec => []TypeOK
<1>1. IInv => TypeOK
  BY DEF IInv
<1> QED
  BY <1>1, Invariance, PTL

\* A request is not given an account that the store has been without, or the health
\* book has ruled out, ever since it came in (admin.go:491-501), whatever changes
\* while it waits and probes.  In the program nobody reports failures, so this is
\* about deleted accounts there.
THEOREM UnusableAreSkipped == Spec => []UnusableAccountsSkipped
<1>1. IInv => UnusableAccountsSkipped
  BY DEF IInv, Shunning
<1> QED
  BY <1>1, Invariance, PTL

\* With rotation disabled the next request gets the account of the one before it
\* (admin.go:464), unless that became unusable or an administrator switched.
THEOREM PinHolds == Spec => PinnedAccountIsStable
<1>1. ASSUME IInv, [Next]_vars, NEW r \in Request,
             pc[r] # "ensure", pc'[r] = "ensure", kept, ~cfg[r].auto
      PROVE  chosen'[r] = last
  <2>1. TypeOK /\ Pinned
    BY <1>1 DEF IInv
  <2>2. Stay(r) \/ Take(r)
    <3>1. \A s \in Request : s # r /\ (Begin(s) \/ Step(s)) => pc'[r] = pc[r]
      BY <2>1 DEF Begin, Step, Lock, Stay, Leave, NoAccounts, Take, Skip, GiveUp, Serve, Refuse,
                  Choose, Finish, request, TypeOK
    <3>2. (\E s \in Request : Begin(s) \/ Step(s)) \/ pc' = pc
      BY <1>1 DEF Next, Delete, Login, Die, MarkFailure, Recover, CheckSwitch, Switch, SaveSettings,
                  vars, request
    <3>3. Begin(r) \/ Step(r)
      BY <1>1, <3>1, <3>2
    <3> QED
      BY <1>1, <2>1, <3>3 DEF Begin, Step, Lock, Leave, NoAccounts, Skip, GiveUp, Serve, Refuse,
                              Finish, request, TypeOK
  <2>3. pc[r] # "probe"
    BY <1>1, <2>1 DEF Pinned
  <2>4. Stay(r)
    BY <2>2, <2>3 DEF Take
  <2> QED
    BY <1>1, <2>1, <2>4 DEF Stay, Choose, Pinned, TypeOK
<1>2. IInv /\ [Next]_vars =>
        [\A r \in Request : (pc[r] # "ensure" /\ pc'[r] = "ensure" /\ kept /\ ~cfg[r].auto)
                            => chosen'[r] = last]_vars
  BY <1>1
<1> QED
  BY <1>2, Invariance, PTL DEF Spec, PinnedAccountIsStable
=============================================================================
