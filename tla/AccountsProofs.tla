--------------------------- MODULE AccountsProofs ---------------------------
(***************************************************************************)
(* Proofs about the user accounts, for any number of requests, devices,    *)
(* members, checkouts and teams: RefreshedOnce (provider tokens),          *)
(* KeysMatchCodes (device flow), OwnerRemains and AccessIsMembership       *)
(* (organizations), BooksBalance (billing), with the types.                *)
(*                                                                         *)
(* None of them is inductive.  Each request works on what it read earlier, *)
(* so that the invariants say what a request in progress still knows: that *)
(* a refresh which holds the row lock read the row's own token, that a key *)
(* is created only for an approval that was written, and that whoever is   *)
(* being added or removed is accounted for on both sides of the two        *)
(* stores.  No budget of a team, and none a callback is about to write, is *)
(* above what the team's checkouts raised it by.                           *)
(***************************************************************************)
EXTENDS ProviderTokens, DeviceFlow, Orgs, Billing, FiniteSetTheorems, TLAPS

-----------------------------------------------------------------------------
(* Provider tokens: one refresh per token.                                 *)

Committing(r) == load[r].pc = "commit"

RowHasToken == row.id = 0 => row = NoRow

(* A token that was not issued was not presented. *)
UnissuedUnspent == \A i \in 1 .. MaxTokens : i > issued => presented[i] = 0

(* Whoever waits has seen a row; whoever holds the lock has its token. *)
LoadsSeeRow ==
    \A r \in Loads :
        /\ load[r] # IdleLoad => row # NoRow
        /\ load[r].pc \in {"refresh", "commit"} => load[r].id = row.id

(* A successor that is on its way to the row is unspent. *)
SuccessorsUnspent == \A r \in Loads : Committing(r) => presented[load[r].new] = 0

ProviderInv ==
    /\ ProviderTypeOK
    /\ RowHasToken
    /\ UnissuedUnspent
    /\ LoadsSeeRow
    /\ SuccessorsUnspent
    /\ RefreshedOnce

(* The records of a load and of a login. *)
LEMMA LoadShape ==
    ASSUME ProviderTypeOK, NEW r \in Loads
    PROVE  /\ load[r] # IdleLoad <=> load[r].pc # "idle"
           /\ load[r].pc \in {"idle", "wait", "refresh", "commit"}
           /\ load[r].pc # "idle" => load[r].id \in 1 .. issued
           /\ load[r].pc = "commit" => load[r].new \in 1 .. issued
  BY DEF ProviderTypeOK, LoadType, IdleLoad

LEMMA LoginShape ==
    ASSUME ProviderTypeOK, NEW l \in Logins
    PROVE  login[l].pc \in {"select", "write"} => login[l].new \in 1 .. issued
  BY DEF ProviderTypeOK, LoginType, IdleLogin

(* Types that speak of what was issued stay valid when more is issued. *)
LEMMA IssueMore ==
    ASSUME ProviderTypeOK, issued' = issued + 1, IssuePair
    PROVE  /\ issued' \in 0 .. MaxTokens
           /\ row \in [id : 0 .. issued', life : 0 .. 3]
           /\ load \in [Loads -> LoadType']
           /\ login \in [Logins -> LoginType']
           /\ stale \subseteq 1 .. issued'
           /\ kept \in 0 .. issued'
  <1> USE ProviderAssumption
  <1>1. 1 .. issued \subseteq 1 .. issued' /\ 0 .. issued \subseteq 0 .. issued'
    BY DEF ProviderTypeOK
  <1>2. LoadType \subseteq LoadType' /\ LoginType \subseteq LoginType'
    BY <1>1 DEF LoadType, LoginType, IdleLoad, IdleLogin
  <1> QED
    BY <1>1, <1>2 DEF ProviderTypeOK, IssuePair

LEMMA ProviderTypeStep ==
    ASSUME ProviderInv, [ProviderNext]_providerVars
    PROVE  ProviderTypeOK'
  <1> USE ProviderAssumption
  <1>a. ProviderTypeOK
    BY DEF ProviderInv
  <1> DEFINE ServedOK == /\ served \subseteq [mayRefresh : BOOLEAN, due : BOOLEAN]
                         /\ [mayRefresh |-> TRUE, due |-> TRUE] \notin served
  <1>b. ASSUME NEW x, NEW b \in BOOLEAN, Serve(b, x), b => ~NeedsRefresh(x)
        PROVE  ServedOK'
    <2>1. NeedsRefresh(x) \in BOOLEAN
      BY DEF NeedsRefresh
    <2>2. [mayRefresh |-> b, due |-> NeedsRefresh(x)] # [mayRefresh |-> TRUE, due |-> TRUE]
      BY <1>b
    <2> QED
      BY <1>a, <1>b, <2>1, <2>2 DEF ProviderTypeOK, Serve
  <1>e. UNCHANGED served => ServedOK'
    BY <1>a DEF ProviderTypeOK
  <1>1. ASSUME NEW r \in Loads, LoadFast(r) PROVE ProviderTypeOK'
    <2>1. row.id \in 1 .. issued
      BY <1>1, <1>a DEF LoadFast, ProviderInv, RowHasToken, ProviderTypeOK
    <2>2. load' \in [Loads -> LoadType]
      BY <1>1, <1>a, <2>1 DEF LoadFast, ProviderTypeOK, LoadType
    <2>3. \A q \in Loads : rowLock' = q <=> load'[q].pc \in {"refresh", "commit"}
      BY <1>1, <1>a DEF LoadFast, ProviderTypeOK, IdleLoad
    <2>4. ServedOK'
      BY <1>1, <1>b, <1>e DEF LoadFast
    <2> QED
      BY <1>1, <1>a, <2>2, <2>3, <2>4 DEF LoadFast, ProviderTypeOK, LoadType, LoginType
  <1>2. ASSUME NEW r \in Loads, Acquire(r) PROVE ProviderTypeOK'
    <2>1. row.id \in 1 .. issued
      BY <1>2, <1>a DEF Acquire, ProviderInv, RowHasToken, ProviderTypeOK, LoadsSeeRow, IdleLoad
    <2>2. load' \in [Loads -> LoadType]
      <3>1. IdleLoad \in LoadType /\ [pc |-> "refresh", id |-> row.id] \in LoadType
        BY <2>1 DEF LoadType
      <3>2. load \in [Loads -> LoadType]
        BY <1>a DEF ProviderTypeOK
      <3> QED
        BY <1>2, <3>1, <3>2 DEF Acquire
    <2>3. /\ rowLock' \in Loads \cup {"free"}
          /\ \A q \in Loads : rowLock' = q <=> load'[q].pc \in {"refresh", "commit"}
      <3>1. /\ rowLock = "free" /\ \A q \in Loads : load[q].pc \notin {"refresh", "commit"}
            /\ load \in [Loads -> LoadType] /\ r # "free"
        BY <1>2, <1>a DEF Acquire, ProviderTypeOK
      <3>2. CASE rowLock' = rowLock /\ load' = [load EXCEPT ![r] = IdleLoad]
        BY <3>1, <3>2 DEF IdleLoad
      <3>3. CASE rowLock' = r /\ load' = [load EXCEPT ![r] = [pc |-> "refresh", id |-> row.id]]
        BY <3>1, <3>3
      <3> QED
        BY <1>2, <3>2, <3>3 DEF Acquire
    <2>4. ServedOK'
      BY <1>2, <1>b, <1>e DEF Acquire
    <2> QED
      BY <1>2, <1>a, <2>2, <2>3, <2>4 DEF Acquire, ProviderTypeOK, LoadType, LoginType
  <1>3. ASSUME NEW r \in Loads, LockTimeout(r) PROVE ProviderTypeOK'
    BY <1>3, <1>a DEF LockTimeout, ProviderTypeOK, LoadType, LoginType, IdleLoad
  <1>4. ASSUME NEW r \in Loads, Refresh(r) PROVE ProviderTypeOK'
    <2>1. load[r].id \in 1 .. MaxTokens /\ load[r].id \in 1 .. issued
      BY <1>4, <1>a, LoadShape DEF Refresh, ProviderTypeOK
    <2>2. presented' \in [1 .. MaxTokens -> 0 .. 2]
      <3>1. presented \in [1 .. MaxTokens -> 0 .. 2]
        BY <1>a DEF ProviderTypeOK
      <3>2. presented[load[r].id] \in 0 .. 2
        BY <3>1, <2>1
      <3>3. (IF presented[load[r].id] = 2 THEN 2 ELSE presented[load[r].id] + 1) \in 0 .. 2
        BY <3>2
      <3> QED
        BY <1>4, <3>1, <3>3 DEF Refresh
    <2>3. CASE IssuePair /\ load' = [load EXCEPT ![r] =
                  [pc |-> "commit", id |-> load[r].id, new |-> issued + 1]] /\ UNCHANGED rowLock
      <3>1. issued' = issued + 1
        BY <2>3 DEF IssuePair
      <3>2. issued + 1 \in 1 .. issued' /\ load[r].id \in 1 .. issued'
        BY <3>1, <2>1, <1>a DEF ProviderTypeOK
      <3>3. load' \in [Loads -> LoadType']
        BY <2>3, <1>a, <3>1, <3>2, IssueMore DEF LoadType
      <3>4. \A q \in Loads : rowLock' = q <=> load'[q].pc \in {"refresh", "commit"}
        BY <2>3, <1>4, <1>a DEF ProviderTypeOK, Refresh
      <3> QED
        BY <1>4, <1>a, <2>2, <2>3, <3>1, <3>3, <3>4, IssueMore DEF Refresh, ProviderTypeOK
    <2>4. CASE Abandon(r) /\ UNCHANGED issued
      BY <1>4, <1>a, <2>2, <2>4 DEF Refresh, Abandon, ProviderTypeOK, LoadType, LoginType, IdleLoad
    <2> QED
      BY <1>4, <2>3, <2>4 DEF Refresh
  <1>5. ASSUME NEW r \in Loads, RefreshFails(r) PROVE ProviderTypeOK'
    BY <1>5, <1>a DEF RefreshFails, Abandon, ProviderTypeOK, LoadType, LoginType, IdleLoad
  <1>6. ASSUME NEW r \in Loads, CommitRefresh(r) PROVE ProviderTypeOK'
    <2>1. row' \in [id : 0 .. issued, life : 0 .. 3]
      BY <1>6, <1>a, LoadShape DEF CommitRefresh, ProviderTypeOK, FreshPair
    <2>2. ServedOK'
      <3>1. ~NeedsRefresh(FreshPair(load[r].new))
        BY DEF FreshPair, NeedsRefresh
      <3>2. Serve(TRUE, FreshPair(load[r].new))
        BY <1>6 DEF CommitRefresh
      <3> HIDE DEF ServedOK
      <3> QED
        BY <1>b, <3>1, <3>2
    <2> QED
      BY <1>6, <1>a, <2>1, <2>2
      DEF CommitRefresh, Abandon, ProviderTypeOK, LoadType, LoginType, IdleLoad
  <1>7. ASSUME NEW r \in Loads, LoseRefresh(r) PROVE ProviderTypeOK'
    <2>1. stale' \subseteq 1 .. issued
      BY <1>7, <1>a, LoadShape DEF LoseRefresh, ProviderTypeOK
    <2> QED
      BY <1>7, <1>a, <2>1
      DEF LoseRefresh, Abandon, ProviderTypeOK, LoadType, LoginType, IdleLoad
  <1>8. ASSUME NEW l \in Logins, Login(l) PROVE ProviderTypeOK'
    <2>1. kept \in 1 .. issued
      BY <1>8, <1>a DEF Login, ProviderTypeOK
    <2>2. login' \in [Logins -> LoginType]
      BY <1>8, <1>a, <2>1 DEF Login, LoginType, ProviderTypeOK
    <2> QED
      BY <1>8, <1>a, <2>2 DEF Login, ProviderTypeOK, LoadType, LoginType
  <1>9. ASSUME NEW l \in Logins, StoreTokens(l) PROVE ProviderTypeOK'
    <2>1. login[l].new \in 1 .. issued
      BY <1>9, <1>a, LoginShape DEF StoreTokens
    <2>3. row \in [id : 0 .. issued, life : 0 .. 3] /\ stale \subseteq 1 .. issued /\ issued \in Nat
      BY <1>a DEF ProviderTypeOK
    <2>4. FreshPair(login[l].new) \in [id : 0 .. issued, life : 0 .. 3]
      BY <2>1, <2>3 DEF FreshPair
    <2>2. row' \in [id : 0 .. issued, life : 0 .. 3] /\ stale' \subseteq 1 .. issued
      BY <1>9, <2>1, <2>3, <2>4 DEF StoreTokens
    <2> QED
      BY <1>9, <1>a, <2>2 DEF StoreTokens, ProviderTypeOK, LoadType, LoginType
  <1>12. ASSUME NEW l \in Logins, SelectRow(l) PROVE ProviderTypeOK'
    <2>1. login[l].new \in 1 .. issued /\ (row # NoRow) \in BOOLEAN
      BY <1>12, <1>a, LoginShape DEF SelectRow
    <2>2. login' \in [Logins -> LoginType]
      BY <1>12, <1>a, <2>1 DEF SelectRow, LoginType, ProviderTypeOK
    <2> QED
      BY <1>12, <1>a, <2>2 DEF SelectRow, ProviderTypeOK, LoadType, LoginType
  <1>13. CASE BrokerLogin
    <2>1. issued' = issued + 1 /\ kept' \in 0 .. issued'
      BY <1>13, <1>a DEF BrokerLogin, IssuePair, ProviderTypeOK
    <2> QED
      BY <1>13, <1>a, <2>1, IssueMore DEF BrokerLogin, ProviderTypeOK
  <1>10. CASE Age
    BY <1>10, <1>a DEF Age, ProviderTypeOK, LoadType, LoginType
  <1>11. CASE UNCHANGED providerVars
    BY <1>11, <1>a DEF providerVars, ProviderTypeOK, LoadType, LoginType
  <1> QED
    BY <1>1, <1>2, <1>3, <1>4, <1>5, <1>6, <1>7, <1>8, <1>9, <1>10, <1>11, <1>12, <1>13 DEF ProviderNext

(* What a step on one load leaves to show: the other loads are as before.  *)
LEMMA OnlyHolder ==
    ASSUME ProviderTypeOK, NEW r \in Loads, load[r].pc \in {"refresh", "commit"}
    PROVE  \A q \in Loads : load[q].pc \in {"refresh", "commit"} => q = r
  BY DEF ProviderTypeOK

LEMMA ProviderInvStep ==
    ASSUME ProviderInv, [ProviderNext]_providerVars
    PROVE  ProviderInv'
  <1> USE ProviderAssumption
  <1>a. ProviderTypeOK /\ ProviderTypeOK'
    BY ProviderTypeStep DEF ProviderInv
  <1> DEFINE Rest == RowHasToken /\ UnissuedUnspent /\ LoadsSeeRow /\ SuccessorsUnspent /\ RefreshedOnce
  <1>b. Rest
    BY DEF ProviderInv
  (* Steps of a load that change neither the row nor what was presented. *)
  <1>c. ASSUME NEW r \in Loads, UNCHANGED <<row, login, issued, presented>>,
               stale \subseteq stale',
               load[r].pc = "commit" => load[r].id \in stale',
               load' = [load EXCEPT ![r] = IdleLoad]
        PROVE  Rest'
    <2>1. \A q \in Loads : load'[q] = IF q = r THEN IdleLoad ELSE load[q]
      BY <1>a, <1>c DEF ProviderTypeOK
    <2>2. (RowHasToken /\ UnissuedUnspent)'
      BY <1>b, <1>c DEF RowHasToken, UnissuedUnspent
    <2>3. LoadsSeeRow'
      BY <1>b, <1>c, <2>1 DEF LoadsSeeRow, IdleLoad
    <2>4. SuccessorsUnspent'
      BY <1>b, <1>c, <2>1 DEF SuccessorsUnspent, IdleLoad, Committing
    <2>5. PresentedOnce'
      BY <1>b, <1>c DEF RefreshedOnce, PresentedOnce
    <2>6. StoredIsUnspent'
      BY <1>b, <1>c, <2>1 DEF RefreshedOnce, StoredIsUnspent, IdleLoad
    <2> QED
      BY <2>2, <2>3, <2>4, <2>5, <2>6 DEF RefreshedOnce
  <1>d. ASSUME NEW r \in Loads, UNCHANGED <<row, login, issued, presented, stale>>,
               load[r].pc # "commit", row # NoRow,
               NEW pc \in {"wait", "refresh"},
               load' = [load EXCEPT ![r] = [pc |-> pc, id |-> row.id]]
        PROVE  Rest'
    <2>1. \A q \in Loads : load'[q] = IF q = r THEN [pc |-> pc, id |-> row.id] ELSE load[q]
      BY <1>a, <1>d DEF ProviderTypeOK
    <2>2. (RowHasToken /\ UnissuedUnspent)'
      BY <1>b, <1>d DEF RowHasToken, UnissuedUnspent
    <2>3. LoadsSeeRow'
      BY <1>b, <1>d, <2>1 DEF LoadsSeeRow
    <2>4. SuccessorsUnspent'
      BY <1>b, <1>d, <2>1 DEF SuccessorsUnspent, Committing
    <2>5. PresentedOnce'
      BY <1>b, <1>d DEF RefreshedOnce, PresentedOnce
    <2>6. StoredIsUnspent'
      BY <1>b, <1>d, <2>1 DEF RefreshedOnce, StoredIsUnspent
    <2> QED
      BY <2>2, <2>3, <2>4, <2>5, <2>6 DEF RefreshedOnce
  <1>1. ASSUME NEW r \in Loads, LoadFast(r) PROVE Rest'
    <2>1. CASE UNCHANGED load
      BY <1>1, <1>b, <2>1 DEF LoadFast, RowHasToken, UnissuedUnspent, LoadsSeeRow,
         SuccessorsUnspent, RefreshedOnce, PresentedOnce, StoredIsUnspent, Committing
    <2>2. CASE load' = [load EXCEPT ![r] = [pc |-> "wait", id |-> row.id]]
      <3> HIDE DEF Rest
      <3>1. load[r].pc # "commit" /\ row # NoRow
        BY <1>1 DEF LoadFast, IdleLoad
      <3>2. UNCHANGED <<row, login, issued, presented, stale>>
        BY <1>1 DEF LoadFast
      <3> QED
        BY <1>d, <2>2, <3>1, <3>2
    <2> QED
      BY <1>1, <2>1, <2>2 DEF LoadFast
  <1>2. ASSUME NEW r \in Loads, Acquire(r) PROVE Rest'
    <2>1. row # NoRow
      BY <1>2, <1>b DEF Acquire, LoadsSeeRow, IdleLoad
    <2>2. CASE load' = [load EXCEPT ![r] = IdleLoad]
      BY <1>2, <1>c, <2>2 DEF Acquire
    <2>3. CASE load' = [load EXCEPT ![r] = [pc |-> "refresh", id |-> row.id]]
      BY <1>2, <1>d, <2>1, <2>3 DEF Acquire
    <2> QED
      BY <1>2, <2>2, <2>3 DEF Acquire
  <1>3. ASSUME NEW r \in Loads, LockTimeout(r) PROVE Rest'
    BY <1>3, <1>c DEF LockTimeout
  <1>4. ASSUME NEW r \in Loads, Refresh(r) PROVE Rest'
    <2> DEFINE i == load[r].id
    <2>1. /\ i \in 1 .. issued /\ i \in 1 .. MaxTokens
          /\ i = row.id /\ row # NoRow
          /\ \A q \in Loads : load[q].pc # "commit"
      BY <1>4, <1>a, <1>b, LoadShape, OnlyHolder DEF Refresh, LoadsSeeRow, ProviderTypeOK
    <2>2. /\ presented[i] \in 0 .. 2
          /\ \A j \in 1 .. MaxTokens : presented'[j] =
                IF j = i THEN IF presented[i] = 2 THEN 2 ELSE presented[i] + 1 ELSE presented[j]
          /\ UNCHANGED <<row, login, stale>>
      BY <1>4, <1>a, <2>1 DEF Refresh, ProviderTypeOK
    <2> HIDE DEF i
    <2>5. RowHasToken'
      BY <1>b, <2>2 DEF RowHasToken
    <2>7. CASE presented[i] = 0 /\ IssuePair /\ load' = [load EXCEPT ![r] =
                  [pc |-> "commit", id |-> i, new |-> issued + 1]]
      <3>1. \A q \in Loads : load'[q] =
               IF q = r THEN [pc |-> "commit", id |-> i, new |-> issued + 1] ELSE load[q]
        BY <1>a, <2>7 DEF ProviderTypeOK
      <3>2. issued' = issued + 1 /\ issued \in Nat /\ issued + 1 \in 1 .. MaxTokens
        BY <1>a, <2>7 DEF IssuePair, ProviderTypeOK
      <3>3. UnissuedUnspent'
        BY <1>b, <2>1, <2>2, <3>2 DEF UnissuedUnspent
      <3>4. LoadsSeeRow'
        BY <1>b, <2>1, <2>2, <3>1 DEF LoadsSeeRow
      <3>5. SuccessorsUnspent'
        <4>1. presented'[issued + 1] = 0
          BY <1>b, <2>1, <2>2, <3>2 DEF UnissuedUnspent
        <4> QED
          BY <2>1, <3>1, <4>1 DEF SuccessorsUnspent, Committing
      <3>6. PresentedOnce'
        BY <1>b, <2>2, <2>7 DEF RefreshedOnce, PresentedOnce
      <3>7. StoredIsUnspent'
        BY <2>1, <2>2, <3>1 DEF StoredIsUnspent
      <3> QED
        BY <2>5, <3>3, <3>4, <3>5, <3>6, <3>7 DEF RefreshedOnce
    <2>8. CASE presented[i] > 0 /\ Abandon(r) /\ UNCHANGED issued
      <3>1. \A q \in Loads : load'[q] = IF q = r THEN IdleLoad ELSE load[q]
        BY <1>a, <2>8 DEF ProviderTypeOK, Abandon
      <3>2. i \in stale
        BY <1>b, <2>1, <2>2, <2>8 DEF RefreshedOnce, StoredIsUnspent
      <3>3. UnissuedUnspent'
        BY <1>a, <1>b, <2>1, <2>2, <2>8 DEF UnissuedUnspent, ProviderTypeOK
      <3>4. LoadsSeeRow'
        BY <1>b, <2>2, <3>1 DEF LoadsSeeRow, IdleLoad
      <3>5. SuccessorsUnspent'
        BY <2>1, <3>1 DEF SuccessorsUnspent, Committing, IdleLoad
      <3>6. PresentedOnce'
        BY <1>b, <2>2, <3>2 DEF RefreshedOnce, PresentedOnce
      <3>7. StoredIsUnspent'
        BY <2>1, <2>2, <3>2 DEF StoredIsUnspent
      <3> QED
        BY <2>5, <3>3, <3>4, <3>5, <3>6, <3>7 DEF RefreshedOnce
    <2> QED
      BY <1>4, <2>7, <2>8 DEF Refresh, i
  <1>5. ASSUME NEW r \in Loads, RefreshFails(r) PROVE Rest'
    BY <1>5, <1>c DEF RefreshFails, Abandon
  <1>6. ASSUME NEW r \in Loads, CommitRefresh(r) PROVE Rest'
    <2>1. /\ \A q \in Loads : load'[q] = IF q = r THEN IdleLoad ELSE load[q]
          /\ row' = FreshPair(load[r].new)
          /\ UNCHANGED <<login, issued, presented, stale>>
      BY <1>6, <1>a DEF CommitRefresh, Abandon, ProviderTypeOK
    <2>2. \A q \in Loads : load'[q].pc \notin {"refresh", "commit"}
      BY <1>6, <1>a, <2>1, OnlyHolder DEF CommitRefresh, IdleLoad
    <2>3. row'.id = load[r].new /\ load[r].new \in 1 .. issued /\ presented'[row'.id] = 0
      BY <1>6, <1>a, <1>b, <2>1, LoadShape DEF CommitRefresh, SuccessorsUnspent, Committing, FreshPair
    <2>4. RowHasToken' /\ row' # NoRow
      BY <2>3 DEF RowHasToken, NoRow
    <2>5. UnissuedUnspent' /\ PresentedOnce'
      BY <1>b, <2>1 DEF UnissuedUnspent, RefreshedOnce, PresentedOnce
    <2>6. LoadsSeeRow'
      BY <2>2, <2>4 DEF LoadsSeeRow
    <2>7. SuccessorsUnspent'
      BY <2>2 DEF SuccessorsUnspent, Committing
    <2>8. StoredIsUnspent'
      BY <2>3 DEF StoredIsUnspent
    <2> QED
      BY <2>4, <2>5, <2>6, <2>7, <2>8 DEF RefreshedOnce
  <1>7. ASSUME NEW r \in Loads, LoseRefresh(r) PROVE Rest'
    BY <1>7, <1>c DEF LoseRefresh, Abandon
  <1>8. ASSUME UNCHANGED <<row, load, issued, presented, stale>> PROVE Rest'
    BY <1>b, <1>8 DEF RowHasToken, UnissuedUnspent, LoadsSeeRow, SuccessorsUnspent, Committing,
       RefreshedOnce, PresentedOnce, StoredIsUnspent
  <1>9. ASSUME NEW l \in Logins, StoreTokens(l) PROVE Rest'
    <2>1. UNCHANGED <<load, issued, presented>> /\ stale \subseteq stale'
      BY <1>9 DEF StoreTokens
    <2>2. \A q \in Loads : load[q].pc \notin {"refresh", "commit"}
      BY <1>9, <1>a DEF StoreTokens, ProviderTypeOK
    <2>3. login[l].new \in 1 .. issued /\ presented[login[l].new] \in 0 .. 2
      BY <1>9, <1>a, LoginShape DEF StoreTokens, ProviderTypeOK
    <2>4. \/ row' = row
          \/ /\ row' = FreshPair(login[l].new)
             /\ presented[login[l].new] > 0 => login[l].new \in stale'
      BY <1>9 DEF StoreTokens
    <2>5. RowHasToken' /\ (row # NoRow => row' # NoRow)
      BY <1>b, <2>3, <2>4 DEF RowHasToken, NoRow, FreshPair
    <2>6. UnissuedUnspent' /\ PresentedOnce'
      BY <1>b, <2>1 DEF UnissuedUnspent, RefreshedOnce, PresentedOnce
    <2>7. LoadsSeeRow'
      BY <1>b, <2>1, <2>2, <2>5 DEF LoadsSeeRow
    <2>9. SuccessorsUnspent'
      BY <2>1, <2>2 DEF SuccessorsUnspent, Committing
    <2>10. StoredIsUnspent'
      BY <1>b, <2>1, <2>2, <2>3, <2>4 DEF RefreshedOnce, StoredIsUnspent, FreshPair
    <2> QED
      BY <2>5, <2>6, <2>7, <2>9, <2>10 DEF RefreshedOnce
  <1>12. ASSUME BrokerLogin PROVE Rest'
    <2>1. issued' = issued + 1 /\ issued \in Nat /\ UNCHANGED <<row, load, presented, stale>>
      BY <1>12, <1>a DEF BrokerLogin, IssuePair, ProviderTypeOK
    <2> QED
      BY <1>b, <2>1 DEF RowHasToken, UnissuedUnspent, LoadsSeeRow, SuccessorsUnspent, Committing,
         RefreshedOnce, PresentedOnce, StoredIsUnspent
  <1>10. ASSUME Age PROVE Rest'
    <2>1. row'.id = row.id /\ UNCHANGED <<load, login, issued, presented, stale>> /\ row # NoRow
      BY <1>10, <1>a DEF Age, ProviderTypeOK, NoRow
    <2>2. row.id # 0 /\ row' # NoRow
      BY <1>b, <2>1 DEF RowHasToken, NoRow
    <2>3. RowHasToken' /\ UnissuedUnspent' /\ PresentedOnce'
      BY <1>b, <2>1, <2>2 DEF RowHasToken, UnissuedUnspent, RefreshedOnce, PresentedOnce
    <2>4. LoadsSeeRow'
      BY <1>b, <2>1, <2>2 DEF LoadsSeeRow
    <2>5. SuccessorsUnspent'
      BY <1>b, <2>1 DEF SuccessorsUnspent, Committing
    <2>6. StoredIsUnspent'
      BY <1>b, <2>1, <2>2 DEF RefreshedOnce, StoredIsUnspent
    <2> QED
      BY <2>3, <2>4, <2>5, <2>6 DEF RefreshedOnce
  <1>11. ASSUME UNCHANGED providerVars PROVE Rest'
    BY <1>8, <1>11 DEF providerVars
  <1> HIDE DEF Rest
  <1>14. \A l \in Logins : Login(l) \/ SelectRow(l) => Rest'
    BY <1>8 DEF Login, SelectRow
  <1>13. Rest'
    BY <1>1, <1>2, <1>3, <1>4, <1>5, <1>6, <1>7, <1>9, <1>10, <1>11, <1>12, <1>14 DEF ProviderNext
  <1> QED
    BY <1>a, <1>13 DEF ProviderInv, Rest

(* Whatever number of calls of load_tokens and logins: a refresh token is  *)
(* presented once, and the stored one is unspent, except for tokens whose  *)
(* successor was lost and tokens a login stored again.                     *)
THEOREM ProviderCorrect == ProviderSpec => []ProviderTypeOK /\ []RefreshedOnce
  <1>1. ProviderInit => ProviderInv
    BY ProviderAssumption
    DEF ProviderInit, ProviderInv, ProviderTypeOK, LoadType, LoginType, IdleLoad, IdleLogin, NoRow,
        RowHasToken, UnissuedUnspent, LoadsSeeRow, SuccessorsUnspent, Committing,
        RefreshedOnce, PresentedOnce, StoredIsUnspent
  <1>2. ProviderInv /\ [ProviderNext]_providerVars => ProviderInv'
    BY ProviderInvStep
  <1>3. ProviderInv => ProviderTypeOK /\ RefreshedOnce
    BY DEF ProviderInv
  <1> QED
    BY <1>1, <1>2, <1>3, PTL DEF ProviderSpec

-----------------------------------------------------------------------------
(* The device flow: keys and codes.                                        *)

(* A verification creates a key only after its user was written. *)
KeyAfterClaim ==
    \A v \in Approvals : approval[v].pc = "key" =>
        codes[approval[v].code].owner = approval[v].owner \/ approval[v].code \in overwritten

(* The key of an authorized code exists, or could not be created, or the   *)
(* verification that authorized it is about to create it.                  *)
KeyOnItsWay ==
    \A c \in Codes : codes[c].status = "authorized" =>
        \/ <<codes[c].owner, c>> \in apiKeys \cup keyless
        \/ \E v \in Approvals : approval[v] = [pc |-> "key", owner |-> codes[c].owner, code |-> c]

DeviceInv ==
    /\ DeviceTypeOK
    /\ KeysOfTheOwner
    /\ KeyAfterClaim
    /\ KeyOnItsWay

LEMMA ApprovalShape ==
    ASSUME DeviceTypeOK, NEW v \in Approvals, approval[v].pc # "idle"
    PROVE  /\ approval[v].owner \in Owners /\ approval[v].code \in Codes
           /\ approval[v] \in [pc : {"authorize", "commit", "key", "deny"}, owner : Owners, code : Codes]
           /\ approval[v] = [pc |-> approval[v].pc, owner |-> approval[v].owner,
                             code |-> approval[v].code]
  <1>1. approval[v] \in ApprovalType
    BY DEF DeviceTypeOK
  <1>2. approval[v] \in [pc : {"authorize", "commit", "key", "deny"}, owner : Owners, code : Codes]
    BY <1>1 DEF ApprovalType, IdleApproval
  <1> QED
    BY <1>2

LEMMA PollerShape ==
    ASSUME DeviceTypeOK, NEW p \in Pollers, poller[p].pc # "idle"
    PROVE  /\ poller[p] \in [pc : {"slow_down", "decide", "retrieve"}, code : Codes, entry : CodeType]
           /\ poller[p].code \in Codes
  BY DEF DeviceTypeOK, PollerType, IdlePoller

(* As long as codes keep their users, so do the keys of the codes. *)
LEMMA OwnersKeepKeys ==
    ASSUME DeviceTypeOK, KeysOfTheOwner, UNCHANGED <<apiKeys, overwritten>>,
           \A c \in Codes : codes'[c].owner = codes[c].owner
    PROVE  KeysOfTheOwner'
  <1>1. \A k \in apiKeys : k[2] \in Codes
    BY DEF DeviceTypeOK
  <1> QED
    BY <1>1 DEF KeysOfTheOwner

LEMMA OwnersKeepClaims ==
    ASSUME DeviceTypeOK, KeyAfterClaim, UNCHANGED overwritten,
           \A c \in Codes : codes'[c].owner = codes[c].owner,
           \A v \in Approvals : approval'[v].pc = "key" => approval'[v] = approval[v]
    PROVE  KeyAfterClaim'
  <1>1. \A v \in Approvals : approval[v].pc = "key" => approval[v].code \in Codes
    BY ApprovalShape
  <1> QED
    BY <1>1 DEF KeyAfterClaim

(* The clock's and the polls' writes change neither status nor owner. *)
LEMMA TimeKeepsDevice ==
    ASSUME DeviceInv, UNCHANGED <<apiKeys, approval, overwritten, keyless>>,
           codes' \in [Codes -> CodeType],
           \A c \in Codes : codes'[c].status = codes[c].status /\ codes'[c].owner = codes[c].owner,
           handed' \subseteq apiKeys,
           poller' \in [Pollers -> PollerType]
    PROVE  DeviceInv'
  <1>1. DeviceTypeOK'
    BY DEF DeviceInv, DeviceTypeOK, ApprovalType, PollerType, CodeType
  <1>2. (KeysOfTheOwner /\ KeyAfterClaim)'
    BY OwnersKeepKeys, OwnersKeepClaims DEF DeviceInv
  <1>3. KeyOnItsWay'
    BY DEF DeviceInv, KeyOnItsWay
  <1> QED
    BY <1>1, <1>2, <1>3 DEF DeviceInv

(* So do the steps of a verification that only move it, unless they leave  *)
(* "key".                                                                  *)
LEMMA MoveKeepsDevice ==
    ASSUME DeviceInv, UNCHANGED <<apiKeys, overwritten, poller, handed>>,
           NEW v \in Approvals, NEW x \in ApprovalType, x.pc # "key",
           approval' = [approval EXCEPT ![v] = x],
           keyless \subseteq keyless' /\ keyless' \subseteq Owners \X Codes,
           approval[v].pc = "key" => <<approval[v].owner, approval[v].code>> \in keyless',
           codes' \in [Codes -> CodeType],
           \A c \in Codes : \/ codes'[c] = codes[c]
                            \/ codes[c].status = "pending" /\ codes'[c].status = "denied"
                               /\ codes'[c].owner = codes[c].owner
    PROVE  DeviceInv'
  <1>1. \A w \in Approvals : approval'[w] = IF w = v THEN x ELSE approval[w]
    BY DEF DeviceInv, DeviceTypeOK
  <1>2. DeviceTypeOK'
    <2>1. approval' \in [Approvals -> ApprovalType]
      BY DEF DeviceInv, DeviceTypeOK
    <2>2. \A c \in Codes : codes'[c].status = "authorized" <=> codes'[c].owner # NoOwner
      BY DEF DeviceInv, DeviceTypeOK
    <2> QED
      BY <2>1, <2>2 DEF DeviceInv, DeviceTypeOK, ApprovalType, PollerType, CodeType
  <1>3. (KeysOfTheOwner /\ KeyAfterClaim)'
    BY <1>1, OwnersKeepKeys, OwnersKeepClaims DEF DeviceInv
  <1>4. ASSUME NEW c \in Codes, codes'[c].status = "authorized"
        PROVE  \/ <<codes'[c].owner, c>> \in apiKeys' \cup keyless'
               \/ \E w \in Approvals : approval'[w] =
                     [pc |-> "key", owner |-> codes'[c].owner, code |-> c]
    <2>1. codes'[c] = codes[c]
      BY <1>4
    <2>2. CASE <<codes[c].owner, c>> \in apiKeys \cup keyless
      BY <2>1, <2>2
    <2>3. ASSUME NEW w \in Approvals,
                 approval[w] = [pc |-> "key", owner |-> codes[c].owner, code |-> c]
          PROVE  \/ <<codes'[c].owner, c>> \in apiKeys' \cup keyless'
                 \/ \E z \in Approvals : approval'[z] =
                       [pc |-> "key", owner |-> codes'[c].owner, code |-> c]
      <3>1. CASE w = v
        BY <2>1, <2>3, <3>1
      <3>2. CASE w # v
        BY <1>1, <2>1, <2>3, <3>2
      <3> QED
        BY <3>1, <3>2
    <2> QED
      BY <1>4, <2>1, <2>2, <2>3 DEF DeviceInv, KeyOnItsWay
  <1> QED
    BY <1>2, <1>3, <1>4 DEF DeviceInv, KeyOnItsWay

LEMMA DeviceInvStep ==
    ASSUME DeviceInv, [DeviceNext]_deviceVars
    PROVE  DeviceInv'
  <1>a. DeviceTypeOK
    BY DEF DeviceInv
  <1>b. /\ codes \in [Codes -> CodeType]
        /\ handed \subseteq apiKeys /\ keyless \subseteq Owners \X Codes
        /\ poller \in [Pollers -> PollerType]
        /\ approval \in [Approvals -> ApprovalType]
    BY <1>a DEF DeviceTypeOK
  <1>1. ASSUME NEW c \in Codes, DeviceAuthorization(c) PROVE DeviceInv'
    <2>1. /\ codes' \in [Codes -> CodeType]
          /\ \A d \in Codes : codes'[d].owner = codes[d].owner
          /\ \A d \in Codes : d # c => codes'[d] = codes[d]
          /\ codes'[c].status = "pending" /\ codes[c].status = "absent"
      BY <1>1, <1>b DEF DeviceAuthorization, Exists, CodeType
    <2>2. UNCHANGED <<apiKeys, approval, poller, handed, overwritten, keyless>>
      BY <1>1 DEF DeviceAuthorization
    <2>6. \A d \in Codes : codes'[d].status = "authorized" <=> codes'[d].owner # NoOwner
      BY <1>a, <2>1 DEF DeviceTypeOK
    <2>3. DeviceTypeOK'
      BY <1>a, <2>1, <2>2, <2>6 DEF DeviceTypeOK, ApprovalType, PollerType, CodeType
    <2>4. (KeysOfTheOwner /\ KeyAfterClaim)'
      BY <2>1, <2>2, OwnersKeepKeys, OwnersKeepClaims DEF DeviceInv
    <2>5. KeyOnItsWay'
      BY <2>1, <2>2 DEF DeviceInv, KeyOnItsWay
    <2> QED
      BY <2>3, <2>4, <2>5 DEF DeviceInv
  <1>2. ASSUME NEW c \in Codes, CodeExpires(c) PROVE DeviceInv'
    <2>1. /\ codes' \in [Codes -> CodeType]
          /\ \A d \in Codes : codes'[d].status = codes[d].status /\ codes'[d].owner = codes[d].owner
      BY <1>2, <1>b DEF CodeExpires, CodeType
    <2> QED
      BY <1>2, <1>b, <2>1, TimeKeepsDevice DEF CodeExpires
  <1>3. ASSUME NEW c \in Codes, IntervalPasses(c) PROVE DeviceInv'
    <2>1. /\ codes' \in [Codes -> CodeType]
          /\ \A d \in Codes : codes'[d].status = codes[d].status /\ codes'[d].owner = codes[d].owner
      BY <1>3, <1>b DEF IntervalPasses, CodeType
    <2> QED
      BY <1>3, <1>b, <2>1, TimeKeepsDevice DEF IntervalPasses
  <1>4. ASSUME NEW v \in Approvals, NEW u \in Owners, NEW c \in Codes, Verify(v, u, c) PROVE DeviceInv'
    <2> DEFINE x == [pc |-> "authorize", owner |-> u, code |-> c]
    <2>1. x \in ApprovalType /\ x.pc # "key" /\ approval' = [approval EXCEPT ![v] = x]
          /\ approval[v].pc # "key"
      BY <1>4 DEF Verify, ApprovalType, IdleApproval
    <2> HIDE DEF x
    <2> QED
      BY <1>4, <1>b, <2>1, MoveKeepsDevice DEF Verify
  <1>5. ASSUME NEW v \in Approvals, ReadToAuthorize(v) PROVE DeviceInv'
    <2>1. PICK x \in ApprovalType : x.pc # "key" /\ approval' = [approval EXCEPT ![v] = x]
      <3>1. approval[v] \in [pc : {"authorize", "commit", "key", "deny"}, owner : Owners, code : Codes]
        BY <1>5, <1>a, ApprovalShape DEF ReadToAuthorize
      <3>2. [approval[v] EXCEPT !.pc = "commit"] \in ApprovalType
            /\ [approval[v] EXCEPT !.pc = "commit"].pc # "key"
        BY <3>1 DEF ApprovalType
      <3>3. IdleApproval \in ApprovalType /\ IdleApproval.pc # "key"
        BY DEF ApprovalType, IdleApproval
      <3> QED
        BY <1>5, <3>2, <3>3 DEF ReadToAuthorize
    <2> QED
      BY <1>5, <1>b, <2>1, MoveKeepsDevice DEF ReadToAuthorize
  <1>6. ASSUME NEW v \in Approvals, CommitAuthorization(v) PROVE DeviceInv'
    <2> DEFINE u == approval[v].owner
               c == approval[v].code
               x == [pc |-> "key", owner |-> u, code |-> c]
    <2>1. u \in Owners /\ c \in Codes /\ u # NoOwner
      BY <1>6, <1>a, ApprovalShape, DeviceAssumption DEF CommitAuthorization
    <2>2. approval' = [approval EXCEPT ![v] = x]
      <3>1. approval[v] = [pc |-> "commit", owner |-> u, code |-> c]
        BY <1>6, <1>a, ApprovalShape DEF CommitAuthorization
      <3>2. [approval[v] EXCEPT !.pc = "key"] = x
        BY <3>1
      <3>3. approval' = [approval EXCEPT ![v] = [approval[v] EXCEPT !.pc = "key"]]
        BY <1>6, <1>b DEF CommitAuthorization
      <3> HIDE DEF x
      <3> QED
        BY <3>2, <3>3
    <2>3. /\ codes' \in [Codes -> CodeType]
          /\ codes'[c].status = "authorized" /\ codes'[c].owner = u
          /\ \A d \in Codes : d # c => codes'[d] = codes[d]
      BY <1>6, <1>b, <2>1 DEF CommitAuthorization, CodeType
    <2>4. /\ overwritten \subseteq overwritten' /\ overwritten' \subseteq overwritten \cup {c}
          /\ codes[c].status = "authorized" /\ codes[c].owner # u => c \in overwritten'
          /\ UNCHANGED <<apiKeys, poller, handed, keyless>>
      BY <1>6 DEF CommitAuthorization
    <2>a. \A o \in Owners : codes[c].owner = o => o = u \/ c \in overwritten'
      BY <1>a, <2>1, <2>4, DeviceAssumption DEF DeviceTypeOK
    <2>5. x \in ApprovalType /\ x.pc = "key" /\ x.owner = u /\ x.code = c
      BY <2>1 DEF ApprovalType
    <2>6. \A w \in Approvals : approval'[w] = IF w = v THEN x ELSE approval[w]
      BY <1>b, <2>2
    <2>7. DeviceTypeOK'
      <3>1. approval' \in [Approvals -> ApprovalType]
        BY <1>b, <2>2, <2>5
      <3>2. overwritten' \subseteq Codes
        BY <1>a, <2>1, <2>4 DEF DeviceTypeOK
      <3>3. \A d \in Codes : codes'[d].status = "authorized" <=> codes'[d].owner # NoOwner
        BY <1>a, <2>1, <2>3 DEF DeviceTypeOK
      <3> QED
        BY <1>a, <2>3, <2>4, <3>1, <3>2, <3>3 DEF DeviceTypeOK, ApprovalType, PollerType, CodeType
    <2>8. KeysOfTheOwner'
      <3> SUFFICES ASSUME NEW k \in apiKeys
                   PROVE  codes'[k[2]].owner = k[1] \/ k[2] \in overwritten'
        BY <2>4 DEF KeysOfTheOwner
      <3>1. k[1] \in Owners /\ k[2] \in Codes
            /\ (codes[k[2]].owner = k[1] \/ k[2] \in overwritten)
        BY <1>a DEF DeviceTypeOK, DeviceInv, KeysOfTheOwner
      <3> QED
        BY <2>3, <2>4, <2>a, <3>1
    <2>9. KeyAfterClaim'
      <3> SUFFICES ASSUME NEW w \in Approvals, approval'[w].pc = "key"
                   PROVE  \/ codes'[approval'[w].code].owner = approval'[w].owner
                          \/ approval'[w].code \in overwritten'
        BY DEF KeyAfterClaim
      <3>1. CASE w = v
        BY <2>3, <2>5, <2>6, <3>1
      <3>2. CASE w # v
        <4>1. approval'[w] = approval[w] /\ approval[w].owner \in Owners /\ approval[w].code \in Codes
          BY <1>a, <2>6, <3>2, ApprovalShape
        <4> QED
          BY <2>3, <2>4, <2>a, <4>1 DEF DeviceInv, KeyAfterClaim
      <3> QED
        BY <3>1, <3>2
    <2>10. ASSUME NEW d \in Codes, codes'[d].status = "authorized"
           PROVE  \/ <<codes'[d].owner, d>> \in apiKeys' \cup keyless'
                  \/ \E w \in Approvals : approval'[w] =
                        [pc |-> "key", owner |-> codes'[d].owner, code |-> d]
      <3>1. CASE d = c
        BY <2>3, <2>6, <3>1
      <3>2. CASE d # c
        <4>1. codes'[d] = codes[d]
          BY <2>3, <3>2
        <4>2. \A w \in Approvals : approval[w] = [pc |-> "key", owner |-> codes[d].owner, code |-> d]
                 => w # v
          BY <1>6 DEF CommitAuthorization
        <4> QED
          BY <2>4, <2>6, <2>10, <4>1, <4>2 DEF DeviceInv, KeyOnItsWay
      <3> QED
        BY <3>1, <3>2
    <2> QED
      BY <2>7, <2>8, <2>9, <2>10 DEF DeviceInv, KeyOnItsWay
  <1>7. ASSUME NEW v \in Approvals, CreateKey(v) PROVE DeviceInv'
    <2> DEFINE k == <<approval[v].owner, approval[v].code>>
    <2>1. /\ k \in Owners \X Codes /\ k[1] = approval[v].owner /\ k[2] = approval[v].code
          /\ codes[k[2]].owner = k[1] \/ k[2] \in overwritten
      BY <1>7, <1>a, ApprovalShape DEF CreateKey, DeviceInv, KeyAfterClaim
    <2>2. /\ apiKeys' = apiKeys \cup {k}
          /\ \A w \in Approvals : approval'[w] = IF w = v THEN IdleApproval ELSE approval[w]
          /\ approval' \in [Approvals -> ApprovalType]
          /\ UNCHANGED <<codes, poller, handed, overwritten, keyless>>
      BY <1>7, <1>b DEF CreateKey, ApprovalType
    <2>3. DeviceTypeOK'
      BY <1>a, <2>1, <2>2 DEF DeviceTypeOK, ApprovalType, PollerType, CodeType
    <2>4. KeysOfTheOwner'
      BY <2>1, <2>2 DEF DeviceInv, KeysOfTheOwner
    <2>5. KeyAfterClaim'
      BY <2>2 DEF DeviceInv, KeyAfterClaim, IdleApproval
    <2>6. ASSUME NEW c \in Codes, codes[c].status = "authorized"
          PROVE  \/ <<codes[c].owner, c>> \in apiKeys' \cup keyless
                 \/ \E w \in Approvals : approval'[w] =
                       [pc |-> "key", owner |-> codes[c].owner, code |-> c]
      BY <2>2, <2>6 DEF DeviceInv, KeyOnItsWay
    <2>7. KeyOnItsWay'
      BY <2>2, <2>6 DEF KeyOnItsWay
    <2> QED
      BY <2>3, <2>4, <2>5, <2>7 DEF DeviceInv
  <1>8. ASSUME NEW v \in Approvals, KeyFails(v) PROVE DeviceInv'
    <2> DEFINE x == [approval[v] EXCEPT !.pc = "deny"]
    <2>1. x \in ApprovalType /\ x.pc # "key" /\ approval' = [approval EXCEPT ![v] = x]
      BY <1>8, <1>a, <1>b, ApprovalShape DEF KeyFails, ApprovalType
    <2>2. keyless \subseteq keyless' /\ keyless' \subseteq Owners \X Codes
          /\ <<approval[v].owner, approval[v].code>> \in keyless'
      BY <1>8, <1>a, <1>b, ApprovalShape DEF KeyFails
    <2> HIDE DEF x
    <2> QED
      BY <1>8, <1>b, <2>1, <2>2, MoveKeepsDevice DEF KeyFails
  <1>9. ASSUME NEW v \in Approvals, DenyDeviceCode(v) PROVE DeviceInv'
    <2>1. /\ codes' \in [Codes -> CodeType]
          /\ \A c \in Codes : \/ codes'[c] = codes[c]
                              \/ codes[c].status = "pending" /\ codes'[c].status = "denied"
                                 /\ codes'[c].owner = codes[c].owner
      BY <1>9, <1>b DEF DenyDeviceCode, CodeType, IsPending
    <2>2. IdleApproval \in ApprovalType /\ IdleApproval.pc # "key"
      BY DEF ApprovalType, IdleApproval
    <2> QED
      BY <1>9, <1>b, <2>1, <2>2, MoveKeepsDevice DEF DenyDeviceCode
  <1>10. ASSUME NEW p \in Pollers, NEW c \in Codes, PollBegins(p, c) PROVE DeviceInv'
    <2>1. poller' \in [Pollers -> PollerType]
      BY <1>10, <1>b DEF PollBegins, PollerType
    <2> QED
      BY <1>10, <1>b, <2>1, TimeKeepsDevice DEF PollBegins
  <1>11. ASSUME NEW p \in Pollers, poller[p].pc # "idle", Touch(poller[p].code)
         PROVE  /\ codes' \in [Codes -> CodeType]
                /\ \A d \in Codes : codes'[d].status = codes[d].status /\ codes'[d].owner = codes[d].owner
    BY <1>11, <1>a, <1>b, PollerShape, ZenonT(60) DEF Touch, CodeType
  <1>12. ASSUME NEW p \in Pollers, Answer(p) PROVE poller' \in [Pollers -> PollerType]
    BY <1>12, <1>b DEF Answer, PollerType
  <1>13. ASSUME NEW p \in Pollers, SlowDown(p) PROVE DeviceInv'
    BY <1>13, <1>11, <1>12, <1>b, TimeKeepsDevice DEF SlowDown
  <1>14. ASSUME NEW p \in Pollers, Decide(p) PROVE DeviceInv'
    <2>1. poller' \in [Pollers -> PollerType]
      <3>1. [poller[p] EXCEPT !.pc = "retrieve"] \in PollerType
        BY <1>14, <1>a, PollerShape DEF Decide, PollerType
      <3> QED
        BY <1>14, <1>12, <1>b, <3>1 DEF Decide
    <2> QED
      BY <1>14, <1>11, <1>b, <2>1, TimeKeepsDevice DEF Decide
  <1>15. ASSUME NEW p \in Pollers, RetrieveKey(p) PROVE DeviceInv'
    BY <1>15, <1>12, <1>b, TimeKeepsDevice DEF RetrieveKey
  <1>16. CASE UNCHANGED deviceVars
    BY <1>16, <1>b, TimeKeepsDevice DEF deviceVars
  <1> QED
    BY <1>1, <1>2, <1>3, <1>4, <1>5, <1>6, <1>7, <1>8, <1>9, <1>10, <1>13, <1>14, <1>15, <1>16
    DEF DeviceNext, VerifyNext, PollNext

(* However verifications and polls of device codes overlap: a key belongs  *)
(* to the user of its code unless that user was replaced, and an           *)
(* authorized code has its key unless creating it failed                   *)
(* (/verify-authenticated, /token).                                        *)
THEOREM DeviceCorrect == DeviceSpec => []DeviceTypeOK /\ []KeysMatchCodes
  <1>1. DeviceInit => DeviceInv
    BY DEF DeviceInit, DeviceInv, DeviceTypeOK, CodeType, ApprovalType, PollerType, IdleApproval,
           IdlePoller, KeysOfTheOwner, KeyAfterClaim, KeyOnItsWay
  <1>2. DeviceInv /\ [DeviceNext]_deviceVars => DeviceInv'
    BY DeviceInvStep
  <1>3. DeviceInv => DeviceTypeOK /\ KeysMatchCodes
    <2>1. ASSUME DeviceInv PROVE AuthorizedHasKey
      <3>1. ASSUME NEW c \in Codes, NEW v \in Approvals,
                   approval[v] = [pc |-> "key", owner |-> codes[c].owner, code |-> c]
            PROVE  approval[v] # IdleApproval /\ approval[v].code = c
        BY <3>1 DEF IdleApproval
      <3> QED
        BY <2>1, <3>1 DEF DeviceInv, KeyOnItsWay, AuthorizedHasKey, Settled
    <2> QED
      BY <2>1 DEF DeviceInv, KeysMatchCodes
  <1> QED
    BY <1>1, <1>2, <1>3, PTL DEF DeviceSpec

-----------------------------------------------------------------------------
(* Organizations: roles and the LiteLLM team.                              *)

Relying(r) == orgCall[r].op = "change" /\ orgCall[r].pc = "write" /\ orgCall[r].relies
Adding(r) == orgCall[r].op = "accept" /\ orgCall[r].pc = "add"
Resetting(r) == orgCall[r].op = "change" /\ orgCall[r].pc = "current"

(* An acceptance has an invitation. *)
AcceptsInvited ==
    \A r \in OrgCalls : orgCall[r].op = "accept" => invite[orgCall[r].invitation] # NoInvitation

(* Somebody else owns the organization while a request that takes an owner *)
(* away is about to write.                                                 *)
OwnerLeft ==
    \A r \in OrgCalls : Relying(r) =>
        OrgOwners \ {orgCall[r].user} # {} \/ <<"owners">> \in crossed

(* An acceptance puts the user into the team first. *)
JoinersInTeam ==
    \A u \in Members : Joining(u) => u \in team \/ <<"team", u>> \in crossed

OrgsRest ==
    /\ AcceptsInvited
    /\ OwnerLeft /\ OwnerRemains
    /\ JoinersInTeam /\ AccessIsMembership

OrgsInv == OrgsTypeOK /\ OrgsRest

LEMMA OrgCallShape ==
    ASSUME OrgsTypeOK, NEW r \in OrgCalls
    PROVE  /\ orgCall[r].op \in {"none", "change", "accept", "switch"}
           /\ orgCall[r].op = "change" => orgCall[r] \in
                 [op : {"change"}, pc : {"count", "write", "current", "team"}, user : Members,
                  new : Roles \cup {"none"}, was : Roles, relies : BOOLEAN]
           /\ orgCall[r].op = "accept" => orgCall[r] \in
                 [op : {"accept"}, pc : {"expire", "check", "integrate", "add", "mark"}, user : Members,
                  invitation : Invitations]
           /\ orgCall[r].op = "switch" => orgCall[r] \in [op : {"switch"}, pc : {"write"}, user : Members]
  <1>1. orgCall[r] \in OrgCallType
    BY DEF OrgsTypeOK
  <1> QED
    BY <1>1 DEF OrgCallType, NoCall

(* A request moves on: what it becomes. *)
LEMMA AwaitChange ==
    ASSUME OrgsTypeOK, NEW r \in OrgCalls, orgCall[r].op = "change",
           NEW pc \in {"count", "write", "current", "team"}, Await(r, pc)
    PROVE  \E x \in OrgCallType :
              /\ orgCall' = [orgCall EXCEPT ![r] = x]
              /\ x.op = "change" /\ x.pc = pc /\ x.user = orgCall[r].user
              /\ x.relies = orgCall[r].relies
  <1> DEFINE x == [orgCall[r] EXCEPT !.pc = pc]
  <1>1. orgCall' = [orgCall EXCEPT ![r] = x]
    BY DEF Await, OrgsTypeOK
  <1>2. x \in OrgCallType /\ x.op = "change" /\ x.pc = pc /\ x.user = orgCall[r].user
        /\ x.relies = orgCall[r].relies
    BY OrgCallShape DEF OrgCallType
  <1> QED
    BY <1>1, <1>2

LEMMA AwaitAccept ==
    ASSUME OrgsTypeOK, NEW r \in OrgCalls, orgCall[r].op = "accept",
           NEW pc \in {"expire", "check", "integrate", "add", "mark"}, Await(r, pc)
    PROVE  \E x \in OrgCallType :
              /\ orgCall' = [orgCall EXCEPT ![r] = x]
              /\ x.op = "accept" /\ x.pc = pc /\ x.user = orgCall[r].user
              /\ x.invitation = orgCall[r].invitation
  <1> DEFINE x == [orgCall[r] EXCEPT !.pc = pc]
  <1>1. orgCall' = [orgCall EXCEPT ![r] = x]
    BY DEF Await, OrgsTypeOK
  <1>2. x \in OrgCallType /\ x.op = "accept" /\ x.pc = pc /\ x.user = orgCall[r].user
        /\ x.invitation = orgCall[r].invitation
    BY OrgCallShape DEF OrgCallType
  <1> QED
    BY <1>1, <1>2

LEMMA ReturnNoCall ==
    ASSUME OrgsTypeOK, NEW r \in OrgCalls, Return(r)
    PROVE  /\ orgCall' = [orgCall EXCEPT ![r] = NoCall]
           /\ NoCall \in OrgCallType /\ NoCall.op = "none"
  BY DEF Return, NoCall, OrgCallType

(* A step of one request that changes neither the members nor who works    *)
(* where, and only leaves users behind in the team.  x: the request        *)
(* afterwards.                                                             *)
LEMMA QuietStep ==
    ASSUME OrgsInv, OrgsTypeOK', UNCHANGED <<role, current>>,
           leftovers \subseteq leftovers', crossed \subseteq crossed',
           team \subseteq team', \A u \in team' : u \in team \/ u \in leftovers',
           \A i \in Invitations : invite[i] # NoInvitation => invite'[i] # NoInvitation,
           NEW r \in OrgCalls, NEW x, orgCall' = [orgCall EXCEPT ![r] = x],
           x.op = "accept" => x.invitation \in Invitations /\ invite'[x.invitation] # NoInvitation,
           ~(x.op = "accept" /\ x.pc = "add"),
           x.op = "change" /\ x.pc = "write" /\ x.relies =>
              OrgOwners \ {x.user} # {} \/ <<"owners">> \in crossed,
           Adding(r) => role[orgCall[r].user] # "none" \/ orgCall[r].user \in leftovers',
           Resetting(r) => ~current[orgCall[r].user] \/ <<"current", orgCall[r].user>> \in crossed'
    PROVE  OrgsRest'
  <1>1. \A q \in OrgCalls : orgCall'[q] = IF q = r THEN x ELSE orgCall[q]
    BY DEF OrgsInv, OrgsTypeOK
  <1>2. AcceptsInvited'
    <2> SUFFICES ASSUME NEW q \in OrgCalls, orgCall'[q].op = "accept"
                 PROVE  invite'[orgCall'[q].invitation] # NoInvitation
      BY DEF AcceptsInvited
    <2>1. q # r => orgCall[q].invitation \in Invitations
      BY <1>1, OrgCallShape DEF OrgsInv
    <2> QED
      BY <1>1, <2>1 DEF OrgsInv, OrgsRest, AcceptsInvited
  <1>3. OrgOwners' = OrgOwners
    BY DEF OrgOwners
  <1>4. (OwnerLeft /\ OwnerRemains)'
    BY <1>1, <1>3 DEF OrgsInv, OrgsRest, OwnerLeft, OwnerRemains, Relying
  <1>5. \A u \in Members : Joining(u)' => Joining(u)
    BY <1>1 DEF Joining
  <1>6. \A u \in Members : Joining(u) => Joining(u)' \/ role[u] # "none" \/ u \in leftovers'
    BY <1>1 DEF Joining, Adding
  <1>7. (JoinersInTeam /\ MemberIsInTeam /\ TeamIsMembers)'
    <2>1. JoinersInTeam'
      BY <1>5 DEF OrgsInv, OrgsRest, JoinersInTeam
    <2>2. MemberIsInTeam'
      BY DEF OrgsInv, OrgsRest, AccessIsMembership, MemberIsInTeam
    <2>3. TeamIsMembers'
      BY <1>6 DEF OrgsInv, OrgsRest, OrgsTypeOK, AccessIsMembership, TeamIsMembers
    <2> QED
      BY <2>1, <2>2, <2>3
  <1>8. CurrentIsMember'
    <2> SUFFICES ASSUME NEW u \in Members, current[u], role[u] = "none", <<"current", u>> \notin crossed'
                 PROVE  \E q \in OrgCalls : /\ orgCall'[q].op = "change" /\ orgCall'[q].user = u
                                            /\ orgCall'[q].pc = "current"
      BY DEF CurrentIsMember
    <2>1. PICK q \in OrgCalls : orgCall[q].op = "change" /\ orgCall[q].user = u
                                /\ orgCall[q].pc = "current"
      BY DEF OrgsInv, OrgsRest, AccessIsMembership, CurrentIsMember
    <2>2. q # r
      BY <2>1 DEF Resetting
    <2> QED
      BY <1>1, <2>1, <2>2
  <1> QED
    BY <1>2, <1>4, <1>7, <1>8 DEF OrgsRest, AccessIsMembership

LEMMA OrgsTypeStep ==
    ASSUME OrgsInv, [OrgsNext]_orgVars
    PROVE  OrgsTypeOK'
  <1> USE OrgsAssumption
  <1>a. OrgsTypeOK
    BY DEF OrgsInv
  <1>b. /\ role \in [Members -> Roles \cup {"none"}]
        /\ current \in [Members -> BOOLEAN]
        /\ invite \in [Invitations -> InvitationType]
        /\ orgCall \in [OrgCalls -> OrgCallType]
    BY <1>a DEF OrgsTypeOK
  <1>c. ASSUME OrgCalled PROVE orgCalls' \in 0 .. MaxOrgCalls
    BY <1>c, <1>a DEF OrgCalled, OrgsTypeOK
  <1>d. ASSUME NEW r \in OrgCalls, Return(r) PROVE orgCall' \in [OrgCalls -> OrgCallType]
    BY <1>d, <1>a, <1>b, ReturnNoCall
  <1>e. ASSUME NEW r \in OrgCalls, orgCall[r].op = "change",
               NEW pc \in {"count", "write", "current", "team"}, Await(r, pc)
        PROVE  orgCall' \in [OrgCalls -> OrgCallType]
    BY <1>e, <1>a, <1>b, AwaitChange
  <1>f. ASSUME NEW r \in OrgCalls, orgCall[r].op = "accept",
               NEW pc \in {"expire", "check", "integrate", "add", "mark"}, Await(r, pc)
        PROVE  orgCall' \in [OrgCalls -> OrgCallType]
    BY <1>f, <1>a, <1>b, AwaitAccept
  <1>g. \A r \in OrgCalls : orgCall[r].op # "none" => orgCall[r].user \in Members
    BY <1>a, OrgCallShape
  <1>h. \A r \in OrgCalls : orgCall[r].op = "accept" =>
           /\ orgCall[r].invitation \in Invitations
           /\ invite[orgCall[r].invitation] \in
                 [status : {"pending", "accepted", "expired"}, user : Members, role : Roles,
                  expired : BOOLEAN]
    BY <1>a, <1>b, OrgCallShape DEF OrgsInv, OrgsRest, AcceptsInvited, InvitationType
  <1>1. ASSUME NEW i \in Invitations, NEW by \in Members, NEW u \in Members, NEW new \in Roles,
               Invite(i, by, u, new)
        PROVE  OrgsTypeOK'
    <2>1. invite' \in [Invitations -> InvitationType]
      BY <1>1, <1>b DEF Invite, InvitationType
    <2> QED
      BY <1>1, <1>a, <1>c, <2>1 DEF Invite, OrgsTypeOK
  <1>2. ASSUME NEW r \in OrgCalls, NEW by \in Members, NEW u \in Members,
               NEW new \in Roles \cup {"none"}, ChangeMember(r, by, u, new)
        PROVE  OrgsTypeOK'
    <2>1. role[u] \in Roles
      BY <1>2, <1>b DEF ChangeMember
    <2>2. orgCall' \in [OrgCalls -> OrgCallType]
      BY <1>2, <1>b, <2>1 DEF ChangeMember, OrgCallType
    <2> QED
      BY <1>2, <1>a, <1>c, <2>2 DEF ChangeMember, OrgsTypeOK
  <1>3. ASSUME NEW r \in OrgCalls, NEW i \in Invitations, Accept(r, i) PROVE OrgsTypeOK'
    <2>1. invite[i].user \in Members
      BY <1>3, <1>b DEF Accept, InvitationType, NoInvitation
    <2>2. orgCall' \in [OrgCalls -> OrgCallType]
      BY <1>3, <1>b, <2>1 DEF Accept, OrgCallType
    <2> QED
      BY <1>3, <1>a, <1>c, <2>2 DEF Accept, OrgsTypeOK
  <1>4. ASSUME NEW r \in OrgCalls, NEW u \in Members, SwitchOrg(r, u) PROVE OrgsTypeOK'
    <2>1. orgCall' \in [OrgCalls -> OrgCallType]
      BY <1>4, <1>b DEF SwitchOrg, OrgCallType
    <2> QED
      BY <1>4, <1>a, <1>c, <2>1 DEF SwitchOrg, OrgsTypeOK
  <1>5. ASSUME NEW r \in OrgCalls, CountOwners(r) PROVE OrgsTypeOK'
    <2>1. TakesOwner(r) \in BOOLEAN
      BY DEF TakesOwner
    <2>2. [orgCall[r] EXCEPT !.pc = "write", !.relies = TakesOwner(r)] \in OrgCallType
      BY <1>5, <1>a, <2>1, OrgCallShape DEF CountOwners, OrgCallType
    <2>3. orgCall' \in [OrgCalls -> OrgCallType]
      <3>1. CASE Return(r)
        BY <1>d, <3>1
      <3>2. CASE orgCall' = [orgCall EXCEPT ![r].pc = "write", ![r].relies = TakesOwner(r)]
        BY <1>b, <2>2, <3>2
      <3> QED
        BY <1>5, <3>1, <3>2 DEF CountOwners
    <2> QED
      BY <1>5, <1>a, <2>3 DEF CountOwners, OrgsTypeOK
  <1>6. ASSUME NEW r \in OrgCalls, WriteMember(r) PROVE OrgsTypeOK'
    <2>1. orgCall[r].user \in Members /\ orgCall[r].new \in Roles \cup {"none"}
      BY <1>6, <1>a, OrgCallShape DEF WriteMember
    <2>2. orgCall' \in [OrgCalls -> OrgCallType]
      BY <1>6, <1>d, <1>e DEF WriteMember
    <2>3. role' \in [Members -> Roles \cup {"none"}]
      BY <1>6, <1>b, <2>1 DEF WriteMember
    <2>4. leftovers' \subseteq Members
      BY <1>6, <1>a, <2>1 DEF WriteMember, OrgsTypeOK
    <2>5. crossed' \subseteq Crossings
      BY <1>6, <1>a DEF WriteMember, OrgsTypeOK, Crossings
    <2> QED
      BY <1>6, <1>a, <2>2, <2>3, <2>4, <2>5 DEF WriteMember, OrgsTypeOK
  <1>7. ASSUME NEW r \in OrgCalls, LeaveCurrent(r) PROVE OrgsTypeOK'
    <2>1. orgCall' \in [OrgCalls -> OrgCallType]
      BY <1>7, <1>d, <1>e DEF LeaveCurrent
    <2>2. current' \in [Members -> BOOLEAN]
      BY <1>7, <1>b DEF LeaveCurrent
    <2>3. crossed' \subseteq Crossings
      <3>1. orgCall[r].user \in Members
        BY <1>7, <1>g DEF LeaveCurrent
      <3>2. <<"current", orgCall[r].user>> \in Crossings
        BY <3>1 DEF Crossings
      <3> QED
        BY <1>7, <1>a, <3>2 DEF LeaveCurrent, OrgsTypeOK
    <2> QED
      BY <1>7, <1>a, <2>1, <2>2, <2>3 DEF LeaveCurrent, OrgsTypeOK
  <1>8. ASSUME NEW r \in OrgCalls, LeaveTeam(r) PROVE OrgsTypeOK'
    <2>1. orgCall' \in [OrgCalls -> OrgCallType]
      BY <1>8, <1>d DEF LeaveTeam
    <2>2. crossed' \subseteq Crossings
      <3>1. orgCall[r].user \in Members
        BY <1>8, <1>g DEF LeaveTeam
      <3>2. <<"team", orgCall[r].user>> \in Crossings
        BY <3>1 DEF Crossings
      <3> QED
        BY <1>8, <1>a, <3>2 DEF LeaveTeam, OrgsTypeOK
    <2>3. team' \subseteq Members /\ leftovers' \subseteq Members
      BY <1>8, <1>a DEF LeaveTeam, OrgsTypeOK
    <2> QED
      BY <1>8, <1>a, <2>1, <2>2, <2>3 DEF LeaveTeam, OrgsTypeOK
  <1>9. ASSUME NEW r \in OrgCalls, orgCall[r].op = "accept", NEW status \in {"accepted", "expired"},
               invite' = [invite EXCEPT ![orgCall[r].invitation].status = status]
        PROVE  invite' \in [Invitations -> InvitationType]
    BY <1>9, <1>b, <1>h DEF InvitationType
  <1>10. ASSUME NEW r \in OrgCalls, MarkExpired(r) PROVE OrgsTypeOK'
    BY <1>10, <1>a, <1>d, <1>9 DEF MarkExpired, OrgsTypeOK
  <1>11. ASSUME NEW r \in OrgCalls, CheckMembership(r) PROVE OrgsTypeOK'
    <2>1. orgCall' \in [OrgCalls -> OrgCallType]
      BY <1>11, <1>d, <1>f DEF CheckMembership
    <2> QED
      BY <1>11, <1>a, <2>1 DEF CheckMembership, OrgsTypeOK
  <1>12. ASSUME NEW r \in OrgCalls, Integrate(r) PROVE OrgsTypeOK'
    <2>1. orgCall' \in [OrgCalls -> OrgCallType]
      BY <1>12, <1>d, <1>f DEF Integrate
    <2>2. team' \subseteq Members /\ leftovers' \subseteq Members
      BY <1>12, <1>a, <1>g DEF Integrate, OrgsTypeOK
    <2> QED
      BY <1>12, <1>a, <2>1, <2>2 DEF Integrate, OrgsTypeOK
  <1>13. ASSUME NEW r \in OrgCalls, AddMember(r) PROVE OrgsTypeOK'
    <2>1. orgCall' \in [OrgCalls -> OrgCallType]
      BY <1>13, <1>d, <1>f DEF AddMember
    <2>2. role' \in [Members -> Roles \cup {"none"}]
      BY <1>13, <1>b, <1>h DEF AddMember
    <2>3. leftovers' \subseteq Members
      BY <1>13, <1>a, <1>g DEF AddMember, OrgsTypeOK
    <2> QED
      BY <1>13, <1>a, <2>1, <2>2, <2>3 DEF AddMember, OrgsTypeOK
  <1>14. ASSUME NEW r \in OrgCalls, MarkAccepted(r) PROVE OrgsTypeOK'
    <2>1. invite' \in [Invitations -> InvitationType]
      BY <1>14, <1>b, <1>9 DEF MarkAccepted
    <2> QED
      BY <1>14, <1>a, <1>d, <2>1 DEF MarkAccepted, OrgsTypeOK
  <1>15. ASSUME NEW r \in OrgCalls, UpdateCurrent(r) PROVE OrgsTypeOK'
    <2>1. current' \in [Members -> BOOLEAN]
      BY <1>15, <1>b DEF UpdateCurrent
    <2>2. crossed' \subseteq Crossings
      <3>1. orgCall[r].user \in Members
        BY <1>15, <1>g DEF UpdateCurrent
      <3>2. <<"current", orgCall[r].user>> \in Crossings
        BY <3>1 DEF Crossings
      <3> QED
        BY <1>15, <1>a, <3>2 DEF UpdateCurrent, OrgsTypeOK
    <2> QED
      BY <1>15, <1>a, <1>d, <2>1, <2>2 DEF UpdateCurrent, OrgsTypeOK
  <1>16. ASSUME NEW i \in Invitations, InvitationExpires(i) PROVE OrgsTypeOK'
    <2>1. invite' \in [Invitations -> InvitationType]
      BY <1>16, <1>b DEF InvitationExpires, InvitationType
    <2> QED
      BY <1>16, <1>a, <2>1 DEF InvitationExpires, OrgsTypeOK
  <1>17. CASE UNCHANGED orgVars
    BY <1>17, <1>a DEF orgVars, OrgsTypeOK
  <1> QED
    BY <1>1, <1>2, <1>3, <1>4, <1>5, <1>6, <1>7, <1>8, <1>10, <1>11, <1>12, <1>13, <1>14, <1>15,
       <1>16, <1>17
    DEF OrgsNext, OrgRequests, OrgSteps

LEMMA OrgsInvStep ==
    ASSUME OrgsInv, [OrgsNext]_orgVars
    PROVE  OrgsInv'
  <1> USE OrgsAssumption
  <1>a. OrgsTypeOK /\ OrgsTypeOK'
    BY OrgsTypeStep DEF OrgsInv
  <1>b. AcceptsInvited /\ OwnerLeft /\ OwnerRemains /\ JoinersInTeam
        /\ MemberIsInTeam /\ TeamIsMembers /\ CurrentIsMember
    BY DEF OrgsInv, OrgsRest, AccessIsMembership
  <1>c. \A r \in OrgCalls : orgCall[r].op # "none" => orgCall[r].user \in Members
    BY <1>a, OrgCallShape
  <1>d. \A r \in OrgCalls : orgCall[r].op = "accept" =>
           orgCall[r].invitation \in Invitations /\ invite[orgCall[r].invitation] # NoInvitation
    BY <1>a, <1>b, OrgCallShape DEF AcceptsInvited
  <1>e. ASSUME NEW r \in OrgCalls, Return(r), UNCHANGED <<role, current>>,
               leftovers \subseteq leftovers', crossed \subseteq crossed',
               team \subseteq team', \A u \in team' : u \in team \/ u \in leftovers',
               \A i \in Invitations : invite[i] # NoInvitation => invite'[i] # NoInvitation,
               Adding(r) => role[orgCall[r].user] # "none" \/ orgCall[r].user \in leftovers',
               Resetting(r) => ~current[orgCall[r].user] \/ <<"current", orgCall[r].user>> \in crossed'
        PROVE  OrgsRest'
    BY <1>e, <1>a, ReturnNoCall, QuietStep
  (* Steps of invitations alone. *)
  <1>f. ASSUME UNCHANGED <<role, current, team, leftovers, crossed, orgCall>>,
               \A i \in Invitations : invite[i] # NoInvitation => invite'[i] # NoInvitation
        PROVE  OrgsRest'
    <2>1. AcceptsInvited'
      BY <1>d, <1>f DEF AcceptsInvited
    <2>2. (OwnerLeft /\ OwnerRemains)'
      BY <1>b, <1>f DEF OwnerLeft, OwnerRemains, Relying, OrgOwners
    <2>3. (JoinersInTeam /\ MemberIsInTeam /\ TeamIsMembers)'
      BY <1>b, <1>f DEF JoinersInTeam, MemberIsInTeam, TeamIsMembers, Joining
    <2>4. CurrentIsMember'
      BY <1>b, <1>f DEF CurrentIsMember
    <2> QED
      BY <2>1, <2>2, <2>3, <2>4 DEF OrgsRest, AccessIsMembership
  <1>1. ASSUME NEW i \in Invitations, NEW by \in Members, NEW u \in Members, NEW new \in Roles,
               Invite(i, by, u, new)
        PROVE  OrgsRest'
    <2>1. \A j \in Invitations : invite[j] # NoInvitation => invite'[j] = invite[j]
      BY <1>1, <1>a DEF Invite, OrgsTypeOK
    <2> QED
      BY <1>1, <1>f, <2>1 DEF Invite
  <1>2. ASSUME NEW r \in OrgCalls, NEW by \in Members, NEW u \in Members,
               NEW new \in Roles \cup {"none"}, ChangeMember(r, by, u, new)
        PROVE  OrgsRest'
    <2> DEFINE x == [op |-> "change", pc |-> "count", user |-> u, new |-> new, was |-> role[u],
                     relies |-> FALSE]
    <2>1. x.op = "change" /\ x.pc = "count" /\ orgCall' = [orgCall EXCEPT ![r] = x]
          /\ UNCHANGED <<role, current, team, invite, leftovers, crossed>>
          /\ ~Adding(r) /\ ~Resetting(r)
      BY <1>2 DEF ChangeMember, Adding, Resetting, NoCall
    <2> HIDE DEF x
    <2> QED
      BY <1>a, <2>1, QuietStep
  <1>3. ASSUME NEW r \in OrgCalls, NEW i \in Invitations, Accept(r, i) PROVE OrgsRest'
    <2> DEFINE x == [op |-> "accept", user |-> invite[i].user, invitation |-> i,
                     pc |-> IF invite[i].expired THEN "expire" ELSE "check"]
    <2>1. x.op = "accept" /\ x.pc \in {"expire", "check"} /\ x.invitation = i
          /\ orgCall' = [orgCall EXCEPT ![r] = x]
          /\ UNCHANGED <<role, current, team, invite, leftovers, crossed>>
          /\ ~Adding(r) /\ ~Resetting(r) /\ invite[i] # NoInvitation
      BY <1>3 DEF Accept, Adding, Resetting, NoCall, NoInvitation
    <2> HIDE DEF x
    <2> QED
      BY <1>a, <2>1, QuietStep
  <1>4. ASSUME NEW r \in OrgCalls, NEW u \in Members, SwitchOrg(r, u) PROVE OrgsRest'
    <2> DEFINE x == [op |-> "switch", pc |-> "write", user |-> u]
    <2>1. x.op = "switch" /\ orgCall' = [orgCall EXCEPT ![r] = x]
          /\ UNCHANGED <<role, current, team, invite, leftovers, crossed>>
          /\ ~Adding(r) /\ ~Resetting(r)
      BY <1>4 DEF SwitchOrg, Adding, Resetting, NoCall
    <2> HIDE DEF x
    <2> QED
      BY <1>a, <2>1, QuietStep
  <1>5. ASSUME NEW r \in OrgCalls, CountOwners(r) PROVE OrgsRest'
    <2> DEFINE x == [orgCall[r] EXCEPT !.pc = "write", !.relies = TakesOwner(r)]
    <2>1. ~Adding(r) /\ ~Resetting(r) /\ UNCHANGED <<role, current, team, invite, leftovers, crossed>>
      BY <1>5 DEF CountOwners, Adding, Resetting
    <2>2. CASE Return(r)
      BY <1>e, <2>1, <2>2
    <2>3. ASSUME ~Return(r) PROVE OrgsRest'
      <3>1. /\ orgCall' = [orgCall EXCEPT ![r].pc = "write", ![r].relies = TakesOwner(r)]
            /\ ~(TakesOwner(r) /\ OrgOwners = {orgCall[r].user})
        BY <1>5, <2>3 DEF CountOwners
      <3>2. orgCall' = [orgCall EXCEPT ![r] = x]
        BY <3>1, <1>a DEF OrgsTypeOK
      <3>3. x.op = "change" /\ x.relies = TakesOwner(r) /\ x.user = orgCall[r].user
        BY <1>5, <1>a, OrgCallShape DEF CountOwners
      <3>4. TakesOwner(r) => OrgOwners \ {x.user} # {} \/ <<"owners">> \in crossed
        BY <1>b, <3>1, <3>3 DEF OwnerRemains
      <3> HIDE DEF x
      <3> QED
        BY <1>a, <2>1, <3>2, <3>3, <3>4, QuietStep
    <2> QED
      BY <1>5, <2>2, <2>3 DEF CountOwners
  <1>6. ASSUME NEW r \in OrgCalls, WriteMember(r) PROVE OrgsRest'
    <2> DEFINE u == orgCall[r].user
               new == orgCall[r].new
    <2>1. u \in Members /\ new \in Roles \cup {"none"} /\ ~Adding(r) /\ ~Resetting(r)
          /\ UNCHANGED <<current, team, invite, orgCalls>>
      BY <1>6, <1>a, OrgCallShape DEF WriteMember, Adding, Resetting
    <2>2. CASE Return(r) /\ UNCHANGED <<role, leftovers, crossed>>
      BY <1>e, <2>1, <2>2
    <2>3. ASSUME role[u] # "none", role' = [role EXCEPT ![u] = new],
                 crossed' = IF OwnerUncounted(r) THEN crossed \cup {<<"owners">>} ELSE crossed,
                 IF new = "none" THEN Await(r, "current") /\ leftovers' = leftovers \cup {u}
                 ELSE Return(r) /\ UNCHANGED leftovers
          PROVE  OrgsRest'
      <3>1. PICK x : /\ orgCall' = [orgCall EXCEPT ![r] = x]
                     /\ x.op # "accept" /\ (x.op = "change" => x.pc = "current")
                     /\ new = "none" => x.op = "change" /\ x.user = u
        <4>1. CASE new = "none"
          <5>1. \E x \in OrgCallType :
                   /\ orgCall' = [orgCall EXCEPT ![r] = x]
                   /\ x.op = "change" /\ x.pc = "current" /\ x.user = u
            BY <1>6, <1>a, <2>3, <4>1, AwaitChange DEF WriteMember
          <5> QED
            BY <5>1
        <4>2. CASE new # "none"
          BY <1>a, <2>3, <4>2, ReturnNoCall
        <4> QED
          BY <4>1, <4>2
      <3>2. \A q \in OrgCalls : orgCall'[q] = IF q = r THEN x ELSE orgCall[q]
        BY <1>a, <3>1 DEF OrgsTypeOK
      <3>3. \A v \in Members : role'[v] = IF v = u THEN new ELSE role[v]
        BY <1>a, <2>1, <2>3 DEF OrgsTypeOK
      <3>4. crossed \subseteq crossed'
        BY <2>3
      <3>5. leftovers \subseteq leftovers' /\ (new = "none" => u \in leftovers')
        BY <2>3
      <3> HIDE DEF u, new
      <3>6. AcceptsInvited'
        BY <1>b, <2>1, <3>1, <3>2 DEF AcceptsInvited
      <3>7. OwnerRemains' /\ OwnerLeft'
        <4>1. \A q \in OrgCalls : Relying(q)' =>
                 q # r /\ Relying(q) /\ orgCall'[q].user = orgCall[q].user
          BY <3>1, <3>2 DEF Relying
        <4>2. CASE role[u] = "owner" /\ new # "owner"
          <5>1. OrgOwners' = OrgOwners \ {u}
            BY <3>3, <4>2 DEF OrgOwners
          <5>2. \/ <<"owners">> \in crossed'
                \/ OrgOwners \ {u} # {} /\ \A q \in OrgCalls \ {r} : ~Relying(q)
            <6>1. CASE OwnerUncounted(r)
              BY <2>3, <6>1
            <6>2. CASE ~OwnerUncounted(r)
              <7>1. orgCall[r].relies /\ \A q \in OrgCalls \ {r} : ~Relying(q)
                BY <4>2, <6>2 DEF OwnerUncounted, Relying, u, new
              <7>2. OrgOwners \ {u} # {} \/ <<"owners">> \in crossed
                BY <1>6, <1>b, <7>1 DEF OwnerLeft, Relying, WriteMember, u
              <7> QED
                BY <3>4, <7>1, <7>2
            <6> QED
              BY <6>1, <6>2
          <5>3. OwnerRemains'
            BY <5>1, <5>2 DEF OwnerRemains
          <5>4. OwnerLeft'
            BY <4>1, <5>2 DEF OwnerLeft
          <5> QED
            BY <5>3, <5>4
        <4>3. CASE ~(role[u] = "owner" /\ new # "owner")
          <5>1. OrgOwners \subseteq OrgOwners'
            BY <3>3, <4>3 DEF OrgOwners
          <5>2. OwnerRemains'
            BY <1>b, <3>4, <5>1 DEF OwnerRemains
          <5>3. OwnerLeft'
            BY <1>b, <3>4, <4>1, <5>1 DEF OwnerLeft
          <5> QED
            BY <5>2, <5>3
        <4> QED
          BY <4>2, <4>3
      <3>8. \A v \in Members : Joining(v)' <=> Joining(v)
        BY <2>1, <3>1, <3>2 DEF Joining, Adding
      <3>9. JoinersInTeam'
        BY <1>b, <2>1, <3>4, <3>8 DEF JoinersInTeam
      <3>10. MemberIsInTeam'
        BY <1>b, <2>1, <2>3, <3>3, <3>4 DEF MemberIsInTeam, u
      <3>11. TeamIsMembers'
        BY <1>a, <1>b, <2>1, <3>3, <3>5, <3>8 DEF TeamIsMembers, OrgsTypeOK
      <3>12. CurrentIsMember'
        <4> SUFFICES ASSUME NEW v \in Members, current[v], role'[v] = "none",
                            <<"current", v>> \notin crossed
                     PROVE  \E q \in OrgCalls : /\ orgCall'[q].op = "change" /\ orgCall'[q].user = v
                                                /\ orgCall'[q].pc = "current"
          BY <2>1, <3>4 DEF CurrentIsMember
        <4>1. CASE v = u
          BY <3>1, <3>2, <3>3, <4>1
        <4>2. CASE v # u
          <5>1. PICK q \in OrgCalls : orgCall[q].op = "change" /\ orgCall[q].user = v
                                      /\ orgCall[q].pc = "current"
            BY <1>b, <3>3, <4>2 DEF CurrentIsMember
          <5>2. q # r
            BY <2>1, <5>1 DEF Resetting
          <5> QED
            BY <3>2, <5>1, <5>2
        <4> QED
          BY <4>1, <4>2
      <3> QED
        BY <3>6, <3>7, <3>9, <3>10, <3>11, <3>12 DEF OrgsRest, AccessIsMembership
    <2> QED
      BY <1>6, <2>2, <2>3 DEF WriteMember
  <1>7. ASSUME NEW r \in OrgCalls, LeaveCurrent(r) PROVE OrgsRest'
    <2> DEFINE u == orgCall[r].user
    <2>a. ASSUME UNCHANGED current, Return(r),
                 crossed' = IF current[u] THEN crossed \cup {<<"current", u>>} ELSE crossed
          PROVE  OrgsRest'
      <3>1. UNCHANGED <<role, current, team, invite, leftovers>> /\ ~Adding(r)
        BY <1>7, <2>a DEF LeaveCurrent, Adding
      <3>2. crossed \subseteq crossed' /\ (~current[u] \/ <<"current", u>> \in crossed')
        BY <2>a
      <3> QED
        BY <1>e, <2>a, <3>1, <3>2
    <2> SUFFICES ASSUME current' = [current EXCEPT ![u] = FALSE], Await(r, "team"), UNCHANGED crossed
                 PROVE  OrgsRest'
      BY <1>7, <2>a DEF LeaveCurrent
    <2>1. u \in Members /\ UNCHANGED <<role, team, invite, leftovers, crossed>>
          /\ \A v \in Members : current'[v] = IF v = u THEN FALSE ELSE current[v]
      BY <1>7, <1>a, <1>c DEF LeaveCurrent, OrgsTypeOK
    <2>2. PICK x : /\ orgCall' = [orgCall EXCEPT ![r] = x]
                   /\ x.op = "change" /\ x.pc = "team" /\ x.user = u
      <3>1. \E x \in OrgCallType :
               orgCall' = [orgCall EXCEPT ![r] = x] /\ x.op = "change" /\ x.pc = "team" /\ x.user = u
        BY <1>7, <1>a, AwaitChange DEF LeaveCurrent
      <3> QED
        BY <3>1
    <2>3. \A q \in OrgCalls : orgCall'[q] = IF q = r THEN x ELSE orgCall[q]
      BY <1>a, <2>2 DEF OrgsTypeOK
    <2>4. Resetting(r)
      BY <1>7 DEF LeaveCurrent, Resetting
    <2> HIDE DEF u
    <2>5. AcceptsInvited'
      BY <1>b, <2>1, <2>2, <2>3 DEF AcceptsInvited
    <2>6. (OwnerLeft /\ OwnerRemains)'
      BY <1>b, <2>1, <2>2, <2>3 DEF OwnerLeft, OwnerRemains, OrgOwners, Relying
    <2>7. \A v \in Members : Joining(v)' <=> Joining(v)
      BY <2>2, <2>3, <2>4 DEF Joining, Resetting
    <2>8. JoinersInTeam' /\ MemberIsInTeam' /\ TeamIsMembers'
      BY <1>a, <1>b, <2>1, <2>7 DEF JoinersInTeam, MemberIsInTeam, TeamIsMembers, OrgsTypeOK
    <2>9. CurrentIsMember'
      <3> SUFFICES ASSUME NEW v \in Members, current'[v], role[v] = "none",
                          <<"current", v>> \notin crossed
                   PROVE  \E q \in OrgCalls : /\ orgCall'[q].op = "change" /\ orgCall'[q].user = v
                                              /\ orgCall'[q].pc = "current"
        BY <2>1 DEF CurrentIsMember
      <3>1. v # u /\ current[v]
        BY <2>1
      <3>2. PICK q \in OrgCalls : orgCall[q].op = "change" /\ orgCall[q].user = v
                                  /\ orgCall[q].pc = "current"
        BY <1>b, <3>1 DEF CurrentIsMember
      <3>3. q # r
        BY <3>1, <3>2 DEF u
      <3> QED
        BY <2>3, <3>2, <3>3
    <2> QED
      BY <2>5, <2>6, <2>8, <2>9 DEF OrgsRest, AccessIsMembership
  <1>8. ASSUME NEW r \in OrgCalls, LeaveTeam(r) PROVE OrgsRest'
    <2> DEFINE u == orgCall[r].user
    <2>1. /\ u \in Members /\ UNCHANGED <<role, current, invite>>
          /\ Return(r) /\ ~Adding(r) /\ ~Resetting(r) /\ orgCall[r].op = "change"
      BY <1>8, <1>c DEF LeaveTeam, Adding, Resetting
    <2>2. CASE UNCHANGED <<team, leftovers, crossed>>
      BY <1>e, <2>1, <2>2
    <2>3. ASSUME team' = team \ {u}, leftovers' = leftovers \ {u},
                 crossed' = IF role[u] # "none" \/ Joining(u)
                            THEN crossed \cup {<<"team", u>>} ELSE crossed
          PROVE  OrgsRest'
      <3>1. \A q \in OrgCalls : orgCall'[q] = IF q = r THEN NoCall ELSE orgCall[q]
        BY <1>a, <2>1, ReturnNoCall DEF OrgsTypeOK
      <3>2. NoCall.op = "none"
        BY DEF NoCall
      <3>3. crossed \subseteq crossed'
        BY <2>3
      <3>4. AcceptsInvited'
        BY <1>b, <2>1, <3>1, <3>2 DEF AcceptsInvited
      <3>5. (OwnerLeft /\ OwnerRemains)'
        BY <1>b, <2>1, <3>1, <3>2, <3>3 DEF OwnerLeft, OwnerRemains, OrgOwners, Relying
      <3>6. \A v \in Members : Joining(v)' <=> Joining(v)
        BY <2>1, <3>1, <3>2 DEF Joining
      <3> HIDE DEF u
      <3>7. JoinersInTeam' /\ MemberIsInTeam'
        BY <1>b, <2>1, <2>3, <3>3, <3>6 DEF JoinersInTeam, MemberIsInTeam
      <3>8. TeamIsMembers'
        BY <1>a, <1>b, <2>1, <2>3, <3>6 DEF TeamIsMembers, OrgsTypeOK
      <3>9. CurrentIsMember'
        <4> SUFFICES ASSUME NEW v \in Members, current[v], role[v] = "none",
                            <<"current", v>> \notin crossed
                     PROVE  \E q \in OrgCalls : /\ orgCall'[q].op = "change" /\ orgCall'[q].user = v
                                                /\ orgCall'[q].pc = "current"
          BY <2>1, <3>3 DEF CurrentIsMember
        <4>1. PICK q \in OrgCalls : orgCall[q].op = "change" /\ orgCall[q].user = v
                                    /\ orgCall[q].pc = "current"
          BY <1>b DEF CurrentIsMember
        <4>2. q # r
          BY <2>1, <4>1 DEF Resetting
        <4> QED
          BY <3>1, <4>1, <4>2
      <3> QED
        BY <3>4, <3>5, <3>7, <3>8, <3>9 DEF OrgsRest, AccessIsMembership
    <2> QED
      BY <1>8, <2>2, <2>3 DEF LeaveTeam
  <1>9. ASSUME NEW r \in OrgCalls, orgCall[r].op = "accept", NEW status \in {"accepted", "expired"},
               invite' = [invite EXCEPT ![orgCall[r].invitation].status = status]
        PROVE  \A i \in Invitations : invite[i] # NoInvitation => invite'[i] # NoInvitation
    BY <1>9, <1>a DEF OrgsTypeOK, InvitationType, NoInvitation
  <1>10. ASSUME NEW r \in OrgCalls, MarkExpired(r) PROVE OrgsRest'
    BY <1>10, <1>9, <1>e DEF MarkExpired, Adding, Resetting
  <1>11. ASSUME NEW r \in OrgCalls, CheckMembership(r) PROVE OrgsRest'
    <2>1. ~Adding(r) /\ ~Resetting(r) /\ orgCall[r].op = "accept"
          /\ UNCHANGED <<role, current, team, invite, leftovers, crossed>>
      BY <1>11 DEF CheckMembership, Adding, Resetting
    <2>2. CASE Return(r)
      BY <1>e, <2>1, <2>2
    <2>3. ASSUME Await(r, "integrate") PROVE OrgsRest'
      <3>1. \E x \in OrgCallType :
               /\ orgCall' = [orgCall EXCEPT ![r] = x]
               /\ x.op = "accept" /\ x.pc = "integrate" /\ x.user = orgCall[r].user
               /\ x.invitation = orgCall[r].invitation
        BY <1>a, <2>1, <2>3, AwaitAccept
      <3> QED
        BY <1>a, <1>d, <2>1, <3>1, QuietStep
    <2> QED
      BY <1>11, <2>2, <2>3 DEF CheckMembership
  <1>12. ASSUME NEW r \in OrgCalls, Integrate(r) PROVE OrgsRest'
    <2>0. PICK u \in Members : u = orgCall[r].user
      BY <1>12, <1>c DEF Integrate
    <2>1. /\ ~Adding(r) /\ ~Resetting(r) /\ orgCall[r].op = "accept"
          /\ UNCHANGED <<role, current, invite, crossed>>
      BY <1>12 DEF Integrate, Adding, Resetting
    <2>2. CASE UNCHANGED <<team, leftovers>> /\ Return(r)
      BY <1>e, <2>1, <2>2
    <2>4. CASE team' = team \cup {u} /\ Return(r) /\ leftovers' = leftovers \cup {u}
      BY <1>e, <2>1, <2>4
    <2>3. ASSUME team' = team \cup {u}, Await(r, "add"), UNCHANGED leftovers PROVE OrgsRest'
      <3>1. PICK x : /\ orgCall' = [orgCall EXCEPT ![r] = x]
                     /\ x.op = "accept" /\ x.pc = "add" /\ x.user = u
                     /\ x.invitation = orgCall[r].invitation
        <4>1. \E x \in OrgCallType :
                 /\ orgCall' = [orgCall EXCEPT ![r] = x]
                 /\ x.op = "accept" /\ x.pc = "add" /\ x.user = u
                 /\ x.invitation = orgCall[r].invitation
          BY <1>a, <2>0, <2>1, <2>3, AwaitAccept
        <4> QED
          BY <4>1
      <3>2. \A q \in OrgCalls : orgCall'[q] = IF q = r THEN x ELSE orgCall[q]
        BY <1>a, <3>1 DEF OrgsTypeOK
      <3>3. AcceptsInvited'
        BY <1>b, <2>1, <3>1, <3>2 DEF AcceptsInvited
      <3>4. (OwnerLeft /\ OwnerRemains)'
        BY <1>b, <2>1, <3>1, <3>2 DEF OwnerLeft, OwnerRemains, OrgOwners, Relying
      <3>5. Joining(u)' /\ \A v \in Members : v # u => (Joining(v)' <=> Joining(v))
        <4>1. Joining(u)'
          BY <3>1, <3>2 DEF Joining
        <4>2. ASSUME NEW v \in Members, v # u, Joining(v)' PROVE Joining(v)
          BY <3>1, <3>2, <4>2 DEF Joining
        <4>3. ASSUME NEW v \in Members, Joining(v) PROVE Joining(v)'
          BY <2>1, <3>2, <4>3 DEF Joining, Adding
        <4> QED
          BY <4>1, <4>2, <4>3
      <3>6. JoinersInTeam' /\ MemberIsInTeam'
        BY <1>b, <2>1, <2>3, <3>5 DEF JoinersInTeam, MemberIsInTeam
      <3>7. TeamIsMembers'
        <4> SUFFICES ASSUME NEW v \in team'
                     PROVE  role[v] # "none" \/ Joining(v)' \/ v \in leftovers
          BY <2>1, <2>3 DEF TeamIsMembers
        <4>1. v = u \/ (v \in team /\ v \in Members)
          BY <1>a, <2>3 DEF OrgsTypeOK
        <4> QED
          BY <1>b, <3>5, <4>1 DEF TeamIsMembers
      <3>8. CurrentIsMember'
        <4>1. \A q \in OrgCalls, v \in Members :
                 orgCall[q].op = "change" /\ orgCall[q].user = v /\ orgCall[q].pc = "current"
                 => orgCall'[q] = orgCall[q]
          BY <2>1, <3>2
        <4> QED
          BY <1>b, <2>1, <4>1 DEF CurrentIsMember
      <3> QED
        BY <3>3, <3>4, <3>6, <3>7, <3>8 DEF OrgsRest, AccessIsMembership
    <2> QED
      BY <1>12, <2>0, <2>2, <2>3, <2>4 DEF Integrate
  <1>13. ASSUME NEW r \in OrgCalls, AddMember(r) PROVE OrgsRest'
    <2> DEFINE u == orgCall[r].user
    <2>1. /\ u \in Members /\ Adding(r) /\ ~Resetting(r) /\ orgCall[r].op = "accept"
          /\ UNCHANGED <<current, team, invite, crossed>>
      BY <1>13, <1>c DEF AddMember, Adding, Resetting
    <2>2. CASE Return(r) /\ UNCHANGED role
               /\ leftovers' = IF role[u] = "none" THEN leftovers \cup {u} ELSE leftovers
      <3>1. leftovers \subseteq leftovers' /\ (role[u] # "none" \/ u \in leftovers')
        BY <2>2
      <3> QED
        BY <1>e, <2>1, <2>2, <3>1
    <2>3. ASSUME role[u] = "none", Await(r, "mark"), UNCHANGED leftovers,
                 role' = [role EXCEPT ![u] = invite[orgCall[r].invitation].role]
          PROVE  OrgsRest'
      <3>1. PICK x : /\ orgCall' = [orgCall EXCEPT ![r] = x]
                     /\ x.op = "accept" /\ x.pc = "mark"
                     /\ x.invitation = orgCall[r].invitation
        <4>1. \E x \in OrgCallType :
                 /\ orgCall' = [orgCall EXCEPT ![r] = x]
                 /\ x.op = "accept" /\ x.pc = "mark" /\ x.user = u
                 /\ x.invitation = orgCall[r].invitation
          BY <1>a, <2>1, <2>3, AwaitAccept
        <4> QED
          BY <4>1
      <3>2. \A q \in OrgCalls : orgCall'[q] = IF q = r THEN x ELSE orgCall[q]
        BY <1>a, <3>1 DEF OrgsTypeOK
      <3>3. \A v \in Members : v # u => role'[v] = role[v]
        BY <1>a, <2>1, <2>3 DEF OrgsTypeOK
      <3>4. role'[u] # "none"
        <4>1. invite[orgCall[r].invitation].role \in Roles
          BY <1>a, <1>d, <2>1 DEF OrgsTypeOK, InvitationType
        <4>2. role'[u] \in Roles
          BY <1>a, <2>1, <2>3, <4>1 DEF OrgsTypeOK
        <4> QED
          BY <4>2 DEF Roles
      <3>5. Joining(u)
        BY <2>1 DEF Joining, Adding
      <3> HIDE DEF u
      <3>6. AcceptsInvited'
        BY <1>b, <2>1, <3>1, <3>2 DEF AcceptsInvited
      <3>7. (OwnerLeft /\ OwnerRemains)'
        <4>1. OrgOwners \subseteq OrgOwners'
          BY <2>3, <3>3 DEF OrgOwners
        <4>2. \A q \in OrgCalls : Relying(q)' => Relying(q) /\ orgCall'[q] = orgCall[q]
          BY <3>1, <3>2 DEF Relying
        <4> QED
          BY <1>b, <2>1, <4>1, <4>2 DEF OwnerLeft, OwnerRemains
      <3>8. \A v \in Members : Joining(v)' => Joining(v)
        BY <3>1, <3>2 DEF Joining
      <3>9. \A v \in Members : v # u => (Joining(v) => Joining(v)')
        BY <3>2 DEF Joining, u
      <3>10. JoinersInTeam'
        BY <1>b, <2>1, <3>8 DEF JoinersInTeam
      <3>11. MemberIsInTeam'
        BY <1>b, <2>1, <3>3, <3>5 DEF JoinersInTeam, MemberIsInTeam
      <3>12. TeamIsMembers'
        BY <1>a, <1>b, <2>1, <2>3, <3>3, <3>4, <3>9 DEF TeamIsMembers, OrgsTypeOK
      <3>13. CurrentIsMember'
        <4>1. \A q \in OrgCalls, v \in Members :
                 orgCall[q].op = "change" /\ orgCall[q].user = v /\ orgCall[q].pc = "current"
                 => orgCall'[q] = orgCall[q]
          BY <2>1, <3>2
        <4> QED
          BY <1>b, <2>1, <3>3, <3>4, <4>1 DEF CurrentIsMember
      <3> QED
        BY <3>6, <3>7, <3>10, <3>11, <3>12, <3>13 DEF OrgsRest, AccessIsMembership
    <2> QED
      BY <1>13, <2>2, <2>3 DEF AddMember
  <1>14. ASSUME NEW r \in OrgCalls, MarkAccepted(r) PROVE OrgsRest'
    BY <1>14, <1>9, <1>e DEF MarkAccepted, Adding, Resetting
  <1>15. ASSUME NEW r \in OrgCalls, UpdateCurrent(r) PROVE OrgsRest'
    <2> DEFINE u == orgCall[r].user
    <2>1. /\ u \in Members /\ orgCall[r].op = "switch" /\ Return(r)
          /\ UNCHANGED <<role, team, invite, leftovers>>
          /\ crossed \subseteq crossed'
          /\ role[u] = "none" => <<"current", u>> \in crossed'
          /\ \A v \in Members : current'[v] = IF v = u THEN TRUE ELSE current[v]
      BY <1>15, <1>a, <1>c DEF UpdateCurrent, OrgsTypeOK
    <2>2. \A q \in OrgCalls : orgCall'[q] = IF q = r THEN NoCall ELSE orgCall[q]
      BY <1>a, <2>1, ReturnNoCall DEF OrgsTypeOK
    <2>3. NoCall.op = "none"
      BY DEF NoCall
    <2> HIDE DEF u
    <2>4. AcceptsInvited'
      BY <1>b, <2>1, <2>2, <2>3 DEF AcceptsInvited
    <2>5. (OwnerLeft /\ OwnerRemains)'
      BY <1>b, <2>1, <2>2, <2>3 DEF OwnerLeft, OwnerRemains, OrgOwners, Relying
    <2>6. \A v \in Members : Joining(v)' <=> Joining(v)
      BY <2>1, <2>2, <2>3 DEF Joining
    <2>7. JoinersInTeam' /\ MemberIsInTeam' /\ TeamIsMembers'
      BY <1>a, <1>b, <2>1, <2>6 DEF JoinersInTeam, MemberIsInTeam, TeamIsMembers, OrgsTypeOK
    <2>8. CurrentIsMember'
      <3>1. \A q \in OrgCalls, v \in Members :
               orgCall[q].op = "change" /\ orgCall[q].user = v /\ orgCall[q].pc = "current"
               => orgCall'[q] = orgCall[q]
        BY <2>1, <2>2
      <3> QED
        BY <1>b, <2>1, <3>1 DEF CurrentIsMember
    <2> QED
      BY <2>4, <2>5, <2>7, <2>8 DEF OrgsRest, AccessIsMembership
  <1>16. ASSUME NEW i \in Invitations, InvitationExpires(i) PROVE OrgsRest'
    <2>1. \A j \in Invitations : invite[j] # NoInvitation => invite'[j] # NoInvitation
      BY <1>16, <1>a DEF InvitationExpires, OrgsTypeOK, InvitationType, NoInvitation
    <2> QED
      BY <1>16, <1>f, <2>1 DEF InvitationExpires
  <1>17. ASSUME UNCHANGED orgVars PROVE OrgsRest'
    BY <1>17, <1>f DEF orgVars
  <1>18. OrgsRest'
    BY <1>1, <1>2, <1>3, <1>4, <1>5, <1>6, <1>7, <1>8, <1>10, <1>11, <1>12, <1>13, <1>14, <1>15,
       <1>16, <1>17
    DEF OrgsNext, OrgRequests, OrgSteps
  <1> QED
    BY <1>a, <1>18 DEF OrgsInv

(* An organization keeps an owner, and access follows membership, for any  *)
(* number of users, invitations and concurrent requests, up to the         *)
(* crossings and failures the model records (remove_org_member,            *)
(* update_org_member, accept_invitation, switch_org).                      *)
THEOREM OrgsCorrect == OrgsSpec => []OrgsTypeOK /\ []OwnerRemains /\ []AccessIsMembership
  <1>1. OrgsInit => OrgsInv
    <2> SUFFICES ASSUME OrgsInit PROVE OrgsInv
      OBVIOUS
    <2>1. OrgsTypeOK
      BY OrgsAssumption DEF OrgsInit, OrgsTypeOK, Roles, InvitationType, OrgCallType
    <2>2. \A r \in OrgCalls : orgCall[r].op = "none"
      BY DEF OrgsInit, NoCall
    <2>3. OrgOwners # {}
      BY OrgsAssumption DEF OrgsInit, OrgOwners
    <2>4. MemberIsInTeam /\ TeamIsMembers /\ CurrentIsMember
      BY OrgsAssumption DEF OrgsInit, MemberIsInTeam, TeamIsMembers, CurrentIsMember
    <2> QED
      BY <2>1, <2>2, <2>3, <2>4 DEF OrgsInv, OrgsRest, AcceptsInvited, OwnerLeft, Relying, OwnerRemains,
         JoinersInTeam, Joining, AccessIsMembership
  <1>2. OrgsInv /\ [OrgsNext]_orgVars => OrgsInv'
    BY OrgsInvStep
  <1>3. OrgsInv => OrgsTypeOK /\ OwnerRemains /\ AccessIsMembership
    BY DEF OrgsInv, OrgsRest
  <1> QED
    BY <1>1, <1>2, <1>3, PTL DEF OrgsSpec

-----------------------------------------------------------------------------
(* Billing: the books balance.                                             *)

(* The units of counters over a finite set: a sum without recursion. *)
LEMMA UnitsOf ==
    ASSUME NEW S, NEW f, NEW u
    PROVE  u \in Units(f, S) <=> \E x \in S : \E n \in 1 .. f[x] : u = <<x, n>>
  BY DEF Units

LEMMA UnitsFinite ==
    ASSUME NEW S, IsFiniteSet(S), NEW f \in [S -> Nat]
    PROVE  IsFiniteSet(Units(f, S))
  <1> DEFINE U == {{x} \X (1 .. f[x]) : x \in S}
             g == [x \in S |-> {x} \X (1 .. f[x])]
  <1>1. g \in Surjection(S, U)
    BY DEF Surjection
  <1>2. IsFiniteSet(U)
    BY <1>1, FS_Surjection
  <1>3. \A T \in U : IsFiniteSet(T)
    <2>1. \A x \in S : IsFiniteSet({x}) /\ IsFiniteSet(1 .. f[x])
      BY FS_Singleton, FS_Interval
    <2>2. \A x \in S : IsFiniteSet({x} \X (1 .. f[x]))
      BY <2>1, FS_Product
    <2> QED
      BY <2>2
  <1>4. IsFiniteSet(UNION U)
    BY <1>2, <1>3, FS_UNION
  <1> QED
    BY <1>4 DEF Units

LEMMA SumType ==
    ASSUME NEW S, IsFiniteSet(S), NEW f \in [S -> Nat]
    PROVE  Sum(f, S) \in Nat
  BY UnitsFinite, FS_CardinalityType DEF Sum

LEMMA SumOfNothing ==
    ASSUME NEW S, NEW f, \A x \in S : f[x] = 0
    PROVE  Sum(f, S) = 0
  <1>1. Units(f, S) = {}
    BY UnitsOf
  <1> QED
    BY <1>1, FS_EmptySet DEF Sum

LEMMA SumAddsOne ==
    ASSUME NEW S, IsFiniteSet(S), NEW f \in [S -> Nat], NEW x \in S,
           NEW g, g = [f EXCEPT ![x] = f[x] + 1]
    PROVE  Sum(g, S) = Sum(f, S) + 1
  <1> DEFINE u == <<x, f[x] + 1>>
  <1>1. g \in [S -> Nat] /\ g[x] = f[x] + 1 /\ \A y \in S : y # x => g[y] = f[y]
    OBVIOUS
  <1>2. u \notin Units(f, S)
    BY UnitsOf
  <1>3. Units(g, S) = Units(f, S) \cup {u}
    <2>1. ASSUME NEW v \in Units(g, S)
          PROVE  v \in Units(f, S) \cup {u}
      <3>1. PICK y \in S : \E n \in 1 .. g[y] : v = <<y, n>>
        BY <2>1 DEF Units
      <3>2. PICK n \in 1 .. g[y] : v = <<y, n>>
        BY <3>1
      <3>3. n \in 1 .. f[y] \/ (y = x /\ n = f[x] + 1)
        BY <1>1
      <3> QED
        BY <3>2, <3>3, UnitsOf
    <2>2. ASSUME NEW v \in Units(f, S)
          PROVE  v \in Units(g, S)
      <3>1. PICK y \in S : \E n \in 1 .. f[y] : v = <<y, n>>
        BY <2>2 DEF Units
      <3>2. PICK n \in 1 .. f[y] : v = <<y, n>>
        BY <3>1
      <3>3. n \in 1 .. g[y]
        BY <1>1
      <3> QED
        BY <3>2, <3>3, UnitsOf
    <2>3. u \in Units(g, S)
      <3>1. f[x] + 1 \in 1 .. g[x]
        BY <1>1
      <3> QED
        BY <3>1, UnitsOf
    <2> QED
      BY <2>1, <2>2, <2>3
  <1> QED
    BY <1>2, <1>3, UnitsFinite, FS_AddElement DEF Sum

LEMMA SumGrows ==
    ASSUME NEW S, IsFiniteSet(S), NEW f \in [S -> Nat], NEW g \in [S -> Nat],
           \A x \in S : f[x] <= g[x]
    PROVE  Sum(f, S) <= Sum(g, S)
  <1>1. ASSUME NEW v \in Units(f, S)
        PROVE  v \in Units(g, S)
    <2>1. PICK y \in S : \E n \in 1 .. f[y] : v = <<y, n>>
      BY <1>1 DEF Units
    <2>2. PICK n \in 1 .. f[y] : v = <<y, n>>
      BY <2>1
    <2>3. n \in 1 .. g[y]
      OBVIOUS
    <2> QED
      BY <2>2, <2>3, UnitsOf
  <1>2. Units(f, S) \in SUBSET Units(g, S)
    BY <1>1
  <1> QED
    BY <1>2, UnitsFinite, FS_Subset DEF Sum

LEMMA SumBounds ==
    ASSUME NEW S, IsFiniteSet(S), NEW f \in [S -> Nat], NEW x \in S
    PROVE  f[x] <= Sum(f, S)
  <1> DEFINE T == {x} \X (1 .. f[x])
  <1>1. Cardinality(T) = f[x]
    <2>1. IsFiniteSet({x}) /\ Cardinality({x}) = 1
      BY FS_Singleton
    <2>2. IsFiniteSet(1 .. f[x]) /\ Cardinality(1 .. f[x]) = f[x]
      BY FS_Interval
    <2>3. Cardinality(T) = Cardinality({x}) * Cardinality(1 .. f[x])
      BY <2>1, <2>2, FS_Product
    <2> QED
      BY <2>1, <2>2, <2>3
  <1>2. T \in SUBSET Units(f, S)
    BY DEF Units
  <1> QED
    BY <1>1, <1>2, UnitsFinite, FS_Subset DEF Sum

(* What the budgets were raised by so far, team by team: no budget, and no *)
(* budget that is about to be written, is above it.                        *)
Raised(s) ==
    /\ Sum(s, Teams) = Sum(credits, Checkouts)
    /\ \A t \in Teams : budget[t] <= s[t]
    /\ \A r \in Callbacks :
          callback[r].pc = "raise" => callback[r].new <= s[callback[r].team] + 1

Ledger == \E s \in [Teams -> Nat] : Raised(s)

(* A callback under way is about a bill; one that raises was paid for. *)
CallbackFits(r) ==
    /\ callback[r].pc # "idle" => bill[callback[r].checkout] # NoBill
    /\ callback[r].pc \in {"read", "raise", "commit"} => stripe[callback[r].checkout] = "complete"
    /\ callback[r].pc = "commit" => credits[callback[r].checkout] > 0

CallbacksFit == \A r \in Callbacks : CallbackFits(r)

(* Callbacks that come one after another find what they read unchanged. *)
InTurn ==
    ~muddled =>
        /\ \A r, q \in Callbacks : callback[r].pc # "idle" /\ callback[q].pc # "idle" => r = q
        /\ \A r \in Callbacks :
              /\ callback[r].pc # "idle" => bill[callback[r].checkout].status = "in_progress"
              /\ callback[r].pc = "raise" => callback[r].new = budget[callback[r].team] + 1

BillingInv ==
    /\ BillingTypeOK /\ Sum(credits, Checkouts) <= MaxCredits
    /\ Ledger /\ CallbacksFit /\ InTurn /\ BooksBalance

(* The records of a callback and of a bill. *)
LEMMA CallbackShape ==
    ASSUME BillingTypeOK, NEW r \in Callbacks
    PROVE  /\ callback[r] = NoCallback <=> callback[r].pc = "idle"
           /\ callback[r].pc \in {"idle", "read", "cancel", "raise", "commit"}
           /\ callback[r].pc # "idle" => callback[r].checkout \in Checkouts
           /\ callback[r].pc \in {"raise", "commit"} =>
                 /\ callback[r].team \in Teams
                 /\ callback[r].new \in 1 .. Sum(credits, Checkouts) + 1
  BY DEF BillingTypeOK, CallbackType, NoCallback

LEMMA BillShape ==
    ASSUME BillingTypeOK, NEW k \in Checkouts
    PROVE  /\ bill[k] = NoBill <=> bill[k].status = "absent"
           /\ bill[k] # NoBill => bill[k] \in
                 [status : {"in_progress", "completed", "cancelled"}, team : Teams]
  BY DEF BillingTypeOK, BillType, NoBill

LEMMA SumsType ==
    ASSUME BillingTypeOK
    PROVE  Sum(credits, Checkouts) \in Nat /\ Sum(budget, Teams) \in Nat
  <1> USE BillingAssumption
  <1>1. credits \in [Checkouts -> Nat] /\ budget \in [Teams -> Nat]
    BY DEF BillingTypeOK
  <1> QED
    BY <1>1, SumType

LEMMA BillingInitInv == BillingInit => BillingInv
  <1> SUFFICES ASSUME BillingInit PROVE BillingInv
    OBVIOUS
  <1> USE BillingAssumption
  <1>1. Sum(credits, Checkouts) = 0 /\ Sum(budget, Teams) = 0
    BY SumOfNothing DEF BillingInit
  <1>2. BillingTypeOK
    <2>1. /\ stripe \in [Checkouts -> {"none", "open", "complete"}]
          /\ bill \in [Checkouts -> BillType] /\ callback \in [Callbacks -> CallbackType]
      BY DEF BillingInit, BillType, CallbackType
    <2>2. /\ budget \in [Teams -> 0 .. MaxCredits] /\ credits \in [Checkouts -> 0 .. MaxCredits]
          /\ selected \in Teams
      BY DEF BillingInit
    <2>3. muddled \in BOOLEAN
      BY Zenon DEF BillingInit
    <2> QED
      BY <2>1, <2>2, <2>3 DEF BillingTypeOK
  <1>3. Raised(budget) /\ budget \in [Teams -> Nat]
    <2>1. budget \in [Teams -> Nat] /\ \A r \in Callbacks : callback[r].pc = "idle"
      BY DEF BillingInit, NoCallback
    <2> QED
      BY <1>1, <2>1 DEF Raised
  <1>4. Ledger
    BY <1>3 DEF Ledger
  <1>5. CallbacksFit /\ InTurn
    BY DEF CallbacksFit, CallbackFits, InTurn, BillingInit, NoCallback
  <1>6. BooksBalance
    BY <1>1 DEF BooksBalance, CreditsArePaid, SerialIsExact, BillingInit, NoCallback, NoBill
  <1> QED
    BY <1>1, <1>2, <1>4, <1>5, <1>6 DEF BillingInv

(* Steps that leave the books and the callbacks alone. *)
LEMMA CheckoutStep ==
    ASSUME BillingInv, NEW k \in Checkouts, CreateCheckout(k) \/ StoreBill(k) \/ Pay(k)
    PROVE  BillingInv'
  <1> USE DEF BillingInv
  <1>1. UNCHANGED <<selected, budget, callback, credits, muddled>>
    BY DEF CreateCheckout, StoreBill, Pay
  <1>2. BillingTypeOK' /\ (Sum(credits, Checkouts) <= MaxCredits)'
    BY <1>1 DEF BillingTypeOK, CallbackType, BillType, CreateCheckout, StoreBill, Pay
  <1>3. Ledger'
    BY <1>1 DEF Ledger, Raised
  <1>4. /\ \A j \in Checkouts : stripe[j] = "complete" => stripe'[j] = "complete"
        /\ \A j \in Checkouts : bill[j] # NoBill => bill'[j] = bill[j]
        /\ \A j \in Checkouts : bill'[j] # NoBill /\ bill'[j].status = "completed" =>
              bill[j] = bill'[j]
    BY DEF BillingTypeOK, CreateCheckout, StoreBill, Pay, NoBill
  <1>5. CallbacksFit'
    BY <1>1, <1>4, CallbackShape DEF CallbacksFit, CallbackFits
  <1>6. InTurn'
    BY <1>1, <1>4, CallbackShape DEF InTurn, CallbacksFit, CallbackFits
  <1>7. BooksBalance'
    BY <1>1, <1>4 DEF BooksBalance, CreditsArePaid, SerialIsExact
  <1> QED
    BY <1>2, <1>3, <1>5, <1>6, <1>7

LEMMA SelectTeamStep ==
    ASSUME BillingInv, NEW t \in Teams, SelectTeam(t)
    PROVE  BillingInv'
  BY DEF BillingInv, SelectTeam, BillingTypeOK, CallbackType, BillType, Ledger, Raised,
         CallbacksFit, CallbackFits, InTurn, BooksBalance, CreditsArePaid, SerialIsExact

(* A callback begins; another one under way spoils the order. *)
LEMMA BeginStep ==
    ASSUME BillingInv, NEW r \in Callbacks, NEW k \in Checkouts,
           Success(r, k) \/ CancelCheckout(r, k)
    PROVE  BillingInv'
  <1> USE DEF BillingInv
  <1>1. PICK pc \in {"read", "cancel"} :
           /\ callback' = [callback EXCEPT ![r] = [pc |-> pc, checkout |-> k]]
           /\ pc = "read" => stripe[k] = "complete"
    BY DEF Success, CancelCheckout
  <1>2. /\ callback[r] = NoCallback /\ bill[k].status = "in_progress"
        /\ UNCHANGED <<stripe, bill, selected, budget, credits>>
        /\ muddled' = (muddled \/ OtherCallbacks(r))
    BY DEF Success, CancelCheckout
  <1>3. /\ callback'[r] = [pc |-> pc, checkout |-> k]
        /\ \A q \in Callbacks : q # r => callback'[q] = callback[q]
    BY <1>1 DEF BillingTypeOK
  <1>4. callback'[r].pc = pc /\ callback'[r].checkout = k
    BY <1>3
  <1>5. BillingTypeOK' /\ (Sum(credits, Checkouts) <= MaxCredits)'
    <2>1. [pc |-> pc, checkout |-> k] \in CallbackType
      BY DEF CallbackType
    <2>2. CallbackType' = CallbackType
      BY <1>2 DEF CallbackType
    <2>3. callback' \in [Callbacks -> CallbackType']
      BY <1>1, <2>1, <2>2 DEF BillingTypeOK
    <2>4. muddled' \in BOOLEAN
      BY <1>2 DEF BillingTypeOK, OtherCallbacks
    <2> QED
      BY <1>2, <2>3, <2>4 DEF BillingTypeOK
  <1>6. Ledger'
    <2>1. PICK s \in [Teams -> Nat] : Raised(s)
      BY DEF Ledger
    <2>2. Raised(s)'
      BY <2>1, <1>2, <1>3, <1>4 DEF Raised
    <2> QED
      BY <2>2 DEF Ledger
  <1>7. CallbacksFit'
    BY <1>1, <1>2, <1>3, <1>4, BillShape DEF CallbacksFit, CallbackFits
  <1>8. ~muddled' => ~muddled /\ \A q \in Callbacks : q # r => callback[q].pc = "idle"
    BY <1>2, CallbackShape DEF OtherCallbacks
  <1>9. InTurn'
    BY <1>2, <1>3, <1>4, <1>8 DEF InTurn
  <1>10. BooksBalance'
    <2>1. callback[r].pc = "idle"
      BY <1>2 DEF NoCallback
    <2>2. CreditsArePaid'
      BY <1>2 DEF BooksBalance, CreditsArePaid
    <2>3. \A q \in Callbacks : callback'[q].pc = "commit" <=> callback[q].pc = "commit"
      BY <1>3, <1>4, <2>1
    <2>4. \A q \in Callbacks : callback'[q].pc = "commit" => callback'[q] = callback[q]
      BY <1>3, <1>4
    <2>5. SerialIsExact'
      BY <1>2, <1>8, <2>3, <2>4 DEF BooksBalance, SerialIsExact
    <2> QED
      BY <2>2, <2>5 DEF BooksBalance
  <1> QED
    BY <1>5, <1>6, <1>7, <1>9, <1>10

LEMMA ReadBudgetStep ==
    ASSUME BillingInv, NEW r \in Callbacks, ReadBudget(r)
    PROVE  BillingInv'
  <1> USE DEF BillingInv
  <1>0. PICK found \in {0, budget[selected]} :
           /\ callback' = [callback EXCEPT ![r] =
                 [pc |-> "raise", checkout |-> callback[r].checkout, team |-> selected,
                  new |-> found + 1]]
           /\ muddled' = (muddled \/ found # budget[selected])
    BY DEF ReadBudget
  <1> DEFINE k == callback[r].checkout
             new == [pc |-> "raise", checkout |-> k, team |-> selected,
                     new |-> found + 1]
  <1>1. /\ callback[r].pc = "read" /\ callback' = [callback EXCEPT ![r] = new]
        /\ UNCHANGED <<stripe, bill, selected, budget, credits>>
        /\ muddled \in BOOLEAN /\ muddled' \in BOOLEAN
        /\ ~muddled' => ~muddled /\ found = budget[selected]
    BY <1>0 DEF ReadBudget, BillingTypeOK
  <1>2. k \in Checkouts /\ selected \in Teams
    BY <1>1, CallbackShape DEF BillingTypeOK
  <1>3. /\ callback'[r] = new
        /\ \A q \in Callbacks : q # r => callback'[q] = callback[q]
    BY <1>1 DEF BillingTypeOK
  <1>4. PICK s \in [Teams -> Nat] : Raised(s)
    BY DEF Ledger
  <1>5. budget[selected] \in Nat /\ budget[selected] <= Sum(credits, Checkouts)
    <2>1. budget[selected] <= s[selected] /\ s[selected] <= Sum(s, Teams)
      BY <1>2, <1>4, SumBounds, BillingAssumption DEF Raised
    <2>2. Sum(s, Teams) = Sum(credits, Checkouts) /\ Sum(credits, Checkouts) \in Nat
      BY <1>4, SumsType DEF Raised
    <2>3. budget[selected] \in Nat /\ s[selected] \in Nat
      BY <1>2 DEF BillingTypeOK
    <2> QED
      BY <2>1, <2>2, <2>3
  <1>6. BillingTypeOK' /\ (Sum(credits, Checkouts) <= MaxCredits)'
    <2>1. found + 1 \in 1 .. Sum(credits, Checkouts) + 1
      BY <1>0, <1>5, SumsType
    <2>2. new \in CallbackType
      BY <1>2, <2>1 DEF CallbackType
    <2>3. CallbackType' = CallbackType
      BY <1>1 DEF CallbackType
    <2>4. callback' \in [Callbacks -> CallbackType']
      BY <1>1, <2>2, <2>3 DEF BillingTypeOK
    <2> QED
      BY <1>1, <2>4 DEF BillingTypeOK
  <1>7. Raised(s)'
    <2>1. /\ callback'[r].pc = "raise" /\ callback'[r].team = selected
          /\ callback'[r].new = found + 1
      BY <1>3
    <2>2. budget[selected] <= s[selected] /\ s[selected] \in Nat
      BY <1>2, <1>4 DEF Raised
    <2>3. callback'[r].new <= s[callback'[r].team] + 1
      BY <1>0, <2>1, <2>2, <1>5
    <2> QED
      BY <1>1, <1>3, <1>4, <2>3 DEF Raised
  <1>8. Ledger'
    BY <1>7 DEF Ledger
  <1>9. CallbacksFit'
    BY <1>1, <1>3 DEF CallbacksFit, CallbackFits
  <1>10. InTurn'
    BY <1>1, <1>3 DEF InTurn
  <1>11. BooksBalance'
    <2>1. \A q \in Callbacks : callback'[q].pc = "commit" <=> callback[q].pc = "commit"
      BY <1>1, <1>3
    <2>2. \A q \in Callbacks : callback'[q].pc = "commit" => callback'[q] = callback[q]
      BY <1>3
    <2> QED
      BY <1>1, <2>1, <2>2 DEF BooksBalance, CreditsArePaid, SerialIsExact
  <1> QED
    BY <1>6, <1>8, <1>9, <1>10, <1>11

(* The step the books are about: budget and credits grow together.  The    *)
(* budget may be a stale one plus one, which the ledger covers.            *)
LEMMA RaiseBudgetStep ==
    ASSUME BillingInv, NEW r \in Callbacks, RaiseBudget(r)
    PROVE  BillingInv'
  <1> USE DEF BillingInv
  <1> USE BillingAssumption
  <1> DEFINE k == callback[r].checkout
             t == callback[r].team
             n == callback[r].new
             total == Sum(credits, Checkouts)
  <1>1. /\ callback[r].pc = "raise" /\ total < MaxCredits
        /\ budget' = [budget EXCEPT ![t] = n]
        /\ credits' = [credits EXCEPT ![k] = credits[k] + 1]
        /\ callback' = [callback EXCEPT ![r].pc = "commit"]
        /\ UNCHANGED <<stripe, bill, selected, muddled>>
    BY DEF RaiseBudget
  <1>2. k \in Checkouts /\ t \in Teams /\ n \in 1 .. total + 1 /\ total \in Nat
    BY <1>1, CallbackShape, SumsType
  <1>3. /\ callback'[r].pc = "commit" /\ callback'[r].checkout = k
        /\ callback'[r].team = t /\ callback'[r].new = n
        /\ callback[r] \in [pc : {"raise", "commit"}, checkout : Checkouts, team : Teams,
                            new : 1 .. total + 1]
        /\ callback'[r] = [callback[r] EXCEPT !.pc = "commit"]
        /\ \A q \in Callbacks : q # r => callback'[q] = callback[q]
    BY <1>1 DEF BillingTypeOK, CallbackType, NoCallback
  <1>4. Sum(credits', Checkouts) = total + 1
    <2>1. credits \in [Checkouts -> Nat]
      BY DEF BillingTypeOK
    <2> QED
      BY <1>1, <1>2, <2>1, SumAddsOne
  <1>5. \A j \in Checkouts : credits'[j] = IF j = k THEN credits[k] + 1 ELSE credits[j]
    BY <1>1 DEF BillingTypeOK
  <1>6. \A u \in Teams : budget'[u] = IF u = t THEN n ELSE budget[u]
    BY <1>1 DEF BillingTypeOK
  <1>7. PICK s \in [Teams -> Nat] : Raised(s)
    BY DEF Ledger
  <1>7a. PICK z \in [Teams -> Nat] : z = [s EXCEPT ![t] = s[t] + 1]
    <2>1. [s EXCEPT ![t] = s[t] + 1] \in [Teams -> Nat]
      BY <1>2
    <2> QED
      BY <2>1
  <1>8. z \in [Teams -> Nat] /\ Sum(z, Teams) = total + 1
    <2>1. Sum(z, Teams) = Sum(s, Teams) + 1
      BY <1>2, <1>7a, SumAddsOne
    <2> QED
      BY <1>7, <2>1 DEF Raised
  <1>9. n <= s[t] + 1 /\ \A u \in Teams : s[u] <= z[u] /\ z[t] = s[t] + 1
    BY <1>1, <1>2, <1>7, <1>7a DEF Raised
  <1>10. budget' \in [Teams -> 0 .. MaxCredits] /\ credits' \in [Checkouts -> 0 .. MaxCredits]
    <2>1. budget' \in [Teams -> 0 .. MaxCredits]
      BY <1>1, <1>2 DEF BillingTypeOK
    <2>2. credits' \in [Checkouts -> Nat]
      BY <1>1, <1>2 DEF BillingTypeOK
    <2>3. \A j \in Checkouts : credits'[j] <= Sum(credits', Checkouts)
      BY <2>2, SumBounds
    <2>4. \A j \in Checkouts : credits'[j] \in 0 .. MaxCredits
      <3>1. Sum(credits', Checkouts) <= MaxCredits /\ Sum(credits', Checkouts) \in Nat
        BY <1>1, <1>2, <1>4
      <3>2. \A j \in Checkouts : credits'[j] \in Nat
        BY <2>2
      <3> QED
        BY <2>3, <3>1, <3>2
    <2> QED
      BY <2>1, <2>2, <2>4
  <1>11. BillingTypeOK' /\ (Sum(credits, Checkouts) <= MaxCredits)'
    <2>1. CallbackType \subseteq CallbackType'
      BY <1>2, <1>4 DEF CallbackType
    <2>2. callback'[r] \in CallbackType'
      <3>1. callback'[r] \in [pc : {"raise", "commit"}, checkout : Checkouts, team : Teams,
                              new : 1 .. total + 1]
        BY <1>3
      <3> QED
        BY <1>2, <1>4, <3>1 DEF CallbackType
    <2>3. \A q \in Callbacks : callback'[q] \in CallbackType'
      BY <1>3, <2>1, <2>2 DEF BillingTypeOK
    <2>4. callback' \in [Callbacks -> CallbackType']
      BY <1>1, <2>3 DEF BillingTypeOK
    <2>5. Sum(credits', Checkouts) <= MaxCredits
      BY <1>1, <1>2, <1>4
    <2> QED
      BY <1>1, <1>10, <2>4, <2>5 DEF BillingTypeOK
  <1>12. Ledger'
    <2>1. Sum(z, Teams) = Sum(credits', Checkouts)
      BY <1>4, <1>8
    <2>2. \A u \in Teams : budget'[u] <= z[u]
      <3>1. \A u \in Teams : s[u] \in Nat /\ budget[u] \in Nat /\ budget[u] <= s[u] /\ z[u] \in Nat
        BY <1>7, <1>8 DEF Raised, BillingTypeOK
      <3> QED
        BY <1>2, <1>6, <1>9, <3>1
    <2>3. ASSUME NEW q \in Callbacks, callback'[q].pc = "raise"
          PROVE  callback'[q].new <= z[callback'[q].team] + 1
      <3>1. callback'[q] = callback[q] /\ callback[q].pc = "raise"
        BY <1>3, <2>3
      <3>2. callback[q].new <= s[callback[q].team] + 1
        BY <1>7, <3>1 DEF Raised
      <3>3. callback[q].team \in Teams /\ callback[q].new \in 1 .. total + 1
        BY <3>1, CallbackShape
      <3>4. s[callback[q].team] \in Nat /\ z[callback[q].team] \in Nat
        BY <1>7, <1>8, <3>3
      <3> QED
        BY <1>2, <1>9, <3>1, <3>2, <3>3, <3>4
    <2>4. Raised(z)'
      BY <2>1, <2>2, <2>3 DEF Raised
    <2> QED
      BY <1>8, <2>4 DEF Ledger
  <1>13. stripe[k] = "complete" /\ bill[k] # NoBill /\ credits[k] \in Nat
    BY <1>1, <1>2 DEF CallbacksFit, CallbackFits, BillingTypeOK
  <1>14. CallbacksFit'
    <2>1. \A j \in Checkouts : credits[j] > 0 => credits'[j] > 0
      BY <1>5, <1>13
    <2>2. CallbackFits(r)'
      BY <1>1, <1>3, <1>5, <1>2, <1>13 DEF CallbackFits
    <2>3. ASSUME NEW q \in Callbacks, q # r PROVE CallbackFits(q)'
      <3>1. callback'[q] = callback[q] /\ CallbackFits(q)
        BY <1>3, <2>3 DEF CallbacksFit
      <3> QED
        BY <1>1, <2>1, <3>1, CallbackShape DEF CallbackFits
    <2> QED
      BY <2>2, <2>3 DEF CallbacksFit
  <1>15. ~muddled => /\ \A q \in Callbacks : q # r => callback[q].pc = "idle"
                     /\ n = budget[t] + 1 /\ bill[k].status = "in_progress"
    BY <1>1, <1>2 DEF InTurn
  <1>16. InTurn'
    BY <1>1, <1>3, <1>15 DEF InTurn
  <1>17. BooksBalance'
    <2>1. CreditsArePaid'
      <3>1. budget' \in [Teams -> Nat]
        BY <1>10
      <3>2. \A u \in Teams : budget'[u] <= z[u]
        <4>1. \A u \in Teams : /\ s[u] \in Nat /\ budget[u] \in Nat
                               /\ budget[u] <= s[u] /\ z[u] \in Nat
          BY <1>7, <1>8 DEF Raised, BillingTypeOK
        <4> QED
          BY <1>2, <1>6, <1>9, <4>1
      <3>3. Sum(budget', Teams) <= Sum(z, Teams)
        BY <1>8, <3>1, <3>2, SumGrows
      <3>4. Sum(budget', Teams) <= Sum(credits', Checkouts)
        BY <1>4, <1>8, <3>3
      <3>5. \A j \in Checkouts :
              /\ credits'[j] > 0 => stripe'[j] = "complete"
              /\ bill'[j] # NoBill /\ bill'[j].status = "completed" => credits'[j] > 0
        BY <1>1, <1>5, <1>13 DEF BooksBalance, CreditsArePaid
      <3> QED
        BY <3>4, <3>5 DEF CreditsArePaid
    <2>2. ASSUME ~muddled
          PROVE  /\ Sum(budget', Teams) = Sum(credits', Checkouts)
                 /\ \A j \in Checkouts : credits'[j] =
                      IF \/ bill'[j] # NoBill /\ bill'[j].status = "completed"
                         \/ \E q \in Callbacks : /\ callback'[q].pc = "commit"
                                                 /\ callback'[q].checkout = j
                      THEN 1 ELSE 0
      <3>1. budget' = [budget EXCEPT ![t] = budget[t] + 1]
        BY <1>1, <1>15, <2>2
      <3>0. budget \in [Teams -> Nat]
        BY DEF BillingTypeOK
      <3>2. Sum(budget', Teams) = Sum(budget, Teams) + 1
        BY <1>2, <3>0, <3>1, SumAddsOne
      <3>3. Sum(budget, Teams) = total
        BY <2>2 DEF BooksBalance, SerialIsExact
      <3>4. credits[k] = 0
        BY <1>1, <1>2, <1>15, <2>2 DEF BooksBalance, SerialIsExact
      <3>5. \A j \in Checkouts : j # k => credits[j] =
                IF bill[j] # NoBill /\ bill[j].status = "completed" THEN 1 ELSE 0
        BY <1>1, <1>15, <2>2 DEF BooksBalance, SerialIsExact
      <3>6. \A q \in Callbacks : callback'[q].pc = "commit" => q = r
        BY <1>3, <1>15, <2>2
      <3>7. \A j \in Checkouts : credits'[j] =
                IF \/ bill'[j] # NoBill /\ bill'[j].status = "completed"
                   \/ \E q \in Callbacks : callback'[q].pc = "commit" /\ callback'[q].checkout = j
                THEN 1 ELSE 0
        BY <1>1, <1>3, <1>5, <3>4, <3>5, <3>6
      <3> QED
        BY <1>4, <3>2, <3>3, <3>7
    <2>3. SerialIsExact'
      BY <1>1, <2>2 DEF SerialIsExact
    <2> QED
      BY <2>1, <2>3 DEF BooksBalance
  <1> QED
    BY <1>11, <1>12, <1>14, <1>16, <1>17

(* A callback ends; the row may be given its last status. *)
LEMMA EndStep ==
    ASSUME BillingInv, NEW r \in Callbacks, CallbackFails(r) \/ Complete(r) \/ CommitCancel(r)
    PROVE  BillingInv'
  <1> USE DEF BillingInv
  <1> DEFINE k == callback[r].checkout
  <1>1. /\ callback' = [callback EXCEPT ![r] = NoCallback]
        /\ UNCHANGED <<stripe, selected, budget, credits>>
        /\ callback[r].pc \in {"read", "raise", "commit", "cancel"}
        /\ muddled \in BOOLEAN /\ muddled' \in BOOLEAN /\ (muddled => muddled')
    BY DEF CallbackFails, Complete, CommitCancel, BillingTypeOK
  <1>2. k \in Checkouts /\ bill[k] # NoBill
    BY <1>1, CallbackShape DEF CallbacksFit, CallbackFits
  <1>3. /\ callback'[r] = NoCallback /\ callback'[r].pc = "idle"
        /\ \A q \in Callbacks : q # r => callback'[q] = callback[q]
    BY <1>1 DEF BillingTypeOK, NoCallback
  <1>4. \/ bill' = bill /\ (callback[r].pc = "commit" => muddled')
        \/ /\ bill' = [bill EXCEPT ![k].status = "completed"]
           /\ callback[r].pc = "commit" /\ muddled' = muddled
        \/ /\ bill' = [bill EXCEPT ![k].status = "cancelled"]
           /\ callback[r].pc = "cancel" /\ muddled' = muddled
    BY DEF CallbackFails, Complete, CommitCancel
  <1>5. /\ bill' \in [Checkouts -> BillType]
        /\ bill'[k].status \in {bill[k].status, "completed", "cancelled"}
        /\ \A j \in Checkouts : bill[j] # NoBill => bill'[j] # NoBill
        /\ \A j \in Checkouts : j # k => bill'[j] = bill[j]
    <2>1. bill[k] \in [status : {"in_progress", "completed", "cancelled"}, team : Teams]
      BY <1>2, BillShape
    <2> QED
      BY <1>2, <1>4, <2>1 DEF BillingTypeOK, BillType, NoBill
  <1>5a. \/ bill' = bill /\ (callback[r].pc = "commit" => muddled')
         \/ bill'[k].status = "completed" /\ callback[r].pc = "commit"
         \/ bill'[k].status = "cancelled" /\ callback[r].pc = "cancel"
    <2>1. bill[k] \in [status : {"in_progress", "completed", "cancelled"}, team : Teams]
      BY <1>2, BillShape
    <2> QED
      BY <1>2, <1>4, <2>1 DEF BillingTypeOK
  <1>6. BillingTypeOK' /\ (Sum(credits, Checkouts) <= MaxCredits)'
    <2>1. CallbackType' = CallbackType /\ NoCallback \in CallbackType
      BY <1>1 DEF CallbackType
    <2>2. callback' \in [Callbacks -> CallbackType']
      BY <1>1, <2>1 DEF BillingTypeOK
    <2> QED
      BY <1>1, <1>5, <2>2 DEF BillingTypeOK
  <1>7. Ledger'
    <2>1. PICK s \in [Teams -> Nat] : Raised(s)
      BY DEF Ledger
    <2>2. Raised(s)'
      BY <2>1, <1>1, <1>3 DEF Raised
    <2> QED
      BY <2>2 DEF Ledger
  <1>8. CallbacksFit'
    BY <1>1, <1>3, <1>5, CallbackShape DEF CallbacksFit, CallbackFits
  <1>9. ~muddled => \A q \in Callbacks : q # r => callback[q].pc = "idle"
    BY <1>1 DEF InTurn
  <1>10. InTurn'
    BY <1>1, <1>3, <1>9 DEF InTurn
  <1>11. CreditsArePaid'
    <2>1. bill'[k].status = "completed" => bill[k].status = "completed" \/ callback[r].pc = "commit"
      BY <1>5a
    <2>2. callback[r].pc = "commit" => credits[k] > 0
      BY DEF CallbacksFit, CallbackFits
    <2> QED
      BY <1>1, <1>2, <1>5, <2>1, <2>2 DEF BooksBalance, CreditsArePaid
  <1>12. SerialIsExact'
    <2> SUFFICES ASSUME ~muddled' PROVE SerialIsExact'
      BY DEF SerialIsExact
    <2>1. ~muddled /\ bill[k].status = "in_progress" /\ \A q \in Callbacks : callback'[q].pc = "idle"
      BY <1>1, <1>3, <1>9 DEF InTurn
    <2>2. callback[r].pc = "commit" <=> bill'[k].status = "completed"
      BY <1>5a, <2>1
    <2>3. credits[k] = IF callback[r].pc = "commit" THEN 1 ELSE 0
      BY <1>2, <1>9, <2>1 DEF BooksBalance, SerialIsExact
    <2>4. \A j \in Checkouts : j # k => credits[j] =
              IF bill[j] # NoBill /\ bill[j].status = "completed" THEN 1 ELSE 0
      BY <1>9, <2>1 DEF BooksBalance, SerialIsExact
    <2>5. Sum(budget, Teams) = Sum(credits, Checkouts)
      BY <2>1 DEF BooksBalance, SerialIsExact
    <2> QED
      BY <1>1, <1>2, <1>5, <2>1, <2>2, <2>3, <2>4, <2>5 DEF SerialIsExact
  <1> QED
    BY <1>6, <1>7, <1>8, <1>10, <1>11, <1>12 DEF BooksBalance

LEMMA BillingStep == BillingInv /\ [BillingNext]_billingVars => BillingInv'
  <1> SUFFICES ASSUME BillingInv, [BillingNext]_billingVars PROVE BillingInv'
    OBVIOUS
  <1>1. ASSUME NEW k \in Checkouts, CreateCheckout(k) \/ StoreBill(k) \/ Pay(k)
        PROVE  BillingInv'
    BY <1>1, CheckoutStep
  <1>2. ASSUME NEW t \in Teams, SelectTeam(t)
        PROVE  BillingInv'
    BY <1>2, SelectTeamStep
  <1>3. ASSUME NEW r \in Callbacks, NEW k \in Checkouts, Success(r, k) \/ CancelCheckout(r, k)
        PROVE  BillingInv'
    BY <1>3, BeginStep
  <1>4. ASSUME NEW r \in Callbacks,
               \/ ReadBudget(r) \/ RaiseBudget(r)
               \/ CallbackFails(r) \/ Complete(r) \/ CommitCancel(r)
        PROVE  BillingInv'
    BY <1>4, ReadBudgetStep, RaiseBudgetStep, EndStep
  <1>5. CASE UNCHANGED billingVars
    BY <1>5 DEF billingVars, BillingInv, BillingTypeOK, CallbackType, Ledger, Raised,
                CallbacksFit, CallbackFits, InTurn, BooksBalance, CreditsArePaid, SerialIsExact
  <1> QED
    BY <1>1, <1>2, <1>3, <1>4, <1>5 DEF BillingNext

(* The books balance, whatever callbacks are repeated, overlap or fail     *)
(* (success_callback and cancel_callback of billing.py): the budgets never *)
(* exceed what paid checkouts were credited, which callbacks that overlap  *)
(* or are repeated may be twice for one; and they are exactly one unit for *)
(* each completed checkout, unless callbacks overlap, one fails after it   *)
(* raised a budget, or one could not read the budget it raised.            *)
THEOREM TheBooksBalance == BillingSpec => []BooksBalance
  <1>1. BillingInv => BooksBalance
    BY DEF BillingInv
  <1> QED
    BY <1>1, BillingInitInv, BillingStep, PTL DEF BillingSpec

(* The state is well typed; no callback is about to write a budget more    *)
(* than one unit above what was credited.                                  *)
THEOREM BillingTypes == BillingSpec => []BillingTypeOK
  <1>1. BillingInv => BillingTypeOK
    BY DEF BillingInv
  <1> QED
    BY <1>1, BillingInitInv, BillingStep, PTL DEF BillingSpec
=============================================================================
