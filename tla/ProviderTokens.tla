--------------------------- MODULE ProviderTokens ---------------------------
(***************************************************************************)
(* The tokens of a user at a git provider: enterprise/storage/             *)
(* auth_token_store.py (load_tokens, store_tokens) and the refresh of      *)
(* server/auth/token_manager.py.                                           *)
(*                                                                         *)
(* A refresh token is a number; the provider accepts each one once and     *)
(* answers with the next.  life is what is left of the access token's      *)
(* validity: 3 more than four hours, 2 more than the buffer of 15 minutes, *)
(* 1 less than that, 0 nothing; it is what the stored time of expiry says. *)
(* Keycloak keeps the pair of the last login at the provider and gives it  *)
(* to every login, also after load_tokens has spent its refresh token.     *)
(***************************************************************************)
EXTENDS Integers, FiniteSets

CONSTANTS
    Loads,      \* concurrent calls of load_tokens
    Logins,     \* concurrent logins, which call store_tokens
    MaxTokens   \* bound: token pairs the provider issues

ASSUME ProviderAssumption == MaxTokens \in Nat /\ "free" \notin Loads

VARIABLES
    row,       \* the stored pair; NoRow before the first login
    rowLock,   \* who holds the lock of the row; "free": nobody
    load,      \* the calls of load_tokens
    login,     \* the logins: the pair Keycloak gave, and whether a row was found
    kept,      \* the pair Keycloak keeps; 0: none
    issued,    \* number of pairs issued so far
    presented, \* how often each refresh token was presented: 0, 1, or 2 for more
    stale,     \* spent tokens the row has kept, or was given again by a login
    served     \* what load_tokens returned: could it refresh, was it about to expire

providerVars == <<row, rowLock, load, login, kept, issued, presented, stale, served>>

NoRow == [id |-> 0, life |-> 0]
FreshPair(id) == [id |-> id, life |-> 3]
IdleLoad == [pc |-> "idle"]
IdleLogin == [pc |-> "idle"]
NeedsRefresh(x) == x.life < 2   \* _is_token_expired
IssuePair == issued < MaxTokens /\ issued' = issued + 1

-----------------------------------------------------------------------------
(* load_tokens *)

Serve(mayRefresh, x) ==
    served' = served \cup {[mayRefresh |-> mayRefresh, due |-> NeedsRefresh(x)]}

(* The fast path.  A caller that passes no function to refresh with gets   *)
(* the tokens as they are.                                                 *)
LoadFast(r) ==
    \E mayRefresh \in BOOLEAN :
        /\ load[r] = IdleLoad /\ row # NoRow
        /\ \/ /\ ~NeedsRefresh(row) \/ ~mayRefresh
              /\ Serve(mayRefresh, row)
              /\ UNCHANGED load
           \/ /\ NeedsRefresh(row) /\ mayRefresh
              /\ load' = [load EXCEPT ![r] = [pc |-> "wait", id |-> row.id]]
              /\ UNCHANGED served
        /\ UNCHANGED <<row, rowLock, login, kept, issued, presented, stale>>

(* Faulty variant: what the fast path read is not checked again. *)
AcquireUnchecked(r) ==
    /\ load[r].pc = "wait" /\ rowLock = "free"
    /\ rowLock' = r
    /\ load' = [load EXCEPT ![r].pc = "refresh"]
    /\ UNCHANGED <<row, login, kept, issued, presented, stale, served>>

(* The lock, and the second check on the row as it is now. *)
Acquire(r) ==
    /\ load[r].pc = "wait" /\ rowLock = "free"
    /\ \/ /\ ~NeedsRefresh(row)
          /\ Serve(TRUE, row)
          /\ load' = [load EXCEPT ![r] = IdleLoad]
          /\ UNCHANGED rowLock
       \/ /\ NeedsRefresh(row)
          /\ rowLock' = r
          /\ load' = [load EXCEPT ![r] = [pc |-> "refresh", id |-> row.id]]
          /\ UNCHANGED served
    /\ UNCHANGED <<row, login, kept, issued, presented, stale>>

(* lock_timeout: TokenRefreshError *)
LockTimeout(r) ==
    /\ load[r].pc = "wait" /\ rowLock # "free"
    /\ load' = [load EXCEPT ![r] = IdleLoad]
    /\ UNCHANGED <<row, rowLock, login, kept, issued, presented, stale, served>>

Abandon(r) ==
    /\ rowLock' = "free"
    /\ load' = [load EXCEPT ![r] = IdleLoad]

(* _refresh_token: the provider takes a token it has not seen yet. *)
Refresh(r) ==
    /\ load[r].pc = "refresh"
    /\ presented' = [presented EXCEPT ![load[r].id] = IF @ = 2 THEN 2 ELSE @ + 1]
    /\ \/ /\ presented[load[r].id] = 0
          /\ IssuePair
          /\ load' = [load EXCEPT ![r] = [pc |-> "commit", id |-> load[r].id, new |-> issued + 1]]
          /\ UNCHANGED rowLock
       \/ /\ presented[load[r].id] > 0
          /\ Abandon(r)
          /\ UNCHANGED issued
    /\ UNCHANGED <<row, login, kept, stale, served>>

(* The refresh token has expired, or the provider is not reached. *)
RefreshFails(r) ==
    /\ load[r].pc = "refresh"
    /\ Abandon(r)
    /\ UNCHANGED <<row, login, kept, issued, presented, stale, served>>

CommitRefresh(r) ==
    /\ load[r].pc = "commit"
    /\ row' = FreshPair(load[r].new)
    /\ Serve(TRUE, FreshPair(load[r].new))
    /\ Abandon(r)
    /\ UNCHANGED <<login, kept, issued, presented, stale>>

(* The provider's answer is lost, the server stops, or the commit fails:   *)
(* the row keeps the token that was used up.                               *)
LoseRefresh(r) ==
    /\ load[r].pc = "commit"
    /\ stale' = stale \cup {load[r].id}
    /\ Abandon(r)
    /\ UNCHANGED <<row, login, kept, issued, presented, served>>

-----------------------------------------------------------------------------
(* store_idp_tokens: a login stores the pair Keycloak keeps.               *)

(* The user logs in at the provider, through Keycloak. *)
BrokerLogin ==
    /\ IssuePair
    /\ kept' = issued + 1
    /\ UNCHANGED <<row, rowLock, load, login, presented, stale, served>>

(* get_idp_tokens_from_keycloak.  With a session at Keycloak the user need *)
(* not have been at the provider again.                                    *)
Login(l) ==
    /\ login[l] = IdleLogin /\ kept # 0
    /\ login' = [login EXCEPT ![l] = [pc |-> "select", new |-> kept]]
    /\ UNCHANGED <<row, rowLock, load, kept, issued, presented, stale, served>>

(* store_tokens reads without a lock, and writes when nobody holds it. *)
SelectRow(l) ==
    /\ login[l].pc = "select"
    /\ login' = [login EXCEPT ![l] =
          [pc |-> "write", new |-> login[l].new, found |-> row # NoRow]]
    /\ UNCHANGED <<row, rowLock, load, kept, issued, presented, stale, served>>

(* An insert fails on the unique index when a row has appeared meanwhile.  *)
StoreTokens(l) ==
    /\ login[l].pc = "write" /\ rowLock = "free"
    /\ \/ /\ login[l].found \/ row = NoRow
          /\ row' = FreshPair(login[l].new)
          /\ stale' = IF presented[login[l].new] > 0 THEN stale \cup {login[l].new} ELSE stale
       \/ /\ ~login[l].found /\ row # NoRow
          /\ UNCHANGED <<row, stale>>
    /\ login' = [login EXCEPT ![l] = IdleLogin]
    /\ UNCHANGED <<rowLock, load, kept, issued, presented, served>>

(* Time. *)
Age ==
    /\ row.life > 0
    /\ row' = [row EXCEPT !.life = @ - 1]
    /\ UNCHANGED <<rowLock, load, login, kept, issued, presented, stale, served>>

-----------------------------------------------------------------------------
ProviderInit ==
    /\ row = NoRow /\ rowLock = "free"
    /\ load = [r \in Loads |-> IdleLoad]
    /\ login = [l \in Logins |-> IdleLogin]
    /\ kept = 0 /\ issued = 0
    /\ presented = [i \in 1 .. MaxTokens |-> 0]
    /\ stale = {} /\ served = {}

ProviderNext ==
    \/ \E r \in Loads :
          \/ LoadFast(r) \/ Acquire(r) \/ LockTimeout(r)
          \/ Refresh(r) \/ RefreshFails(r) \/ CommitRefresh(r) \/ LoseRefresh(r)
    \/ \E l \in Logins : Login(l) \/ SelectRow(l) \/ StoreTokens(l)
    \/ BrokerLogin \/ Age

ProviderSpec == ProviderInit /\ [][ProviderNext]_providerVars

-----------------------------------------------------------------------------
(* Properties.                                                             *)

LoadType ==
    {IdleLoad} \cup [pc : {"wait", "refresh"}, id : 1 .. issued]
               \cup [pc : {"commit"}, id : 1 .. issued, new : 1 .. issued]
LoginType ==
    {IdleLogin} \cup [pc : {"select"}, new : 1 .. issued]
                \cup [pc : {"write"}, new : 1 .. issued, found : BOOLEAN]

(* The type invariant.  The lock is held exactly by a load that refreshes, *)
(* and no caller that could refresh was given an access token about to     *)
(* expire.                                                                 *)
ProviderTypeOK ==
    /\ row \in [id : 0 .. issued, life : 0 .. 3]
    /\ issued \in 0 .. MaxTokens /\ kept \in 0 .. issued
    /\ load \in [Loads -> LoadType]
    /\ rowLock \in Loads \cup {"free"}
    /\ \A r \in Loads : rowLock = r <=> load[r].pc \in {"refresh", "commit"}
    /\ login \in [Logins -> LoginType]
    /\ presented \in [1 .. MaxTokens -> 0 .. 2] /\ stale \subseteq 1 .. issued
    /\ served \subseteq [mayRefresh : BOOLEAN, due : BOOLEAN]
    /\ [mayRefresh |-> TRUE, due |-> TRUE] \notin served

(* Only one refresh is performed per refresh token, whatever number of     *)
(* requests find the access token expired at the same time ("most IDPs     *)
(* invalidate the old refresh token after it's used once"), except for a   *)
(* token whose successor was lost, and one that a login stored again after *)
(* it was spent.                                                           *)
PresentedOnce == \A i \in 1 .. MaxTokens : presented[i] <= 1 \/ i \in stale

(* The user stays logged in: at rest, and with the same two exceptions,    *)
(* the stored refresh token is one the provider still accepts, also when a *)
(* login stores its tokens while a refresh is waited for.                  *)
StoredIsUnspent ==
    \/ row = NoRow \/ row.id \in stale
    \/ presented[row.id] = 0
    \/ \E r \in Loads : load[r].pc = "commit" /\ load[r].id = row.id

(* A refresh token is used once and then replaced by its successor, unless *)
(* the successor is lost or a login puts the used one back.                *)
RefreshedOnce == PresentedOnce /\ StoredIsUnspent
=============================================================================
