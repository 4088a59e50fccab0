----------------------------- MODULE DeviceFlow -----------------------------
(***************************************************************************)
(* The device flow by which a command-line client gets an API key:         *)
(* enterprise/server/routes/oauth_device.py over storage/device_code.py,   *)
(* device_code_store.py and api_key_store.py.                              *)
(*                                                                         *)
(* Every call of a store is a database session of its own, and the store's *)
(* methods read a row before they write it: an action is what happens      *)
(* between two of these awaits.  The clock is two facts of a code: whether *)
(* it has expired, and whether the polling interval has passed since the   *)
(* last poll.                                                              *)
(***************************************************************************)
EXTENDS FiniteSets

CONSTANTS
    Codes,     \* device codes, each with its user code
    Owners,    \* authenticated users
    Approvals, \* concurrent requests of /verify-authenticated
    Pollers    \* concurrent requests of /token

NoOwner == "nobody"

ASSUME DeviceAssumption == NoOwner \notin Owners

VARIABLES
    codes,     \* the table of device codes
    apiKeys,   \* <<user, code>>: an API key named after the code
    approval,  \* the verifications under way
    poller,    \* the polls under way; entry: the row as it was read
    handed,    \* <<user, code>>: a poll has answered with that key
    overwritten, \* codes whose user was replaced by that of a second verification
    keyless    \* <<user, code>>: creating the key failed after the code was authorized

deviceVars == <<codes, apiKeys, approval, poller, handed, overwritten, keyless>>

IdleApproval == [pc |-> "idle"]
IdlePoller == [pc |-> "idle"]

Exists(c) == codes[c].status # "absent"
IsPending(c) == codes[c].status = "pending" /\ ~codes[c].expired

-----------------------------------------------------------------------------
(* /authorize *)
DeviceAuthorization(c) ==
    /\ ~Exists(c)
    /\ codes' = [codes EXCEPT ![c].status = "pending"]
    /\ UNCHANGED <<apiKeys, approval, poller, handed, overwritten, keyless>>

(* The clock. *)
CodeExpires(c) ==
    /\ Exists(c) /\ ~codes[c].expired
    /\ codes' = [codes EXCEPT ![c].expired = TRUE]
    /\ UNCHANGED <<apiKeys, approval, poller, handed, overwritten, keyless>>

IntervalPasses(c) ==
    /\ Exists(c) /\ ~codes[c].due
    /\ codes' = [codes EXCEPT ![c].due = TRUE]
    /\ UNCHANGED <<apiKeys, approval, poller, handed, overwritten, keyless>>

-----------------------------------------------------------------------------
(* /verify-authenticated *)

(* Faulty variant: the key is created first. *)
VerifyAndCreateKey(v, u, c) ==
    /\ approval[v] = IdleApproval /\ IsPending(c)
    /\ apiKeys' = apiKeys \cup {<<u, c>>}
    /\ approval' = [approval EXCEPT ![v] = [pc |-> "authorize", owner |-> u, code |-> c]]
    /\ UNCHANGED <<codes, poller, handed, overwritten, keyless>>

(* The check of the route. *)
Verify(v, u, c) ==
    /\ approval[v] = IdleApproval /\ IsPending(c)
    /\ approval' = [approval EXCEPT ![v] = [pc |-> "authorize", owner |-> u, code |-> c]]
    /\ UNCHANGED <<codes, apiKeys, poller, handed, overwritten, keyless>>

(* authorize_device_code reads the row and checks it again. *)
ReadToAuthorize(v) ==
    /\ approval[v].pc = "authorize"
    /\ \/ /\ IsPending(approval[v].code)
          /\ approval' = [approval EXCEPT ![v].pc = "commit"]
       \/ /\ ~IsPending(approval[v].code)
          /\ approval' = [approval EXCEPT ![v] = IdleApproval]
    /\ UNCHANGED <<codes, apiKeys, poller, handed, overwritten, keyless>>

(* It commits; nothing checks the row once more, so that it may replace    *)
(* the user of a verification which read the row at the same time.         *)
CommitAuthorization(v) ==
    /\ approval[v].pc = "commit"
    /\ LET u == approval[v].owner
           c == approval[v].code
       IN  /\ codes' = [codes EXCEPT ![c].status = "authorized", ![c].owner = u]
           /\ overwritten' = IF codes[c].status = "authorized" /\ codes[c].owner # u
                             THEN overwritten \cup {c} ELSE overwritten
    /\ approval' = [approval EXCEPT ![v].pc = "key"]
    /\ UNCHANGED <<apiKeys, poller, handed, keyless>>

CreateKey(v) ==
    /\ approval[v].pc = "key"
    /\ apiKeys' = apiKeys \cup {<<approval[v].owner, approval[v].code>>}
    /\ approval' = [approval EXCEPT ![v] = IdleApproval]
    /\ UNCHANGED <<codes, poller, handed, overwritten, keyless>>

KeyFails(v) ==
    /\ approval[v].pc = "key"
    /\ approval' = [approval EXCEPT ![v].pc = "deny"]
    /\ keyless' = keyless \cup {<<approval[v].owner, approval[v].code>>}
    /\ UNCHANGED <<codes, apiKeys, poller, handed, overwritten>>

(* The clean-up calls deny_device_code, which changes a pending code only. *)
DenyDeviceCode(v) ==
    /\ approval[v].pc = "deny"
    /\ codes' = [c \in Codes |-> IF c = approval[v].code /\ IsPending(c)
                                 THEN [codes[c] EXCEPT !.status = "denied"]
                                 ELSE codes[c]]
    /\ approval' = [approval EXCEPT ![v] = IdleApproval]
    /\ UNCHANGED <<apiKeys, poller, handed, overwritten, keyless>>

-----------------------------------------------------------------------------
(* /token *)

PollBegins(p, c) ==
    /\ poller[p] = IdlePoller /\ Exists(c)
    /\ poller' = [poller EXCEPT ![p] =
          [pc |-> IF codes[c].due THEN "decide" ELSE "slow_down", code |-> c, entry |-> codes[c]]]
    /\ UNCHANGED <<codes, apiKeys, approval, handed, overwritten, keyless>>

Answer(p) == poller' = [poller EXCEPT ![p] = IdlePoller]
Touch(c) == codes' = [codes EXCEPT ![c].due = FALSE]

(* update_poll_time, and the answer slow_down. *)
SlowDown(p) ==
    /\ poller[p].pc = "slow_down"
    /\ Touch(poller[p].code)
    /\ Answer(p)
    /\ UNCHANGED <<apiKeys, approval, handed, overwritten, keyless>>

(* update_poll_time, then the row as it was read decides. *)
Decide(p) ==
    /\ poller[p].pc = "decide"
    /\ Touch(poller[p].code)
    /\ \/ /\ poller[p].entry.status = "authorized" /\ ~codes[poller[p].code].expired
          /\ poller' = [poller EXCEPT ![p].pc = "retrieve"]
       \/ /\ poller[p].entry.status # "authorized" \/ codes[poller[p].code].expired
          /\ Answer(p)
    /\ UNCHANGED <<apiKeys, approval, handed, overwritten, keyless>>

(* The key named after the code of the user in the row; a server error     *)
(* when there is none.                                                     *)
RetrieveKey(p) ==
    /\ poller[p].pc = "retrieve"
    /\ handed' = handed \cup (apiKeys \cap {<<poller[p].entry.owner, poller[p].code>>})
    /\ Answer(p)
    /\ UNCHANGED <<codes, apiKeys, approval, overwritten, keyless>>

-----------------------------------------------------------------------------
DeviceInit ==
    /\ codes = [c \in Codes |->
          [status |-> "absent", owner |-> NoOwner, expired |-> FALSE, due |-> TRUE]]
    /\ apiKeys = {} /\ handed = {} /\ overwritten = {} /\ keyless = {}
    /\ approval = [v \in Approvals |-> IdleApproval]
    /\ poller = [p \in Pollers |-> IdlePoller]

VerifyNext == \E v \in Approvals :
    \/ \E u \in Owners, c \in Codes : Verify(v, u, c)
    \/ ReadToAuthorize(v) \/ CommitAuthorization(v) \/ CreateKey(v) \/ KeyFails(v)
    \/ DenyDeviceCode(v)

PollNext == \E p \in Pollers :
    \/ \E c \in Codes : PollBegins(p, c)
    \/ SlowDown(p) \/ Decide(p) \/ RetrieveKey(p)

DeviceNext ==
    \/ \E c \in Codes : DeviceAuthorization(c) \/ CodeExpires(c) \/ IntervalPasses(c)
    \/ VerifyNext
    \/ PollNext

DeviceSpec == DeviceInit /\ [][DeviceNext]_deviceVars

-----------------------------------------------------------------------------
(* Properties.                                                             *)

CodeType == [status : {"absent", "pending", "authorized", "denied"},
             owner : Owners \cup {NoOwner}, expired : BOOLEAN, due : BOOLEAN]

ApprovalType ==
    {IdleApproval} \cup
    [pc : {"authorize", "commit", "key", "deny"}, owner : Owners, code : Codes]
PollerType ==
    {IdlePoller} \cup
    [pc : {"slow_down", "decide", "retrieve"}, code : Codes, entry : CodeType]

(* The type invariant.  An authorized code names its user, and only keys   *)
(* that exist are handed out.                                              *)
DeviceTypeOK ==
    /\ codes \in [Codes -> CodeType]
    /\ apiKeys \subseteq Owners \X Codes
    /\ handed \subseteq apiKeys /\ keyless \subseteq Owners \X Codes
    /\ overwritten \subseteq Codes
    /\ approval \in [Approvals -> ApprovalType]
    /\ poller \in [Pollers -> PollerType]
    /\ \A c \in Codes : codes[c].status = "authorized" <=> codes[c].owner # NoOwner

(* A key that bears a code's name belongs to the user the code is          *)
(* authorized for ("Only create API key AFTER successful authorization"):  *)
(* a verification that is refused leaves no key behind.  The exception is  *)
(* a code whose user was replaced, because two verifications both read it  *)
(* while it was pending: the replaced user keeps a key.                    *)
KeysOfTheOwner ==
    \A k \in apiKeys : codes[k[2]].owner = k[1] \/ k[2] \in overwritten

(* Nobody is about to create the key of a code. *)
Settled(c) == \A v \in Approvals : approval[v] # IdleApproval => approval[v].code # c

(* Once no verification of a code is under way, an authorized code has the *)
(* key its polls look for, unless creating that key failed; this holds for *)
(* a code whose user was replaced too.                                     *)
AuthorizedHasKey ==
    \A c \in Codes :
        /\ codes[c].status = "authorized" /\ Settled(c)
        /\ <<codes[c].owner, c>> \notin keyless
        => <<codes[c].owner, c>> \in apiKeys

(* Keys and authorized codes correspond, but for the two exceptions above. *)
KeysMatchCodes == KeysOfTheOwner /\ AuthorizedHasKey
=============================================================================
