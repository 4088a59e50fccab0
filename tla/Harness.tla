------------------------------ MODULE Harness ------------------------------
(***************************************************************************)
(* The execution harness: openhands/forgepilot/harness (service.py,        *)
(* policy.py, confirmation.py, action_schema.py).                          *)
(*                                                                         *)
(* One harness serves concurrent calls of execute_async on one event loop. *)
(* A call runs without a pause until its executor is awaited: the action   *)
(* is classified, the policy and the confirmation gate are asked, and the  *)
(* executor starts or the refusal is recorded.  When the executor ends the *)
(* result is recorded.  execute is the case without a pause.  A target is  *)
(* a value; what an action contains beyond it plays no part here.          *)
(***************************************************************************)
EXTENDS Integers, Sequences, FiniteSets

CONSTANTS
    Calls,                  \* the calls of execute and execute_async
    Kinds, Targets,         \* classes and targets of the actions
    McpPermission,          \* what mcp_permissions gives the MCP tool
    AllowedPermissions, BlockedTargets,     \* HarnessPolicy
    RequireConfirmationFor, BlockUnknown,
    Ttls,                   \* ttl_seconds of issue; Never: None
    Tokens,                 \* the token strings uuid4 gives out
    MaxNow                  \* bound: time

Permissions == {"read", "write", "execute", "confirm"}
AllKinds == {"terminal", "git", "file_read", "file_write", "file_patch", "mcp_tool", "unknown"}
Never == -1
NoToken == "none"

ASSUME HarnessAssumption ==
    /\ Kinds \subseteq AllKinds
    /\ McpPermission \in Permissions
    /\ BlockUnknown \in BOOLEAN
    /\ Ttls \subseteq Nat \cup {Never}
    /\ NoToken \notin Tokens
    /\ MaxNow \in Nat

VARIABLES
    now,
    minted,   \* what was ever issued: [id, subject, expires]
    tokens,   \* _tokens: what the gate remembers of it, and whether consumed
    call,     \* the calls: action, state, and the id of the token consumed
    audit     \* _audit_events: call and status

harnessVars == <<now, minted, tokens, call, audit>>

-----------------------------------------------------------------------------
(* Classification and policy.                                              *)

(* action_from_runtime_action *)
Permission(a) ==
    CASE a.kind \in {"terminal", "git"} -> "execute"
      [] a.kind \in {"file_write", "file_patch"} -> "write"
      [] a.kind = "mcp_tool" -> McpPermission
      [] OTHER -> "read"

AsksConfirmation(a) ==
    \/ a.kind \in {"terminal", "git", "file_write", "file_patch"}
    \/ a.kind = "mcp_tool" /\ McpPermission \in {"execute", "confirm"}

(* confirmation_subject *)
Subject(a) == <<a.kind, a.target>>

(* HarnessPolicy.evaluate *)
Allowed(a) ==
    /\ ~(BlockUnknown /\ a.kind = "unknown")
    /\ Permission(a) \in AllowedPermissions
    /\ a.target \notin BlockedTargets

RequiresConfirmation(a) == AsksConfirmation(a) \/ Permission(a) \in RequireConfirmationFor

Actions == [kind : Kinds, target : Targets, ui : {"none", "confirmed", "rejected"}]
SubjectSet == Kinds \X Targets

-----------------------------------------------------------------------------
(* The confirmation gate.                                                  *)

Expired(t) == t.expires # Never /\ now > t.expires

(* issue, with _prune; uuid4 gives a string that it never gave before. *)
Issue(i, s, ttl) ==
    /\ \A m \in minted : m.id # i
    /\ LET expires == IF ttl = Never THEN Never ELSE now + ttl
       IN  /\ minted' = minted \cup {[id |-> i, subject |-> s, expires |-> expires]}
           /\ tokens' = {t \in tokens : ~t.consumed /\ ~Expired(t)} \cup
                 {[id |-> i, subject |-> s, expires |-> expires, consumed |-> FALSE]}
    /\ UNCHANGED <<now, call, audit>>

(* Faulty variant: the subject is not compared. *)
AcceptsAny(t, i, s) == t.id = i /\ ~t.consumed /\ ~Expired(t)

(* Faulty variant: a token that has expired is accepted until it is pruned.*)
AcceptsLate(t, i, s) == t.id = i /\ ~t.consumed /\ t.subject = s

(* The conditions under which consume returns True. *)
Accepts(t, i, s) == t.id = i /\ ~t.consumed /\ t.subject = s /\ ~Expired(t)

(* Faulty variant: consumed_at is not set. *)
NotConsumed(t) == t

Consumed(t) == [t EXCEPT !.consumed = TRUE]

-----------------------------------------------------------------------------
(* A call: _preflight_result, then the executor, then _record_result.      *)

Record(c, status) == audit' = Append(audit, [call |-> c, status |-> status])

Refuse(c, a, status) ==
    /\ call' = [call EXCEPT ![c] = [pc |-> status, action |-> a, via |-> NoToken]]
    /\ Record(c, status)
    /\ UNCHANGED <<now, minted, tokens>>

Run(c, a, i) == call' = [call EXCEPT ![c] = [pc |-> "running", action |-> a, via |-> i]]

Denied(c, a) ==
    /\ call[c].pc = "idle"
    /\ \/ ~Allowed(a)
       \/ Allowed(a) /\ RequiresConfirmation(a) /\ a.ui = "rejected"
    /\ Refuse(c, a, "denied")

(* No confirmation is needed, or the user interface has it. *)
RunFreely(c, a) ==
    /\ call[c].pc = "idle"
    /\ Allowed(a)
    /\ RequiresConfirmation(a) => a.ui = "confirmed"
    /\ Run(c, a, NoToken)
    /\ UNCHANGED <<now, minted, tokens, audit>>

(* i: the confirmation_token that comes with the call, or none. *)
RunConfirmed(c, a, i) ==
    /\ call[c].pc = "idle"
    /\ Allowed(a) /\ RequiresConfirmation(a) /\ a.ui = "none"
    /\ \E t \in tokens :
          /\ Accepts(t, i, Subject(a))
          /\ tokens' = (tokens \ {t}) \cup {Consumed(t)}
    /\ Run(c, a, i)
    /\ UNCHANGED <<now, minted, audit>>

ConfirmationRequired(c, a, i) ==
    /\ call[c].pc = "idle"
    /\ Allowed(a) /\ RequiresConfirmation(a) /\ a.ui = "none"
    /\ ~\E t \in tokens : Accepts(t, i, Subject(a))
    /\ Refuse(c, a, "confirmation_required")

(* Faulty variant: the result of a call that raises is not recorded. *)
FinishUnrecorded(c, status) ==
    /\ call[c].pc = "running"
    /\ call' = [call EXCEPT ![c].pc = status]
    /\ IF status = "error" THEN UNCHANGED audit ELSE Record(c, status)
    /\ UNCHANGED <<now, minted, tokens>>

Finish(c, status) ==
    /\ call[c].pc = "running"
    /\ call' = [call EXCEPT ![c].pc = status]
    /\ Record(c, status)
    /\ UNCHANGED <<now, minted, tokens>>

(* The awaiting task is cancelled: CancelledError is no Exception. *)
Cancel(c) ==
    /\ call[c].pc = "running"
    /\ call' = [call EXCEPT ![c].pc = "cancelled"]
    /\ UNCHANGED <<now, minted, tokens, audit>>

Tick ==
    /\ now < MaxNow
    /\ now' = now + 1
    /\ UNCHANGED <<minted, tokens, call, audit>>

-----------------------------------------------------------------------------
NotCalled == [pc |-> "idle", via |-> NoToken]

HarnessInit ==
    /\ now = 0 /\ minted = {} /\ tokens = {}
    /\ call = [c \in Calls |-> NotCalled]
    /\ audit = <<>>

CallNext(c) ==
    \/ \E a \in Actions : Denied(c, a) \/ RunFreely(c, a)
    \/ \E a \in Actions, i \in Tokens \cup {NoToken} :
          RunConfirmed(c, a, i) \/ ConfirmationRequired(c, a, i)
    \/ \E status \in {"success", "error"} : Finish(c, status)
    \/ Cancel(c)

HarnessNext ==
    \/ \E i \in Tokens, s \in SubjectSet, ttl \in Ttls : Issue(i, s, ttl)
    \/ \E c \in Calls : CallNext(c)
    \/ Tick

HarnessSpec == HarnessInit /\ [][HarnessNext]_harnessVars

-----------------------------------------------------------------------------
(* Properties.                                                             *)

TokenType == [id : Tokens, subject : SubjectSet, expires : Nat \cup {Never}, consumed : BOOLEAN]
MintType == [id : Tokens, subject : SubjectSet, expires : Nat \cup {Never}]
Ran == {"running", "success", "error", "cancelled"}
Refused == {"denied", "confirmation_required"}
CallType == [pc : Ran \cup Refused, action : Actions, via : Tokens \cup {NoToken}] \cup {NotCalled}

(* The type invariant. *)
HarnessTypeOK ==
    /\ now \in Nat
    /\ minted \subseteq MintType
    /\ tokens \subseteq TokenType
    /\ call \in [Calls -> CallType]
    /\ audit \in Seq([call : Calls, status : {"success", "error"} \cup Refused])

(* An action that requires a confirmation runs only if the user interface  *)
(* confirmed it or with a token that was issued for its own subject        *)
(* (_preflight_result, ConfirmationGate.consume).                          *)
NoUnconfirmedRun ==
    \A c \in Calls : call[c].pc \in Ran =>
        /\ Allowed(call[c].action)
        /\ RequiresConfirmation(call[c].action) =>
              \/ call[c].action.ui = "confirmed"
              \/ \E m \in minted : m.id = call[c].via /\ m.subject = Subject(call[c].action)

(* A token lets one call run, however many present it, and also after it   *)
(* was forgotten ("replay protection is unaffected", _prune).              *)
TokenSpentOnce ==
    \A c, d \in Calls : call[c].via # NoToken /\ call[c].via = call[d].via => c = d

(* Every call that returned left one audit event, with its status; only a  *)
(* call that is cancelled while it runs leaves none (_record_result).      *)
EveryReturnAudited ==
    \A c \in Calls :
        LET mine == {n \in 1 .. Len(audit) : audit[n].call = c}
        IN  IF call[c].pc \in {"idle", "running", "cancelled"} THEN mine = {}
            ELSE \E n \in mine : mine = {n} /\ audit[n].status = call[c].pc

(* The gate implements one-shot permits that are never forgotten: pruning  *)
(* changes no answer (ConfirmationGate).                                   *)
Granted == {[id |-> m.id, subject |-> m.subject] : m \in minted}
Ended == {m.id : m \in {x \in minted : Expired(x)}}
Spent == {[id |-> call[c].via, holder |-> c, subject |-> Subject(call[c].action)] :
             c \in {x \in Calls : call[x].via # NoToken}}

P == INSTANCE Permits WITH
        PermitHolders <- Calls, PermitSubjects <- SubjectSet,
        granted <- Granted, ended <- Ended, spent <- Spent

ImplementsPermits == P!PermitsSpec
=============================================================================
