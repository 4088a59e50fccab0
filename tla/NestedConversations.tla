------------------------- MODULE NestedConversations -------------------------
(***************************************************************************)
(* Conversations whose agent loops run inside remote runtimes:             *)
(* enterprise/server/saas_nested_conversation_manager.py.  The servers     *)
(* keep nothing themselves: a key in Redis says that a conversation is     *)
(* being started, and the runtime API says which ones run.  Every await is *)
(* a step of its own.                                                      *)
(***************************************************************************)
EXTENDS Integers, FiniteSets

CONSTANTS
    Nested,       \* conversations of one user
    Starters,     \* concurrent calls of maybe_start_agent_loop
    MaxRunning,   \* max_concurrent_conversations
    MaxAsks       \* bound: calls of maybe_start_agent_loop

ASSUME NestedAssumption ==
    IsFiniteSet(Nested) /\ MaxRunning \in Nat \ {0} /\ MaxAsks \in Nat

VARIABLES
    startKeys,  \* conversations with a key in Redis
    nested,     \* the runtimes: "none", "running" or "paused"
    recent,     \* conversations whose row was updated in the past week
    asking,     \* the calls
    starting,   \* the start a call has left running in the background
    asks,       \* number of calls so far
    unsettled,  \* conversations whose calls overlapped, or whose key or start was lost
    crowded,    \* whether two starts overlapped, or a runtime could not be paused
    forgotten   \* conversations not recent when their runtime was connected, or since then

nestedVars == <<startKeys, nested, recent, asking, starting, asks, unsettled, crowded, forgotten>>

NotAsking == [pc |-> "idle"]
NotStarting == [pc |-> "idle"]
Counted == {s \in Nested \ forgotten : nested[s] = "running"}
StartsOf(s) == {r \in Starters : starting[r] # NotStarting /\ starting[r].sid = s}

-----------------------------------------------------------------------------
(* maybe_start_agent_loop: the key first, then the runtime. *)
ReadKey(r, s) ==
    /\ asking[r] = NotAsking /\ starting[r] = NotStarting
    /\ asks < MaxAsks /\ asks' = asks + 1
    /\ asking' = [asking EXCEPT ![r] = [pc |-> "runtime", sid |-> s, key |-> s \in startKeys]]
    /\ unsettled' = IF \E q \in Starters : asking[q] # NotAsking /\ asking[q].sid = s
                     THEN unsettled \cup {s} ELSE unsettled
    /\ UNCHANGED <<startKeys, nested, starting, crowded, recent, forgotten>>

(* Faulty variant: the key is not looked at. *)
ReadRuntimeOnly(r) ==
    /\ asking[r].pc = "runtime"
    /\ asking' = IF nested[asking[r].sid] = "running" THEN [asking EXCEPT ![r] = NotAsking]
                 ELSE [asking EXCEPT ![r].pc = "mark"]
    /\ UNCHANGED <<startKeys, nested, starting, asks, unsettled, crowded, recent, forgotten>>

(* A conversation that runs, or has a key, is not started. *)
ReadRuntime(r) ==
    /\ asking[r].pc = "runtime"
    /\ asking' = IF nested[asking[r].sid] = "running" \/ asking[r].key
                 THEN [asking EXCEPT ![r] = NotAsking]
                 ELSE [asking EXCEPT ![r].pc = "mark"]
    /\ UNCHANGED <<startKeys, nested, starting, asks, unsettled, crowded, recent, forgotten>>

MarkStarting(r) ==
    /\ asking[r].pc = "mark"
    /\ startKeys' = startKeys \cup {asking[r].sid}
    /\ asking' = [asking EXCEPT ![r] = NotAsking]
    /\ starting' = [starting EXCEPT ![r] = [pc |-> "limit", sid |-> asking[r].sid, close |-> {}]]
    /\ crowded' = (crowded \/ \E q \in Starters : starting[q] # NotStarting)
    /\ UNCHANGED <<nested, asks, unsettled, recent, forgotten>>

-----------------------------------------------------------------------------
(* _start_agent_loop *)

(* get_running_agent_loops of a user: a conversation that was not updated  *)
(* for a week is left out, although its runtime may run.                   *)
RunningLoops == {s \in recent : nested[s] = "running"}

(* ensure_num_conversations_below_limit: so many are closed, the oldest.   *)
TooMany == Cardinality(RunningLoops) - MaxRunning + 1

EnsureLimit(r) ==
    /\ starting[r].pc = "limit"
    /\ \E old \in SUBSET RunningLoops :
          /\ Cardinality(old) = IF TooMany > 0 THEN TooMany ELSE 0
          /\ starting' = [starting EXCEPT ![r].pc = "close", ![r].close = old]
    /\ UNCHANGED <<startKeys, nested, asking, asks, unsettled, crowded, recent, forgotten>>

(* close_session: a pause that fails is only logged. *)
PauseOld(r, s) ==
    /\ starting[r].pc = "close" /\ s \in starting[r].close
    /\ \/ /\ nested' = [nested EXCEPT ![s] = IF @ = "running" THEN "paused" ELSE @]
          /\ UNCHANGED crowded
       \/ /\ crowded' = TRUE
          /\ UNCHANGED nested
    /\ starting' = [starting EXCEPT ![r].close = @ \ {s}]
    /\ UNCHANGED <<startKeys, asking, asks, unsettled, recent, forgotten>>

(* _create_runtime and connect *)
ConnectRuntime(r) ==
    /\ starting[r].pc = "close" /\ starting[r].close = {}
    /\ nested' = [nested EXCEPT ![starting[r].sid] = "running"]
    /\ starting' = [starting EXCEPT ![r].pc = "converse"]
    /\ forgotten' = IF starting[r].sid \in recent THEN forgotten \ {starting[r].sid}
                    ELSE forgotten \cup {starting[r].sid}
    /\ UNCHANGED <<startKeys, asking, asks, unsettled, crowded, recent>>

(* _start_conversation, or an exception anywhere before: the finally. *)
LeaveStart(r) ==
    /\ starting[r] # NotStarting
    /\ starting' = [starting EXCEPT ![r].pc = "delete", ![r].close = {}]
    /\ UNCHANGED <<startKeys, nested, asking, asks, unsettled, crowded, recent, forgotten>>

DeleteKey(r) ==
    /\ starting[r].pc = "delete"
    /\ startKeys' = startKeys \ {starting[r].sid}
    /\ starting' = [starting EXCEPT ![r] = NotStarting]
    /\ UNCHANGED <<nested, asking, asks, unsettled, crowded, recent, forgotten>>

-----------------------------------------------------------------------------
(* The key expires after _REDIS_ENTRY_TIMEOUT_SECONDS. *)
StartKeyExpires(s) ==
    /\ s \in startKeys
    /\ startKeys' = startKeys \ {s}
    /\ unsettled' = unsettled \cup {s}
    /\ UNCHANGED <<nested, asking, starting, asks, crowded, recent, forgotten>>

(* A server stops in the middle of a start; the key stays. *)
StarterCrashes(r) ==
    /\ starting[r] # NotStarting
    /\ starting' = [starting EXCEPT ![r] = NotStarting]
    /\ unsettled' = unsettled \cup {starting[r].sid}
    /\ UNCHANGED <<startKeys, nested, asking, asks, crowded, recent, forgotten>>

(* close_session, or the runtime dies. *)
RuntimeStops(s) ==
    /\ nested[s] = "running"
    /\ \E status \in {"paused", "none"} : nested' = [nested EXCEPT ![s] = status]
    /\ UNCHANGED <<startKeys, asking, starting, asks, unsettled, crowded, recent, forgotten>>

(* A week passes without an update of the conversation's row, or it is     *)
(* updated (update_conversation_metadata).                                 *)
WeekPasses(s) ==
    /\ s \in recent
    /\ recent' = recent \ {s}
    /\ forgotten' = forgotten \cup {s}
    /\ UNCHANGED <<startKeys, nested, asking, starting, asks, unsettled, crowded>>

RowUpdated(s) ==
    /\ s \notin recent
    /\ recent' = recent \cup {s}
    /\ UNCHANGED <<startKeys, nested, asking, starting, asks, unsettled, crowded, forgotten>>

-----------------------------------------------------------------------------
NestedInit ==
    /\ startKeys = {} /\ recent = Nested /\ forgotten = {} /\ nested = [s \in Nested |-> "none"]
    /\ asking = [r \in Starters |-> NotAsking]
    /\ starting = [r \in Starters |-> NotStarting]
    /\ asks = 0 /\ unsettled = {} /\ crowded = FALSE

NestedNext ==
    \/ \E r \in Starters :
          \/ \E s \in Nested : ReadKey(r, s) \/ PauseOld(r, s)
          \/ ReadRuntime(r) \/ MarkStarting(r)
          \/ EnsureLimit(r) \/ ConnectRuntime(r) \/ LeaveStart(r) \/ DeleteKey(r)
          \/ StarterCrashes(r)
    \/ \E s \in Nested : StartKeyExpires(s) \/ RuntimeStops(s) \/ WeekPasses(s) \/ RowUpdated(s)

NestedSpec == NestedInit /\ [][NestedNext]_nestedVars

-----------------------------------------------------------------------------
(* Properties.                                                             *)

AskType == [pc : {"runtime", "mark"}, sid : Nested, key : BOOLEAN] \cup {NotAsking}
StartType == [pc : {"limit", "close", "converse", "delete"}, sid : Nested, close : SUBSET Nested]
             \cup {NotStarting}

(* The type invariant.  A start closes the others before its own runtime.  *)
NestedTypeOK ==
    /\ startKeys \subseteq Nested
    /\ nested \in [Nested -> {"none", "running", "paused"}]
    /\ asking \in [Starters -> AskType] /\ starting \in [Starters -> StartType]
    /\ \A r \in Starters :
          starting[r].pc \in {"limit", "converse", "delete"} => starting[r].close = {}
    /\ asks \in 0 .. MaxAsks
    /\ unsettled \subseteq Nested /\ crowded \in BOOLEAN
    /\ recent \subseteq Nested /\ forgotten \subseteq Nested

(* Without a lock, the key keeps a conversation from being started twice   *)
(* at a time, unless two calls for it overlap before either has set it, or *)
(* it expires or outlives its start.                                       *)
StartedOnce == \A s \in Nested \ unsettled : Cardinality(StartsOf(s)) <= 1

(* The key is there exactly while the conversation is being started: what  *)
(* get_agent_loop_info reports as starting is, and a start that fails      *)
(* leaves no key that would block the next one.                            *)
KeyMeansStarting == \A s \in Nested \ unsettled : s \in startKeys <=> StartsOf(s) # {}

(* A user never has more than the permitted conversations running, unless  *)
(* starts overlap or one could not be paused.  A conversation that was not *)
(* updated for a week, before it was started or while it runs, does not    *)
(* count, even after its next update: the query that finds the running     *)
(* ones has left it out.                                                   *)
RunningWithinLimit == ~crowded => Cardinality(Counted) <= MaxRunning

(* Starts are controlled by the key and by the limit, without a lock; the  *)
(* limit is on the conversations that were updated in the past week.       *)
StartsAreControlled == StartedOnce /\ KeyMeansStarting /\ RunningWithinLimit
=============================================================================
