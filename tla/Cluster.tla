------------------------------ MODULE Cluster ------------------------------
(***************************************************************************)
(* Agent loops of several servers that share a Redis instance:             *)
(* enterprise/server/clustered_conversation_manager.py.                    *)
(*                                                                         *)
(* A server runs a conversation after it has set the conversation's key    *)
(* (SET NX with a time to live), refreshes the keys of its loops, and      *)
(* deletes the key when it closes the loop.  Everybody subscribes to one   *)
(* channel; a subscriber handles one message at a time and a message also  *)
(* comes back to the server that published it.  A server may crash at any  *)
(* point.  Coroutines are tasks; a step is the code between two awaits.    *)
(*                                                                         *)
(* Time: a key lives longer than the refresh interval (15 s and 5 s), so   *)
(* the key of a registered loop on a live server does not expire; while a  *)
(* loop starts, which may close other conversations first, nobody          *)
(* refreshes its key.                                                      *)
(***************************************************************************)
EXTENDS Integers, Sequences, FiniteSets

CONSTANTS
    Servers, Cids, Clients,
    SlowStarts,  \* whether a key may expire while a start or a close relies on it
    MaxFaults,   \* bound: crashes and failing starts
    MaxJoins,    \* bound: connections made by clients
    MaxStops,    \* bound: conversations stopped by a user or closed as idle
    MaxEvents,   \* bound: messages sent by clients
    MaxQueue     \* bound: unhandled messages per server

ASSUME ClusterAssumption ==
    /\ SlowStarts \in BOOLEAN
    /\ {MaxFaults, MaxJoins, MaxStops, MaxEvents, MaxQueue} \subseteq Nat
    /\ {"user", "cleanup"} \cap Clients = {}

VARIABLES
    up,       \* the servers that run
    key,      \* conversations whose key is in Redis
    hosts,    \* <<server, conversation>>: _local_agent_loops_by_sid of each server
    at,       \* server and conversation a client is connected to, or Nowhere
    chan,     \* published messages a server has not handled yet
    tasks,    \* coroutines under way
    refresh,  \* the keys in the pipeline a server has built and not executed yet
    events,   \* the messages of clients: how often each was dispatched
    faults, joined, stops  \* counters of the bounded steps

clusterVars == <<up, key, hosts, at, chan, tasks, refresh, events,
                 faults, joined, stops>>

Nowhere == <<>>

(* op: what the task does next.  who: for whom.  heard: the subscriber     *)
(* waits for it.                                                           *)
Task(op, s, k, who) == [op |-> op, srv |-> s, cid |-> k, who |-> who, heard |-> FALSE]
Hosted(k) == \E s \in Servers : <<s, k>> \in hosts
Local(s, k) == {c \in Clients : at[c] = <<s, k>>}

(* PUBLISH: every subscriber gets the message, in the order of publication. *)
Publish(m) == chan' = [s \in Servers |-> IF s \in up THEN Append(chan[s], m) ELSE chan[s]]
QueueFree == \A s \in Servers : Len(chan[s]) < MaxQueue

(* The subscriber awaits what it does for a message. *)
Heard(t) == [t EXCEPT !.heard = TRUE]
ListenerBusy(s) == \E t \in tasks : t.srv = s /\ t.heard

-----------------------------------------------------------------------------
(* Starting.                                                               *)

(* join_conversation, up to maybe_start_agent_loop. *)
ClientJoins(c, s, k) ==
    /\ s \in up /\ at[c] = Nowhere /\ joined < MaxJoins
    /\ at' = [at EXCEPT ![c] = <<s, k>>]
    /\ tasks' = tasks \cup {Task("try", s, k, c)}
    /\ joined' = joined + 1
    /\ UNCHANGED <<up, key, hosts, chan, refresh, events, faults, stops>>

(* maybe_start_agent_loop: SET NX decides whether the loop is started here.*)
TryStart(t) ==
    /\ t \in tasks /\ t.op \in {"try", "recover"}
    /\ key' = key \cup {t.cid}
    /\ tasks' = (tasks \ {t}) \cup
          (IF t.cid \in key THEN {} ELSE {[t EXCEPT !.op = "start"]})
    /\ UNCHANGED <<up, hosts, at, chan, refresh, events, faults, joined, stops>>

(* _start_agent_loop, once others are closed to stay within the limit: the *)
(* session is registered; its agent starts in the background (Sessions).   *)
Register(t) ==
    /\ t \in tasks /\ t.op = "start"
    /\ hosts' = hosts \cup {<<t.srv, t.cid>>}
    /\ tasks' = tasks \ {t}
    /\ events' = [e \in DOMAIN events |->
                    IF events[e].cid = t.cid THEN [events[e] EXCEPT !.moved = TRUE] ELSE events[e]]
    /\ UNCHANGED <<up, key, at, chan, refresh, faults, joined, stops>>

(* An exception on the way: the key stays until it expires. *)
StartRaises(t) ==
    /\ t \in tasks /\ t.op = "start" /\ faults < MaxFaults
    /\ tasks' = tasks \ {t}
    /\ faults' = faults + 1
    /\ UNCHANGED <<up, key, hosts, at, chan, refresh, events, joined, stops>>

(* disconnect_from_session *)
ClientLeaves(c) ==
    /\ at[c] # Nowhere
    /\ at' = [at EXCEPT ![c] = Nowhere]
    /\ UNCHANGED <<up, key, hosts, chan, tasks, refresh, events, faults, joined, stops>>

-----------------------------------------------------------------------------
(* Closing.                                                                *)

(* close_session, for a user or for a start that has to make room: the     *)
(* message goes to all, then it is closed here.                            *)
StopConversation(s, k) ==
    /\ s \in up /\ stops < MaxStops /\ QueueFree
    /\ Publish([type |-> "close_session", cid |-> k, event |-> 0])
    /\ tasks' = tasks \cup {Task("pop", s, k, "user")}
    /\ stops' = stops + 1
    /\ UNCHANGED <<up, key, hosts, at, refresh, events, faults, joined>>

(* _close_disconnected: a loop with no connection here.  Whether it sees   *)
(* those elsewhere is open: the key of a connection is written by the next *)
(* refresh of its server, and only while the conversation has a key.       *)
CloseIdle(s, k) ==
    /\ <<s, k>> \in hosts /\ stops < MaxStops
    /\ Local(s, k) = {}
    /\ tasks' = tasks \cup {Task("pop", s, k, "cleanup")}
    /\ stops' = stops + 1
    /\ UNCHANGED <<up, key, hosts, at, chan, refresh, events, faults, joined>>

(* Faulty variant: the key is deleted also where no loop ran. *)
PopAnySession(t) ==
    /\ t \in tasks /\ t.op = "pop"
    /\ at' = [c \in Clients |-> IF at[c] = <<t.srv, t.cid>> THEN Nowhere ELSE at[c]]
    /\ hosts' = hosts \ {<<t.srv, t.cid>>}
    /\ tasks' = (tasks \ {t}) \cup {[t EXCEPT !.op = "delete"]}
    /\ UNCHANGED <<up, key, chan, refresh, events, faults, joined, stops>>

(* _close_session: local clients are disconnected and the loop is taken    *)
(* out of the table.                                                       *)
PopSession(t) ==
    /\ t \in tasks /\ t.op = "pop"
    /\ at' = [c \in Clients |-> IF at[c] = <<t.srv, t.cid>> THEN Nowhere ELSE at[c]]
    /\ hosts' = hosts \ {<<t.srv, t.cid>>}
    /\ tasks' = (tasks \ {t}) \cup
          (IF <<t.srv, t.cid>> \in hosts
           THEN {[t EXCEPT !.op = "delete"]} ELSE {})
    /\ UNCHANGED <<up, key, chan, refresh, events, faults, joined, stops>>

DeleteKeys(t) ==
    /\ t \in tasks /\ t.op = "delete"
    /\ key' = key \ {t.cid}
    /\ tasks' = (tasks \ {t}) \cup {[t EXCEPT !.op = "publish"]}
    /\ UNCHANGED <<up, hosts, at, chan, refresh, events, faults, joined, stops>>

AnnounceClosing(t) ==
    /\ t \in tasks /\ t.op = "publish" /\ QueueFree
    /\ Publish([type |-> "session_closing", cid |-> t.cid, event |-> 0])
    /\ tasks' = tasks \ {t}
    /\ UNCHANGED <<up, key, hosts, at, refresh, events, faults, joined, stops>>

-----------------------------------------------------------------------------
(* Messages of clients.                                                    *)

(* send_event_to_conversation *)
SendEvent(c) ==
    /\ at[c] # Nowhere /\ Len(events) < MaxEvents
    /\ LET k == at[c][2]
           local == at[c] \in hosts
       IN  /\ local \/ QueueFree
           /\ events' = Append(events,
                    [cid |-> k, times |-> IF local THEN 1 ELSE 0, moved |-> FALSE])
           /\ IF local THEN UNCHANGED chan
              ELSE Publish([type |-> "event", cid |-> k, event |-> Len(events) + 1])
    /\ UNCHANGED <<up, key, hosts, at, tasks, refresh, faults, joined, stops>>

(* _process_message *)
Listen(s) ==
    /\ s \in up /\ chan[s] # <<>> /\ ~ListenerBusy(s)
    /\ chan' = [chan EXCEPT ![s] = Tail(@)]
    /\ LET m == Head(chan[s])
           here == <<s, m.cid>> \in hosts
       IN  /\ tasks' = tasks \cup
                (CASE m.type = "close_session" /\ here -> {Heard(Task("pop", s, m.cid, "user"))}
                   [] m.type = "session_closing" ->
                        {Heard(Task("recover", s, m.cid, c)) : c \in Local(s, m.cid)}
                   [] OTHER -> {})
           /\ events' = IF m.type = "event" /\ here
                        THEN [events EXCEPT ![m.event].times = @ + 1]
                        ELSE events
    /\ UNCHANGED <<up, key, hosts, at, refresh, faults, joined, stops>>

-----------------------------------------------------------------------------
(* Keeping the keys, and recovery.                                         *)

(* _update_state_in_redis: the pipeline is built from the loops, ... *)
BuildRefresh(s) ==
    /\ s \in up /\ refresh[s] = {}
    /\ refresh' = [refresh EXCEPT ![s] = {k \in Cids : <<s, k>> \in hosts}]
    /\ refresh' # refresh
    /\ UNCHANGED <<up, key, hosts, at, chan, tasks, events, faults, joined, stops>>

(* ... and executed. *)
ExecuteRefresh(s) ==
    /\ refresh[s] # {}
    /\ key' = key \cup refresh[s]
    /\ refresh' = [refresh EXCEPT ![s] = {}]
    /\ UNCHANGED <<up, hosts, at, chan, tasks, events, faults, joined, stops>>

(* A key that nobody refreshes expires. *)
KeyExpires(k) ==
    /\ k \in key /\ ~Hosted(k)
    /\ SlowStarts \/ ~\E t \in tasks : t.cid = k /\ t.op \in {"start", "delete"}
    /\ key' = key \ {k}
    /\ UNCHANGED <<up, hosts, at, chan, tasks, refresh, events, faults, joined, stops>>

(* Faulty variant: connections to remote conversations are left out. *)
FindStoppedHere(s, k) ==
    /\ s \in up /\ Local(s, k) # {}
    /\ <<s, k>> \in hosts /\ k \notin key
    /\ tasks' = tasks \cup {Task("recover", s, k, c) : c \in Local(s, k)}
    /\ tasks' # tasks
    /\ UNCHANGED <<up, key, hosts, at, chan, refresh, events, faults, joined, stops>>

(* _disconnect_from_stopped: a connection to a conversation that runs      *)
(* neither here nor, by its key, elsewhere.                                *)
FindStopped(s, k) ==
    /\ s \in up /\ Local(s, k) # {}
    /\ <<s, k>> \notin hosts /\ k \notin key
    /\ tasks' = tasks \cup {Task("recover", s, k, c) : c \in Local(s, k)}
    /\ tasks' # tasks
    /\ UNCHANGED <<up, key, hosts, at, chan, refresh, events, faults, joined, stops>>

(* _handle_remote_conversation_stopped, after its pause: the client is     *)
(* disconnected as the user runs too many, ...                             *)
RecoverRefused(t) ==
    /\ t \in tasks /\ t.op = "recover"
    /\ tasks' = tasks \ {t}
    /\ at' = [at EXCEPT ![t.who] = IF @ = <<t.srv, t.cid>> THEN Nowhere ELSE @]
    /\ UNCHANGED <<up, key, hosts, chan, refresh, events, faults, joined, stops>>

(* ... nothing is done as the user's settings do not load, or the loop is  *)
(* started here: TryStart.                                                 *)
RecoverGivesUp(t) ==
    /\ t \in tasks /\ t.op = "recover" /\ faults < MaxFaults
    /\ tasks' = tasks \ {t}
    /\ faults' = faults + 1
    /\ UNCHANGED <<up, key, hosts, at, chan, refresh, events, joined, stops>>

(* A server vanishes with its loops, connections and tasks; its keys stay. *)
Crash(s) ==
    /\ s \in up /\ faults < MaxFaults
    /\ up' = up \ {s}
    /\ hosts' = {h \in hosts : h[1] # s}
    /\ at' = [c \in Clients |-> IF at[c] # Nowhere /\ at[c][1] = s THEN Nowhere ELSE at[c]]
    /\ tasks' = {t \in tasks : t.srv # s}
    /\ chan' = [chan EXCEPT ![s] = <<>>]
    /\ refresh' = [refresh EXCEPT ![s] = {}]
    /\ faults' = faults + 1
    /\ UNCHANGED <<key, events, joined, stops>>

Boot(s) ==
    /\ s \notin up
    /\ up' = up \cup {s}
    /\ UNCHANGED <<key, hosts, at, chan, tasks, refresh, events, faults, joined, stops>>

-----------------------------------------------------------------------------
ClusterInit ==
    /\ up = Servers
    /\ key = {} /\ hosts = {}
    /\ at = [c \in Clients |-> Nowhere]
    /\ chan = [s \in Servers |-> <<>>]
    /\ tasks = {}
    /\ refresh = [s \in Servers |-> {}]
    /\ events = <<>>
    /\ faults = 0 /\ joined = 0 /\ stops = 0

(* What the servers do by themselves. *)
TaskStep(s) ==
    \E t \in tasks :
        /\ t.srv = s
        /\ \/ TryStart(t) \/ Register(t)
           \/ PopSession(t) \/ DeleteKeys(t) \/ AnnounceClosing(t)
           \/ RecoverRefused(t)

ServerStep(s) == TaskStep(s) \/ Listen(s) \/ BuildRefresh(s) \/ ExecuteRefresh(s) \/ Boot(s)

ClusterNext ==
    \/ \E c \in Clients, s \in Servers, k \in Cids : ClientJoins(c, s, k)
    \/ \E c \in Clients : ClientLeaves(c) \/ SendEvent(c)
    \/ \E s \in Servers, k \in Cids : StopConversation(s, k) \/ CloseIdle(s, k) \/ FindStopped(s, k)
    \/ \E t \in tasks : StartRaises(t) \/ RecoverGivesUp(t)
    \/ \E s \in Servers : ServerStep(s) \/ Crash(s)
    \/ \E k \in Cids : KeyExpires(k)

ClusterSpec == ClusterInit /\ [][ClusterNext]_clusterVars

(* Coroutines, the subscriber, the clean-up and Redis go on; clients,      *)
(* users, boots and faults need not.                                       *)
ClusterFairness ==
    /\ \A s \in Servers : WF_clusterVars(Listen(s)) /\ WF_clusterVars(TaskStep(s))
    /\ \A s \in Servers, k \in Cids : WF_clusterVars(FindStopped(s, k))
    /\ \A k \in Cids : WF_clusterVars(KeyExpires(k))

ClusterFairSpec == ClusterSpec /\ ClusterFairness

-----------------------------------------------------------------------------
(* Properties.                                                             *)

TaskType ==
    [op : {"try", "start", "pop", "delete", "publish", "recover"}, srv : Servers, cid : Cids,
     who : Clients \cup {"user", "cleanup"}, heard : BOOLEAN]

MessageType ==
    [type : {"close_session", "session_closing", "event"}, cid : Cids, event : 0 .. MaxEvents]

(* The type invariant: a server that is down has no loop, task, message or *)
(* client.                                                                 *)
ClusterTypeOK ==
    /\ up \subseteq Servers /\ key \subseteq Cids
    /\ hosts \subseteq up \X Cids
    /\ at \in [Clients -> (up \X Cids) \cup {Nowhere}]
    /\ chan \in [Servers -> Seq(MessageType)]
    /\ tasks \subseteq TaskType /\ \A t \in tasks : t.srv \in up
    /\ refresh \in [Servers -> SUBSET Cids]
    /\ events \in Seq([cid : Cids, times : Nat, moved : BOOLEAN])
    /\ \A s \in Servers : s \notin up => chan[s] = <<>> /\ refresh[s] = {}
    /\ faults \in 0 .. MaxFaults /\ joined \in 0 .. MaxJoins /\ stops \in 0 .. MaxStops

(* A conversation runs on one server at a time, across starts, stops,      *)
(* crashes and recoveries, if starts and closes are faster than its key    *)
(* expires ("If we can set the key in redis then no other worker is        *)
(* running this conversation", maybe_start_agent_loop).                    *)
OneHost ==
    ~SlowStarts =>
        \A k \in Cids, s1, s2 \in Servers :
            <<s1, k>> \in hosts /\ <<s2, k>> \in hosts => s1 = s2

(* A running loop holds its key: no late deletion of a close, on this or   *)
(* another server, takes it away (_close_session deletes only the key of   *)
(* the session it took out of the table).                                  *)
LoopHoldsKey ==
    ~SlowStarts => \A k \in Cids : Hosted(k) => k \in key

(* A message of a client reaches at most one loop, although every server   *)
(* gets it, unless the conversation was started again meanwhile            *)
(* (_process_message dispatches to local sessions only).                   *)
EventDispatchedOnce ==
    ~SlowStarts =>
        \A e \in 1 .. Len(events) : events[e].moved \/ events[e].times <= 1

(* Recovery: a client that is connected to a conversation comes to have    *)
(* a loop that serves it, whichever server crashed, unless it leaves or is *)
(* disconnected (_disconnect_from_stopped, session_closing,                *)
(* _handle_remote_conversation_stopped).                                   *)
ClientEventuallyServed == \A c \in Clients : []<>(at[c] = Nowhere \/ Hosted(at[c][2]))

(* A conversation is one agent loop of the cluster: one server hosts it,   *)
(* its key says so, and no message is dispatched to two.                   *)
OneLoopPerConversation == OneHost /\ LoopHoldsKey /\ EventDispatchedOnce
=============================================================================
