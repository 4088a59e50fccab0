--------------------------- MODULE Conversations ---------------------------
(***************************************************************************)
(* Requests that attach to a conversation of a server:                     *)
(* attach_to_conversation, detach_from_conversation and the clean-up of    *)
(* standalone_conversation_manager.py, over session/conversation.py.       *)
(*                                                                         *)
(* A ServerConversation is shared by the requests that use it at a time,   *)
(* kept for reuse when the last one detaches, and disconnected by the next *)
(* round of the clean-up.  It borrows stream and runtime of the agent      *)
(* session where there are any.  The tables are keyed by conversation and  *)
(* only the lock is common, so one conversation is modelled; the agent     *)
(* session appears as far as it is visible from here (see Sessions).       *)
(***************************************************************************)
EXTENDS Integers, Sequences, FiniteSets

CONSTANTS
    Requests,      \* requests; each may attach again and again
    MaxConvs,      \* bound: ServerConversation objects created
    MaxAgents      \* bound: agent sessions created

ASSUME ConversationsAssumption ==
    /\ MaxConvs \in Nat /\ MaxAgents \in Nat
    /\ IsFiniteSet(Requests) /\ "free" \notin Requests

VARIABLES
    agents,   \* the agent sessions: stream and runtime of each
    agent,    \* the one in _local_agent_loops_by_sid; 0: none
    objects,  \* the ServerConversation objects
    active,   \* _active_conversations[sid]: object and count; object 0: none
    detached, \* _detached_conversations[sid]; 0: none
    lock,     \* who holds _conversations_lock across an await; "free": nobody
    req       \* the requests: where they are and the object they use

conversationsVars == <<agents, agent, objects, active, detached, lock, req>>

Nobody == [object |-> 0, count |-> 0]
Idle == [pc |-> "idle", object |-> 0]
Holders(o) == {r \in Requests : req[r].pc = "attached" /\ req[r].object = o}

-----------------------------------------------------------------------------
(* The agent session of the conversation.                                  *)

SessionStarts ==
    /\ agent = 0 /\ Len(agents) < MaxAgents
    /\ agents' = Append(agents, [stream |-> "open", ready |-> FALSE, early |-> FALSE])
    /\ agent' = Len(agents) + 1
    /\ UNCHANGED <<objects, active, detached, lock, req>>

SessionGetsRuntime ==
    /\ agent # 0 /\ ~agents[agent].ready
    /\ agents' = [agents EXCEPT ![agent].ready = TRUE]
    /\ UNCHANGED <<agent, objects, active, detached, lock, req>>

SessionCloses ==
    /\ agent # 0
    /\ agents' = [agents EXCEPT ![agent].stream = "closed"]
    /\ agent' = 0
    /\ UNCHANGED <<objects, active, detached, lock, req>>

-----------------------------------------------------------------------------
(* ServerConversation.                                                     *)

(* The stream of the session, if there is one; a runtime of its own unless *)
(* the session has one by now.                                             *)
NewConversation ==
    [agent |-> agent, attachToExisting |-> agent # 0 /\ agents[agent].ready, state |-> "open"]

Disconnected(o) == [objects EXCEPT ![o].state = IF objects[o].attachToExisting THEN @ ELSE "closed"]

(* disconnect() closes the stream of an object with a runtime of its own,  *)
(* also a stream that belongs to the session.                              *)
AgentsAfterDisconnect(o) ==
    IF objects[o].agent # 0 /\ ~objects[o].attachToExisting
    THEN [agents EXCEPT ![objects[o].agent].stream = "closed"]
    ELSE agents

-----------------------------------------------------------------------------
(* Attaching and detaching.                                                *)

(* session_exists is awaited before the lock; a request for a conversation *)
(* that does not exist returns there and changes nothing.                  *)
BeginAttach(r) ==
    /\ req[r].pc = "idle"
    /\ req' = [req EXCEPT ![r].pc = "attaching"]
    /\ UNCHANGED <<agents, agent, objects, active, detached, lock>>

Attached(r, o) == req' = [req EXCEPT ![r] = [pc |-> "attached", object |-> o]]

ReuseActive(r) ==
    /\ req[r].pc = "attaching" /\ lock = "free"
    /\ active.object # 0
    /\ active' = [active EXCEPT !.count = @ + 1]
    /\ Attached(r, active.object)
    /\ UNCHANGED <<agents, agent, objects, detached, lock>>

ReuseDetached(r) ==
    /\ req[r].pc = "attaching" /\ lock = "free"
    /\ active.object = 0 /\ detached # 0
    /\ active' = [object |-> detached, count |-> 1]
    /\ detached' = 0
    /\ Attached(r, detached)
    /\ UNCHANGED <<agents, agent, objects, lock>>

(* connect() gives the loop away only if it connects a runtime of its own; *)
(* the lock is held meanwhile.                                             *)
Create(r) ==
    /\ req[r].pc = "attaching" /\ lock = "free"
    /\ active.object = 0 /\ detached = 0
    /\ Len(objects) < MaxConvs
    /\ objects' = Append(objects, NewConversation)
    /\ agents' = IF agent = 0 THEN agents
                 ELSE [agents EXCEPT ![agent].early = @ \/ ~agents[agent].ready]
    /\ \/ /\ NewConversation.attachToExisting
          /\ active' = [object |-> Len(objects) + 1, count |-> 1]
          /\ Attached(r, Len(objects) + 1)
          /\ UNCHANGED lock
       \/ /\ ~NewConversation.attachToExisting
          /\ lock' = r
          /\ req' = [req EXCEPT ![r] = [pc |-> "connecting", object |-> Len(objects) + 1]]
          /\ UNCHANGED active
    /\ UNCHANGED <<agent, detached>>

Connected(r) ==
    /\ req[r].pc = "connecting"
    /\ active' = [object |-> req[r].object, count |-> 1]
    /\ Attached(r, req[r].object)
    /\ lock' = "free"
    /\ UNCHANGED <<agents, agent, objects, detached>>

(* AgentRuntimeUnavailableError: the object is disconnected, the request   *)
(* gets none.                                                              *)
ConnectFails(r) ==
    /\ req[r].pc = "connecting"
    /\ objects' = Disconnected(req[r].object)
    /\ agents' = AgentsAfterDisconnect(req[r].object)
    /\ req' = [req EXCEPT ![r] = Idle]
    /\ lock' = "free"
    /\ UNCHANGED <<agent, active, detached>>

(* Any other exception leaves the object as it is. *)
ConnectRaises(r) ==
    /\ req[r].pc = "connecting"
    /\ objects' = [objects EXCEPT ![req[r].object].state = "abandoned"]
    /\ req' = [req EXCEPT ![r] = Idle]
    /\ lock' = "free"
    /\ UNCHANGED <<agents, agent, active, detached>>

(* Faulty variant: the count is not looked at. *)
DetachAtOnce(r) ==
    /\ req[r].pc = "attached" /\ lock = "free"
    /\ active' = Nobody
    /\ detached' = IF active.object # 0 THEN req[r].object ELSE detached
    /\ req' = [req EXCEPT ![r] = Idle]
    /\ UNCHANGED <<agents, agent, objects, lock>>

Detach(r) ==
    /\ req[r].pc = "attached" /\ lock = "free"
    /\ \/ /\ active.object = 0
          /\ UNCHANGED <<active, detached>>
       \/ /\ active.object # 0 /\ active.count > 1
          /\ active' = [active EXCEPT !.count = @ - 1]
          /\ UNCHANGED detached
       \/ /\ active.object # 0 /\ active.count <= 1
          /\ active' = Nobody
          /\ detached' = req[r].object
    /\ req' = [req EXCEPT ![r] = Idle]
    /\ UNCHANGED <<agents, agent, objects, lock>>

(* The first part of a round of _cleanup_stale, and what it does when the  *)
(* server goes down.                                                       *)
CleanupDetached ==
    /\ lock = "free" /\ detached # 0
    /\ objects' = Disconnected(detached)
    /\ agents' = AgentsAfterDisconnect(detached)
    /\ detached' = 0
    /\ UNCHANGED <<agent, active, lock, req>>

-----------------------------------------------------------------------------
ConversationsInit ==
    /\ agents = <<>> /\ agent = 0
    /\ objects = <<>> /\ active = Nobody /\ detached = 0
    /\ lock = "free"
    /\ req = [r \in Requests |-> Idle]

RequestNext(r) ==
    \/ BeginAttach(r) \/ ReuseActive(r) \/ ReuseDetached(r) \/ Create(r)
    \/ Connected(r) \/ ConnectFails(r) \/ ConnectRaises(r) \/ Detach(r)

ConversationsNext ==
    \/ SessionStarts \/ SessionGetsRuntime \/ SessionCloses
    \/ \E r \in Requests : RequestNext(r)
    \/ CleanupDetached

ConversationsSpec == ConversationsInit /\ [][ConversationsNext]_conversationsVars

-----------------------------------------------------------------------------
(* Properties.                                                             *)

AgentType == [stream : {"open", "closed"}, ready : BOOLEAN, early : BOOLEAN]
ObjectType == [agent : 0 .. Len(agents), attachToExisting : BOOLEAN,
               state : {"open", "closed", "abandoned"}]
RequestType == [pc : {"idle", "attaching", "connecting", "attached"}, object : 0 .. Len(objects)]

(* The type invariant: an index points to an object, and the count of the  *)
(* active object is positive.                                              *)
ConversationsTypeOK ==
    /\ agents \in Seq(AgentType) /\ agent \in 0 .. Len(agents)
    /\ objects \in Seq(ObjectType)
    /\ active \in [object : 1 .. Len(objects), count : 1 .. Cardinality(Requests)] \cup {Nobody}
    /\ detached \in 0 .. Len(objects)
    /\ lock \in Requests \cup {"free"}
    /\ req \in [Requests -> RequestType]

(* A request keeps what it attached to: as long as it has not detached its *)
(* object is the active one, counted once for every request that holds it, *)
(* so no clean-up disconnects it (attach_to_conversation counts under the  *)
(* lock, detach_from_conversation counts down).                            *)
HeldStaysConnected ==
    \A r \in Requests : req[r].pc = "attached" =>
        /\ objects[req[r].object].state = "open"
        /\ active = [object |-> req[r].object, count |-> Cardinality(Holders(req[r].object))]

(* The requests for a conversation share one object: at most one is open   *)
(* with a runtime of its own, and it is the one that is active, detached   *)
(* or being connected under the lock (only an object whose connect raised  *)
(* is forgotten, abandoned).                                               *)
OneOpenConversation ==
    \A o \in 1 .. Len(objects) :
        objects[o].state = "open" /\ ~objects[o].attachToExisting =>
            \/ active.object = o \/ detached = o
            \/ lock # "free" /\ req[lock].object = o

(* A session in the table keeps its stream, whatever requests attach and   *)
(* detach, unless one attached before the session had a runtime: that      *)
(* object counts the session's stream as its own and closes it             *)
(* (ServerConversation.disconnect's early return).                         *)
SessionKeepsStream ==
    agent # 0 /\ ~agents[agent].early => agents[agent].stream = "open"

(* Attaching keeps its promises to the requests and to the session: those  *)
(* who hold the conversation share one connected object, and the session's *)
(* stream survives them.                                                   *)
AttachmentsKept == HeldStaysConnected /\ OneOpenConversation /\ SessionKeepsStream
=============================================================================
