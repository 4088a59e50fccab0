------------------------------ MODULE Sessions ------------------------------
(***************************************************************************)
(* Agent loops and the clients connected to them on one server:            *)
(* openhands/server/conversation_manager/standalone_conversation_manager.py*)
(* over openhands/server/session/session.py and agent_session.py.          *)
(*                                                                         *)
(* Everything runs on one asyncio loop, so an action is the code between   *)
(* two awaits that give the loop away: a client that joins while others    *)
(* are evicted, a session that starts (its runtime, then its controller),  *)
(* and a session that is closed, by the user, by the clean-up or by an     *)
(* eviction.  A session object is a number: the order of creation.         *)
(***************************************************************************)
EXTENDS Integers, Sequences, FiniteSets

CONSTANTS
    Sids,          \* conversations
    Conns,         \* client connections
    MaxConcurrent, \* config.max_concurrent_conversations
    MaxCalls       \* bound: joins, disconnections, closes and rounds of the clean-up

ASSUME SessionsAssumption ==
    /\ MaxConcurrent \in Nat \ {0}
    /\ MaxCalls \in Nat
    /\ {"user", "cleanup", "none"} \cap (Conns \cup Sids) = {}

VARIABLES
    loops,   \* _local_agent_loops_by_sid: the session of a conversation; 0: none
    conns,   \* _local_connection_id_to_session_id; "none": not connected
    joins,   \* joins that wait for evictions: the conversation, whom to evict
    closers, \* the calls of _close_session under way
    sess,    \* the session objects
    calls    \* counts the calls, for the bound

sessionsVars == <<loops, conns, joins, closers, sess, calls>>

Objects == 1 .. Len(sess)

(* start: where initialize_agent is.  closing: whether a close works on    *)
(* the session or is over.  hasty: close did not wait for the start.       *)
(* unsaved: close ended with an exception of save_state or of the          *)
(* controller's close.  late: created after evictions.                     *)
NewSession(s, late) ==
    [sid |-> s, late |-> late, start |-> "queued", runtime |-> "none",
     controller |-> "none", stream |-> "open",
     closed |-> FALSE, closing |-> "no", hasty |-> FALSE, unsaved |-> FALSE]

NotJoining == [sid |-> "none", victims |-> {}]

Called == calls < MaxCalls /\ calls' = calls + 1

Running == {s \in Sids : loops[s] # 0}
ConnectedTo(s) == {c \in Conns : conns[c] = s}

-----------------------------------------------------------------------------
(* Joining.                                                                *)

(* The rest of _start_agent_loop: the new session replaces whatever is     *)
(* registered for the conversation by now.                                 *)
CreateLoop(s, late) ==
    /\ sess' = Append(sess, NewSession(s, late))
    /\ loops' = [loops EXCEPT ![s] = Len(sess) + 1]

(* Those the store says were updated longest ago, just enough of them. *)
Oldest(V) ==
    /\ V \subseteq Running
    /\ Cardinality(V) = Cardinality(Running) - MaxConcurrent + 1

(* join_conversation, as far as the first await. *)
JoinConversation(c, s) ==
    /\ Called
    /\ conns[c] = "none" /\ joins[c] = NotJoining
    /\ conns' = [conns EXCEPT ![c] = s]
    /\ \/ /\ loops[s] # 0
          /\ UNCHANGED <<loops, joins, sess>>
       \/ /\ loops[s] = 0
          /\ Cardinality(Running) < MaxConcurrent
          /\ CreateLoop(s, FALSE)
          /\ UNCHANGED joins
       \/ /\ loops[s] = 0
          /\ Cardinality(Running) >= MaxConcurrent
          /\ \E V \in SUBSET Running :
                Oldest(V) /\ joins' = [joins EXCEPT ![c] = [sid |-> s, victims |-> V]]
          /\ UNCHANGED <<loops, sess>>
    /\ UNCHANGED closers

(* close_session(v), called by the user or by a join: nothing to do when   *)
(* the conversation has no loop any more.                                  *)
CloseTask(by, s) == [by |-> by, sid |-> s, pc |-> "disconnect",
                     left |-> ConnectedTo(s), obj |-> 0]

Busy(by) == \E t \in closers : t.by = by

EvictOne(c) ==
    /\ joins[c].victims # {} /\ ~Busy(c)
    /\ \E v \in joins[c].victims :
          /\ joins' = [joins EXCEPT ![c].victims = @ \ {v}]
          /\ closers' = IF loops[v] = 0 THEN closers ELSE closers \cup {CloseTask(c, v)}
    /\ UNCHANGED <<loops, conns, sess, calls>>

FinishJoin(c) ==
    /\ joins[c] # NotJoining /\ joins[c].victims = {} /\ ~Busy(c)
    /\ CreateLoop(joins[c].sid, TRUE)
    /\ joins' = [joins EXCEPT ![c] = NotJoining]
    /\ UNCHANGED <<conns, closers, calls>>

(* disconnect_from_session *)
Disconnect(c) ==
    /\ Called
    /\ conns[c] # "none"
    /\ conns' = [conns EXCEPT ![c] = "none"]
    /\ UNCHANGED <<loops, joins, closers, sess>>

-----------------------------------------------------------------------------
(* Starting: initialize_agent and AgentSession.start.                      *)

Starting(i) == sess[i].start = "connecting"

SessionStep(i, new) ==
    /\ sess' = [sess EXCEPT ![i] = new]
    /\ UNCHANGED <<loops, conns, joins, closers, calls>>

(* Faulty variant: a session that was closed meanwhile starts all the same. *)
BeginStartAnyway(i) ==
    /\ sess[i].start = "queued"
    /\ SessionStep(i, [sess[i] EXCEPT !.runtime = "open", !.start = "connecting"])

(* From the check of _closed to runtime.connect(), where the loop is given *)
(* away for the first time: the runtime object exists by then, unless its  *)
(* construction, or what precedes it, fails.                               *)
BeginStart(i) ==
    /\ sess[i].start = "queued"
    /\ \/ /\ sess[i].closed
          /\ SessionStep(i, [sess[i] EXCEPT !.start = "skipped"])
       \/ /\ ~sess[i].closed
          /\ SessionStep(i, [sess[i] EXCEPT !.runtime = "open", !.start = "connecting"])
       \/ SessionStep(i, [sess[i] EXCEPT !.start = "failed"])

(* The controller, also when the runtime is unavailable; the first events  *)
(* are left to AgentController.                                            *)
CreateController(i) ==
    /\ Starting(i)
    /\ SessionStep(i, [sess[i] EXCEPT !.controller = "open", !.start = "done"])

(* Any other exception ends the start; the client gets an error message.   *)
StartFails(i) ==
    /\ Starting(i)
    /\ SessionStep(i, [sess[i] EXCEPT !.start = "failed"])

-----------------------------------------------------------------------------
(* Closing: _close_session, WebSession.close, AgentSession.close.          *)

(* close_session by a route: stop or delete a conversation. *)
UserCloses(s) ==
    /\ Called
    /\ loops[s] # 0 /\ ~Busy("user")
    /\ closers' = closers \cup {CloseTask("user", s)}
    /\ UNCHANGED <<loops, conns, joins, sess>>

(* A round of _cleanup_stale: which of the unconnected sessions were       *)
(* inactive for long enough, and not RUNNING, is left open.                *)
CleanupRound(S) ==
    /\ Called
    /\ ~Busy("cleanup")
    /\ S # {}
    /\ \A s \in S : loops[s] # 0 /\ ConnectedTo(s) = {}
    /\ closers' = closers \cup {CloseTask("cleanup", s) : s \in S}
    /\ UNCHANGED <<loops, conns, joins, sess>>

DisconnectOne(t, c) ==
    /\ t.pc = "disconnect" /\ c \in t.left
    /\ conns' = [conns EXCEPT ![c] = "none"]
    /\ closers' = (closers \ {t}) \cup {[t EXCEPT !.left = @ \ {c}]}
    /\ UNCHANGED <<loops, joins, sess, calls>>

(* Faulty variant: the session is looked up now and forgotten once closed. *)
TakeSessionLate(t) ==
    /\ t.pc = "disconnect" /\ t.left = {}
    /\ LET i == loops[t.sid]
       IN  IF i = 0
           THEN closers' = closers \ {t} /\ UNCHANGED sess
           ELSE /\ closers' = (closers \ {t}) \cup {[t EXCEPT !.pc = "close", !.obj = i]}
                /\ sess' = [sess EXCEPT ![i].closing = "begun"]
    /\ UNCHANGED <<loops, conns, joins, calls>>

(* The session is taken out of the table before it is closed. *)
TakeSession(t) ==
    /\ t.pc = "disconnect" /\ t.left = {}
    /\ LET i == loops[t.sid]
       IN  \/ /\ i = 0
              /\ closers' = closers \ {t}
              /\ UNCHANGED <<loops, sess>>
           \/ /\ i # 0
              /\ loops' = [loops EXCEPT ![t.sid] = 0]
              /\ closers' = (closers \ {t}) \cup {[t EXCEPT !.pc = "close", !.obj = i]}
              /\ sess' = [sess EXCEPT ![i].closing = "begun"]
    /\ UNCHANGED <<conns, joins, calls>>

(* AgentSession.close sets _closed, then waits for a start that is under   *)
(* way.                                                                    *)
MarkClosed(t) ==
    /\ t.pc = "close"
    /\ closers' = (closers \ {t}) \cup {[t EXCEPT !.pc = "wait"]}
    /\ sess' = [sess EXCEPT ![t.obj].closed = TRUE]
    /\ UNCHANGED <<loops, conns, joins, calls>>

Shut(part) == IF part = "open" THEN "closed" ELSE part

Release(x) ==
    [x EXCEPT !.stream = "closed", !.closing = "done",
              !.controller = Shut(x.controller), !.runtime = Shut(x.runtime)]

(* The wait ends when the start is over, but also after its first interval *)
(* as long as the deadline has NOT passed: the comparison with the         *)
(* deadline is the wrong way round.                                        *)
FinishClose(t) ==
    /\ t.pc = "wait"
    /\ closers' = closers \ {t}
    /\ sess' = [sess EXCEPT ![t.obj] = Release([@ EXCEPT !.hasty = Starting(t.obj)])]
    /\ UNCHANGED <<loops, conns, joins, calls>>

(* save_state raises what the file store raised, or the controller does    *)
(* not close: the runtime is not reached, and later closes return at once. *)
(* A join that was evicting ends with the exception.                       *)
CloseFails(t) ==
    /\ t.pc = "wait" /\ sess[t.obj].controller = "open"
    /\ closers' = closers \ {t}
    /\ sess' = [sess EXCEPT ![t.obj] =
          [@ EXCEPT !.stream = "closed", !.closing = "done", !.unsaved = TRUE]]
    /\ joins' = [c \in Conns |-> IF c = t.by THEN NotJoining ELSE joins[c]]
    /\ UNCHANGED <<loops, conns, calls>>

-----------------------------------------------------------------------------
SessionsInit ==
    /\ loops = [s \in Sids |-> 0]
    /\ conns = [c \in Conns |-> "none"]
    /\ joins = [c \in Conns |-> NotJoining]
    /\ closers = {}
    /\ sess = <<>>
    /\ calls = 0

StartNext == \E i \in Objects :
    BeginStart(i) \/ CreateController(i) \/ StartFails(i)

CloseNext == \E t \in closers :
    \/ \E c \in t.left : DisconnectOne(t, c)
    \/ TakeSession(t) \/ MarkClosed(t) \/ FinishClose(t) \/ CloseFails(t)

JoinNext == \E c \in Conns : EvictOne(c) \/ FinishJoin(c)

SessionsNext ==
    \/ \E c \in Conns, s \in Sids : JoinConversation(c, s)
    \/ \E c \in Conns : Disconnect(c)
    \/ JoinNext
    \/ StartNext
    \/ \E s \in Sids : UserCloses(s)
    \/ \E S \in SUBSET Sids : CleanupRound(S)
    \/ CloseNext

SessionsSpec == SessionsInit /\ [][SessionsNext]_sessionsVars

-----------------------------------------------------------------------------
(* Properties.                                                             *)

SessionType ==
    [sid : Sids, late : BOOLEAN,
     start : {"queued", "connecting", "done", "failed", "skipped"},
     runtime : {"none", "open", "closed"}, controller : {"none", "open", "closed"},
     stream : {"open", "closed"}, closed : BOOLEAN,
     closing : {"no", "begun", "done"}, hasty : BOOLEAN, unsaved : BOOLEAN]

CloserType ==
    [by : Conns \cup {"user", "cleanup"}, sid : Sids, pc : {"disconnect", "close", "wait"},
     left : SUBSET Conns, obj : 0 .. Len(sess)]

(* The type invariant.  The table points to existing session objects of    *)
(* the right conversation, and so does a close.                            *)
SessionsTypeOK ==
    /\ calls \in 0 .. MaxCalls
    /\ sess \in Seq(SessionType)
    /\ loops \in [Sids -> 0 .. Len(sess)]
    /\ conns \in [Conns -> Sids \cup {"none"}]
    /\ joins \in [Conns -> [sid : Sids \cup {"none"}, victims : SUBSET Sids]]
    /\ closers \subseteq CloserType
    /\ \A s \in Sids : loops[s] # 0 => sess[loops[s]].sid = s

(* A session in the table is open: no message of a client is dispatched to *)
(* a session that is being closed (_close_session pops before it closes,   *)
(* send_event_to_conversation looks up and dispatches).                    *)
RegisteredIsOpen ==
    \A s \in Sids : loops[s] # 0 =>
        /\ sess[loops[s]].closing = "no"
        /\ ~sess[loops[s]].closed
        /\ sess[loops[s]].stream = "open"

(* A session whose close is over without an exception holds no runtime,    *)
(* whether close came before, during or after the start, or the start      *)
(* failed; and no open controller either, if close waited for the start    *)
(* (AgentSession.start, AgentSession.close).                               *)
ClosedReleasesRuntime ==
    \A i \in Objects : sess[i].closing = "done" /\ ~sess[i].unsaved =>
        /\ sess[i].runtime # "open"
        /\ ~sess[i].hasty => sess[i].controller # "open"

(* No session is lost: one that is neither in the table nor being closed   *)
(* was replaced by a later session of its conversation, and only a join    *)
(* that had others evicted first, and so looked into the table some time   *)
(* ago, replaces one (maybe_start_agent_loop, _start_agent_loop).          *)
NoSessionLost ==
    \A i \in Objects : sess[i].closing = "no" =>
        \/ loops[sess[i].sid] = i
        \/ \E j \in Objects : j > i /\ sess[j].sid = sess[i].sid /\ sess[j].late

(* What close() sets out to do, waiting for initialization to finish       *)
(* before closing the session: a session whose close and start are over    *)
(* has no open controller.                                                 *)
NoControllerLeftBehind ==
    \A i \in Objects :
        /\ sess[i].closing = "done" /\ ~sess[i].unsaved
        /\ sess[i].start \in {"done", "failed", "skipped"}
        => sess[i].controller # "open"

(* The table holds the sessions that are open, all of them and no others,  *)
(* however joins, evictions and closes interleave.                         *)
TableHoldsOpenSessions == RegisteredIsOpen /\ NoSessionLost
=============================================================================
