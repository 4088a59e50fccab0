--------------------------- MODULE ClusterProofs ----------------------------
(***************************************************************************)
(* Proofs about the conversation managers that share conversations between *)
(* servers, for any number of servers, clients and conversations:          *)
(* OneLoopPerConversation (Redis keys and messages) and                    *)
(* StartsAreControlled (nested runtimes), with the types.                  *)
(*                                                                         *)
(* That a conversation has one loop follows from the claim: a start task,  *)
(* a task that is about to delete the key, or a host, and never two of     *)
(* them; that an event is dispatched once, from where its messages still   *)
(* are. For nested runtimes the invariant ties the key to the one call     *)
(* that may set it, and counts what a start has yet to close as closed.    *)
(***************************************************************************)
EXTENDS Cluster, NestedConversations, FiniteSetTheorems, SequenceTheorems, TLAPS

-----------------------------------------------------------------------------
(* Clustered conversations: one agent loop for each.                       *)

(* The tasks that rely on the key of their conversation. *)
ClaimTasks == {t \in tasks : t.op \in {"start", "delete"}}

(* A conversation has one claimant: a task that starts it or is about to   *)
(* delete its key, or the server that hosts it; and its key is set.        *)
OneClaim ==
    /\ \A t, u \in ClaimTasks : t.cid = u.cid => t = u
    /\ \A t \in ClaimTasks : t.cid \in key /\ ~Hosted(t.cid)
    /\ \A k \in Cids, s1, s2 \in Servers : <<s1, k>> \in hosts /\ <<s2, k>> \in hosts => s1 = s2
    /\ \A k \in Cids : Hosted(k) => k \in key

(* s has yet to handle the message of event e, at place i of its channel. *)
Carries(s, i, e) ==
    i \in 1 .. Len(chan[s]) /\ chan[s][i].type = "event" /\ chan[s][i].event = e

(* A published event is one that was sent, and is in each channel once. *)
MessagesAreEvents ==
    \A s \in Servers : \A i \in 1 .. Len(chan[s]) : chan[s][i].type = "event" =>
        /\ chan[s][i].event \in 1 .. Len(events)
        /\ events[chan[s][i].event].cid = chan[s][i].cid

MessagesOnce ==
    \A s \in Servers : \A i, j \in 1 .. Len(chan[s]), e \in 1 .. Len(events) :
        Carries(s, i, e) /\ Carries(s, j, e) => i = j

(* Once an event was dispatched, the host of its conversation has no       *)
(* message of it any more, as long as the host is the same.                *)
DispatchedIsGone ==
    \A e \in 1 .. Len(events) : ~events[e].moved /\ events[e].times # 0 =>
        /\ events[e].times = 1
        /\ \A s \in Servers : \A i \in 1 .. Len(chan[s]) :
              <<s, events[e].cid>> \in hosts => ~Carries(s, i, e)

ClusterInv ==
    /\ ClusterTypeOK
    /\ MessagesAreEvents
    /\ MessagesOnce
    /\ ~SlowStarts => OneClaim /\ DispatchedIsGone

EventType == [cid : Cids, times : Nat, moved : BOOLEAN]

-----------------------------------------------------------------------------
(* Types.                                                                  *)

LEMMA PublishType ==
    ASSUME ClusterTypeOK, NEW m \in MessageType, Publish(m)
    PROVE  /\ chan' \in [Servers -> Seq(MessageType)]
           /\ \A s \in Servers : s \notin up => chan'[s] = chan[s]
           /\ \A s \in Servers : s \in up =>
                 /\ Len(chan'[s]) = Len(chan[s]) + 1
                 /\ chan'[s][Len(chan[s]) + 1] = m
                 /\ \A i \in 1 .. Len(chan[s]) : chan'[s][i] = chan[s][i]
  <1>1. ASSUME NEW s \in Servers PROVE chan[s] \in Seq(MessageType)
    BY DEF ClusterTypeOK
  <1>2. ASSUME NEW s \in Servers
        PROVE  /\ Append(chan[s], m) \in Seq(MessageType)
               /\ Len(Append(chan[s], m)) = Len(chan[s]) + 1
               /\ \A i \in 1 .. Len(chan[s]) : Append(chan[s], m)[i] = chan[s][i]
               /\ Append(chan[s], m)[Len(chan[s]) + 1] = m
    BY <1>1, AppendProperties
  <1>3. ASSUME NEW s \in Servers
        PROVE  chan'[s] = IF s \in up THEN Append(chan[s], m) ELSE chan[s]
    BY DEF Publish
  <1>4. chan' \in [Servers -> Seq(MessageType)]
    BY <1>1, <1>2 DEF Publish
  <1> QED
    BY <1>2, <1>3, <1>4

(* Tasks that are added. *)
LEMMA TaskTyped ==
    ASSUME NEW op \in {"try", "start", "pop", "delete", "publish", "recover"}, NEW s \in Servers,
           NEW k \in Cids, NEW who \in Clients \cup {"user", "cleanup"}
    PROVE  /\ Task(op, s, k, who) \in TaskType /\ Heard(Task(op, s, k, who)) \in TaskType
           /\ Task(op, s, k, who).op = op /\ Heard(Task(op, s, k, who)).op = op
           /\ Task(op, s, k, who).srv = s /\ Heard(Task(op, s, k, who)).srv = s
  BY DEF Task, Heard, TaskType

LEMMA OpChanged ==
    ASSUME NEW t \in TaskType, NEW op \in {"try", "start", "pop", "delete", "publish", "recover"}
    PROVE  /\ [t EXCEPT !.op = op] \in TaskType
           /\ [t EXCEPT !.op = op].op = op
           /\ [t EXCEPT !.op = op].srv = t.srv /\ [t EXCEPT !.op = op].cid = t.cid
  BY DEF TaskType

(* What the subscriber does for a message. *)
LEMMA ListenFacts ==
    ASSUME ClusterTypeOK, NEW s \in Servers, Listen(s)
    PROVE  /\ s \in up /\ chan[s] \in Seq(MessageType) /\ chan[s] # <<>>
           /\ Head(chan[s]) \in MessageType /\ Head(chan[s]) = chan[s][1]
           /\ tasks \subseteq tasks'
           /\ \A t \in tasks' \ tasks : t \in TaskType /\ t.srv = s /\ t.op \in {"pop", "recover"}
           /\ chan' \in [Servers -> Seq(MessageType)]
           /\ \A q \in Servers : q # s => chan'[q] = chan[q]
           /\ Len(chan'[s]) = Len(chan[s]) - 1 /\ Len(chan[s]) \in Nat
           /\ \A i \in 1 .. Len(chan'[s]) : chan'[s][i] = chan[s][i + 1]
  <1>1. s \in up /\ chan[s] \in Seq(MessageType) /\ chan[s] # <<>> /\ chan \in [Servers -> Seq(MessageType)]
        /\ chan' = [chan EXCEPT ![s] = Tail(chan[s])]
    BY DEF Listen, ClusterTypeOK
  <1>2. /\ Head(chan[s]) \in MessageType /\ Tail(chan[s]) \in Seq(MessageType)
        /\ Len(Tail(chan[s])) = Len(chan[s]) - 1
        /\ \A i \in 1 .. Len(Tail(chan[s])) : Tail(chan[s])[i] = chan[s][i + 1]
    BY <1>1, HeadTailProperties
  <1>3. Head(chan[s]) = chan[s][1] /\ Len(chan[s]) \in Nat
    BY <1>1, LenProperties
  <1>4. chan' \in [Servers -> Seq(MessageType)] /\ chan'[s] = Tail(chan[s])
        /\ \A q \in Servers : q # s => chan'[q] = chan[q]
    BY <1>1, <1>2
  <1> DEFINE m == Head(chan[s])
             new == CASE m.type = "close_session" /\ <<s, m.cid>> \in hosts ->
                            {Heard(Task("pop", s, m.cid, "user"))}
                      [] m.type = "session_closing" ->
                            {Heard(Task("recover", s, m.cid, c)) : c \in Local(s, m.cid)}
                      [] OTHER -> {}
  <1>5. tasks' = tasks \cup new
    BY DEF Listen
  <1>6. m.cid \in Cids
    BY <1>2 DEF MessageType
  <1> HIDE DEF m
  <1>7. ASSUME NEW t \in new PROVE t \in TaskType /\ t.srv = s /\ t.op \in {"pop", "recover"}
    <2>1. CASE m.type = "close_session" /\ <<s, m.cid>> \in hosts
      BY <1>6, <1>7, <2>1, TaskTyped
    <2>2. CASE m.type = "session_closing"
      <3>1. PICK c \in Clients : t = Heard(Task("recover", s, m.cid, c))
        BY <1>7, <2>2 DEF Local
      <3> QED
        BY <1>6, <3>1, TaskTyped
    <2> QED
      BY <1>7, <2>1, <2>2
  <1> HIDE DEF new
  <1> QED
    BY <1>1, <1>2, <1>3, <1>4, <1>5, <1>7 DEF m

LEMMA ClusterTypeStep ==
    ASSUME ClusterInv, [ClusterNext]_clusterVars
    PROVE  ClusterTypeOK'
  <1> USE ClusterAssumption
  <1>a. ClusterTypeOK
    BY DEF ClusterInv
  <1>b. \A t \in tasks : t \in TaskType /\ t.srv \in up /\ t.cid \in Cids
    BY <1>a DEF ClusterTypeOK, TaskType
  <1>c. ASSUME NEW t \in tasks, tasks' = tasks \ {t}
        PROVE  tasks' \subseteq TaskType /\ \A u \in tasks' : u.srv \in up
    BY <1>a, <1>c DEF ClusterTypeOK
  <1>d. ASSUME NEW t \in tasks, NEW op \in {"start", "delete", "publish"},
               tasks' \subseteq (tasks \ {t}) \cup {[t EXCEPT !.op = op]}
        PROVE  tasks' \subseteq TaskType /\ \A u \in tasks' : u.srv \in up
    <2>1. [t EXCEPT !.op = op] \in TaskType /\ [t EXCEPT !.op = op].srv \in up
      <3>1. t \in TaskType /\ t.srv \in up
        BY <1>b
      <3>2. op \in {"try", "start", "pop", "delete", "publish", "recover"}
        OBVIOUS
      <3> QED
        BY <3>1, <3>2, OpChanged, Zenon
    <2> QED
      BY <1>a, <1>d, <2>1 DEF ClusterTypeOK
  <1>1. ASSUME NEW c \in Clients, NEW s \in Servers, NEW k \in Cids, ClientJoins(c, s, k)
        PROVE  ClusterTypeOK'
    <2>1. at' \in [Clients -> (up \X Cids) \cup {Nowhere}]
      BY <1>1, <1>a DEF ClientJoins, ClusterTypeOK
    <2>2. tasks' \subseteq TaskType /\ \A t \in tasks' : t.srv \in up
      BY <1>1, <1>a, TaskTyped DEF ClientJoins, ClusterTypeOK
    <2>3. joined' \in 0 .. MaxJoins
      BY <1>1, <1>a DEF ClientJoins, ClusterTypeOK
    <2> QED
      BY <1>1, <1>a, <2>1, <2>2, <2>3 DEF ClientJoins, ClusterTypeOK
  <1>2. ASSUME NEW c \in Clients, ClientLeaves(c) PROVE ClusterTypeOK'
    <2>1. at' \in [Clients -> (up \X Cids) \cup {Nowhere}]
      BY <1>2, <1>a DEF ClientLeaves, ClusterTypeOK
    <2> QED
      BY <1>2, <1>a, <2>1 DEF ClientLeaves, ClusterTypeOK
  <1>3. ASSUME NEW c \in Clients, SendEvent(c) PROVE ClusterTypeOK'
    <2> DEFINE k == at[c][2]
               local == at[c] \in hosts
               e == [cid |-> k, times |-> IF local THEN 1 ELSE 0, moved |-> FALSE]
               m == [type |-> "event", cid |-> k, event |-> Len(events) + 1]
    <2>1. k \in Cids
      BY <1>3, <1>a DEF SendEvent, ClusterTypeOK
    <2>2. e \in EventType /\ events \in Seq(EventType)
      BY <1>a, <2>1 DEF EventType, ClusterTypeOK
    <2>3. events' = Append(events, e)
      BY <1>3 DEF SendEvent
    <2>4. m \in MessageType
      <3>1. Len(events) \in Nat /\ Len(events) < MaxEvents
        BY <1>3, <2>2, LenProperties DEF SendEvent
      <3> QED
        BY <2>1, <3>1 DEF MessageType
    <2>5. UNCHANGED chan \/ Publish(m)
      BY <1>3 DEF SendEvent
    <2> HIDE DEF m, e
    <2>6. events' \in Seq(EventType)
      BY <2>2, <2>3, AppendProperties
    <2>7. /\ chan' \in [Servers -> Seq(MessageType)]
          /\ \A s \in Servers : s \notin up => chan'[s] = chan[s]
      BY <1>a, <2>4, <2>5, PublishType DEF ClusterTypeOK
    <2> QED
      BY <1>3, <1>a, <2>6, <2>7 DEF SendEvent, ClusterTypeOK, EventType
  <1>4. ASSUME NEW s \in Servers, NEW k \in Cids, StopConversation(s, k) PROVE ClusterTypeOK'
    <2> DEFINE m == [type |-> "close_session", cid |-> k, event |-> 0]
    <2>1. m \in MessageType /\ Publish(m)
      BY <1>4 DEF StopConversation, MessageType
    <2> HIDE DEF m
    <2>2. /\ chan' \in [Servers -> Seq(MessageType)]
          /\ \A q \in Servers : q \notin up => chan'[q] = chan[q]
      BY <1>a, <2>1, PublishType
    <2>3. tasks' \subseteq TaskType /\ \A t \in tasks' : t.srv \in up
      BY <1>4, <1>a, TaskTyped DEF StopConversation, ClusterTypeOK
    <2>4. stops' \in 0 .. MaxStops
      BY <1>4, <1>a DEF StopConversation, ClusterTypeOK
    <2> QED
      BY <1>4, <1>a, <2>2, <2>3, <2>4 DEF StopConversation, ClusterTypeOK
  <1>5. ASSUME NEW s \in Servers, NEW k \in Cids, CloseIdle(s, k) PROVE ClusterTypeOK'
    <2>1. s \in up
      BY <1>5, <1>a DEF CloseIdle, ClusterTypeOK
    <2>2. tasks' \subseteq TaskType /\ \A t \in tasks' : t.srv \in up
      BY <1>5, <1>a, <2>1, TaskTyped DEF CloseIdle, ClusterTypeOK
    <2>3. stops' \in 0 .. MaxStops
      BY <1>5, <1>a DEF CloseIdle, ClusterTypeOK
    <2> QED
      BY <1>5, <1>a, <2>2, <2>3 DEF CloseIdle, ClusterTypeOK
  <1>6. ASSUME NEW s \in Servers, NEW k \in Cids, FindStopped(s, k) PROVE ClusterTypeOK'
    <2>1. \A c \in Local(s, k) : Task("recover", s, k, c) \in TaskType /\ Task("recover", s, k, c).srv = s
      BY TaskTyped DEF Local
    <2>2. tasks' \subseteq TaskType /\ \A t \in tasks' : t.srv \in up
      BY <1>6, <1>a, <2>1 DEF FindStopped, ClusterTypeOK
    <2> QED
      BY <1>6, <1>a, <2>2 DEF FindStopped, ClusterTypeOK
  <1>7. ASSUME NEW t \in tasks, StartRaises(t) PROVE ClusterTypeOK'
    <2>1. faults' \in 0 .. MaxFaults
      BY <1>7, <1>a DEF StartRaises, ClusterTypeOK
    <2> QED
      BY <1>7, <1>a, <1>c, <2>1 DEF StartRaises, ClusterTypeOK
  <1>8. ASSUME NEW t \in tasks, RecoverGivesUp(t) PROVE ClusterTypeOK'
    <2>1. faults' \in 0 .. MaxFaults
      BY <1>8, <1>a DEF RecoverGivesUp, ClusterTypeOK
    <2> QED
      BY <1>8, <1>a, <1>c, <2>1 DEF RecoverGivesUp, ClusterTypeOK
  <1>9. ASSUME NEW t \in tasks, TryStart(t) PROVE ClusterTypeOK'
    <2>1. tasks' \subseteq (tasks \ {t}) \cup {[t EXCEPT !.op = "start"]}
      BY <1>9 DEF TryStart
    <2>2. key' \subseteq Cids
      BY <1>9, <1>a, <1>b DEF TryStart, ClusterTypeOK
    <2> QED
      BY <1>9, <1>a, <1>d, <2>1, <2>2 DEF TryStart, ClusterTypeOK
  <1>10. ASSUME NEW t \in tasks, Register(t) PROVE ClusterTypeOK'
    <2>1. hosts' \subseteq up \X Cids
      BY <1>10, <1>a, <1>b DEF Register, ClusterTypeOK
    <2>2. events' \in Seq(EventType)
      <3>1. events \in Seq(EventType)
        BY <1>a DEF ClusterTypeOK, EventType
      <3>2. DOMAIN events = 1 .. Len(events) /\ Len(events) \in Nat
            /\ \A e \in DOMAIN events : events[e] \in EventType
        BY <3>1, LenProperties, ElementOfSeq
      <3>3. events' = [e \in 1 .. Len(events) |->
               IF events[e].cid = t.cid THEN [events[e] EXCEPT !.moved = TRUE] ELSE events[e]]
        BY <1>10, <3>2 DEF Register
      <3>4. events' \in [1 .. Len(events) -> EventType]
        BY <3>2, <3>3 DEF EventType
      <3> QED
        BY <3>2, <3>4, SeqDef
    <2> QED
      BY <1>10, <1>a, <1>c, <2>1, <2>2 DEF Register, ClusterTypeOK, EventType
  <1>11. ASSUME NEW t \in tasks, PopSession(t) PROVE ClusterTypeOK'
    <2>1. tasks' \subseteq (tasks \ {t}) \cup {[t EXCEPT !.op = "delete"]}
      BY <1>11 DEF PopSession
    <2>2. at' \in [Clients -> (up \X Cids) \cup {Nowhere}] /\ hosts' \subseteq up \X Cids
      BY <1>11, <1>a DEF PopSession, ClusterTypeOK
    <2> QED
      BY <1>11, <1>a, <1>d, <2>1, <2>2 DEF PopSession, ClusterTypeOK
  <1>12. ASSUME NEW t \in tasks, DeleteKeys(t) PROVE ClusterTypeOK'
    <2>1. tasks' \subseteq (tasks \ {t}) \cup {[t EXCEPT !.op = "publish"]} /\ key' \subseteq key
      BY <1>12 DEF DeleteKeys
    <2> QED
      BY <1>12, <1>a, <1>d, <2>1 DEF DeleteKeys, ClusterTypeOK
  <1>13. ASSUME NEW t \in tasks, AnnounceClosing(t) PROVE ClusterTypeOK'
    <2> DEFINE m == [type |-> "session_closing", cid |-> t.cid, event |-> 0]
    <2>1. m \in MessageType /\ Publish(m)
      BY <1>13, <1>b DEF AnnounceClosing, MessageType
    <2> HIDE DEF m
    <2>2. /\ chan' \in [Servers -> Seq(MessageType)]
          /\ \A q \in Servers : q \notin up => chan'[q] = chan[q]
      BY <1>a, <2>1, PublishType
    <2> QED
      BY <1>13, <1>a, <1>c, <2>2 DEF AnnounceClosing, ClusterTypeOK
  <1>14. ASSUME NEW t \in tasks, RecoverRefused(t) PROVE ClusterTypeOK'
    <2>1. at' \in [Clients -> (up \X Cids) \cup {Nowhere}]
      BY <1>14, <1>a DEF RecoverRefused, ClusterTypeOK
    <2> QED
      BY <1>14, <1>a, <1>c, <2>1 DEF RecoverRefused, ClusterTypeOK
  <1>15. ASSUME NEW s \in Servers, Listen(s) PROVE ClusterTypeOK'
    <2> DEFINE m == Head(chan[s])
    <2>1. tasks' \subseteq TaskType /\ \A t \in tasks' : t.srv \in up
      BY <1>15, <1>a, <1>b, ListenFacts
    <2>2. /\ chan' \in [Servers -> Seq(MessageType)]
          /\ \A q \in Servers : q \notin up => chan'[q] = chan[q]
      BY <1>15, <1>a, ListenFacts
    <2>3. events \in Seq(EventType)
      BY <1>a DEF ClusterTypeOK, EventType
    <2>4. CASE UNCHANGED events
      BY <1>15, <1>a, <2>1, <2>2, <2>4 DEF Listen, ClusterTypeOK
    <2>5. ASSUME m.type = "event", events' = [events EXCEPT ![m.event].times = @ + 1]
          PROVE  ClusterTypeOK'
      <3>1. m.event \in 1 .. Len(events)
        <4>1. m = chan[s][1] /\ 1 \in 1 .. Len(chan[s])
          BY <1>15, <1>a, ListenFacts, LenProperties
        <4> QED
          BY <2>5, <4>1 DEF ClusterInv, MessagesAreEvents
      <3>2. events[m.event] \in EventType
        BY <2>3, <3>1, ElementOfSeq
      <3> DEFINE e == [events[m.event] EXCEPT !.times = events[m.event].times + 1]
      <3>3. e \in EventType
        BY <3>2 DEF EventType
      <3>4. events' = [events EXCEPT ![m.event] = e]
        BY <2>5
      <3> HIDE DEF e, m
      <3>5. events' \in Seq(EventType)
        BY <2>3, <3>1, <3>3, <3>4, ExceptSeq
      <3> QED
        BY <1>15, <1>a, <2>1, <2>2, <3>5 DEF Listen, ClusterTypeOK, EventType
    <2> QED
      BY <1>15, <2>4, <2>5 DEF Listen
  <1>16. ASSUME NEW s \in Servers, BuildRefresh(s) PROVE ClusterTypeOK'
    BY <1>16, <1>a DEF BuildRefresh, ClusterTypeOK
  <1>17. ASSUME NEW s \in Servers, ExecuteRefresh(s) PROVE ClusterTypeOK'
    <2>1. key' \subseteq Cids
      BY <1>17, <1>a DEF ExecuteRefresh, ClusterTypeOK
    <2>2. refresh' \in [Servers -> SUBSET Cids]
      BY <1>17, <1>a DEF ExecuteRefresh, ClusterTypeOK
    <2> QED
      BY <1>17, <1>a, <2>1, <2>2 DEF ExecuteRefresh, ClusterTypeOK
  <1>18. ASSUME NEW s \in Servers, Boot(s) PROVE ClusterTypeOK'
    BY <1>18, <1>a DEF Boot, ClusterTypeOK
  <1>19. ASSUME NEW s \in Servers, Crash(s) PROVE ClusterTypeOK'
    <2>1. hosts' \subseteq up' \X Cids
      BY <1>19, <1>a DEF Crash, ClusterTypeOK
    <2>2. at' \in [Clients -> (up' \X Cids) \cup {Nowhere}]
      BY <1>19, <1>a DEF Crash, ClusterTypeOK
    <2>3. tasks' \subseteq TaskType /\ \A t \in tasks' : t.srv \in up'
      BY <1>19, <1>a DEF Crash, ClusterTypeOK
    <2>4. chan' \in [Servers -> Seq(MessageType)] /\ refresh' \in [Servers -> SUBSET Cids]
          /\ \A q \in Servers : q \notin up' => chan'[q] = <<>> /\ refresh'[q] = {}
      BY <1>19, <1>a, EmptySeq DEF Crash, ClusterTypeOK
    <2>5. faults' \in 0 .. MaxFaults /\ up' \subseteq Servers
      BY <1>19, <1>a DEF Crash, ClusterTypeOK
    <2> QED
      BY <1>19, <1>a, <2>1, <2>2, <2>3, <2>4, <2>5 DEF Crash, ClusterTypeOK
  <1>20. ASSUME NEW k \in Cids, KeyExpires(k) PROVE ClusterTypeOK'
    BY <1>20, <1>a DEF KeyExpires, ClusterTypeOK
  <1>21. CASE UNCHANGED clusterVars
    BY <1>21, <1>a DEF clusterVars, ClusterTypeOK
  <1> QED
    BY <1>1, <1>2, <1>3, <1>4, <1>5, <1>6, <1>7, <1>8, <1>9, <1>10, <1>11, <1>12, <1>13, <1>14,
       <1>15, <1>16, <1>17, <1>18, <1>19, <1>20, <1>21
    DEF ClusterNext, ServerStep, TaskStep

-----------------------------------------------------------------------------
(* The claims on a key.                                                    *)

(* Claims that go away, and keys nobody claims that do. *)
LEMMA ClaimsKept ==
    ASSUME OneClaim, ClaimTasks' \subseteq ClaimTasks, hosts' \subseteq hosts,
           \A k \in key \ key' : ~Hosted(k)' /\ \A t \in ClaimTasks' : t.cid # k
    PROVE  OneClaim'
  <1>1. \A k : Hosted(k)' => Hosted(k)
    BY DEF Hosted
  <1>2. \A t, u \in ClaimTasks' : t.cid = u.cid => t = u
    BY DEF OneClaim
  <1>3. \A t \in ClaimTasks' : t.cid \in key' /\ ~Hosted(t.cid)'
    BY <1>1 DEF OneClaim
  <1>4. \A k \in Cids, s1, s2 \in Servers : <<s1, k>> \in hosts' /\ <<s2, k>> \in hosts' => s1 = s2
    BY DEF OneClaim
  <1>5. \A k \in Cids : Hosted(k)' => k \in key'
    BY <1>1 DEF OneClaim
  <1> QED
    BY <1>2, <1>3, <1>4, <1>5 DEF OneClaim

LEMMA ClaimStep ==
    ASSUME ClusterTypeOK, OneClaim, ~SlowStarts, [ClusterNext]_clusterVars
    PROVE  OneClaim'
  <1>b. \A t \in tasks : t \in TaskType /\ t.srv \in Servers /\ t.cid \in Cids
    BY DEF ClusterTypeOK, TaskType
  (* Tasks are added that claim nothing. *)
  <1>c. ASSUME \A t \in tasks' \ tasks : t.op \notin {"start", "delete"},
               hosts' \subseteq hosts, key \subseteq key'
        PROVE  OneClaim'
    BY <1>c, ClaimsKept DEF ClaimTasks
  <1>1. ASSUME NEW c \in Clients, NEW s \in Servers, NEW k \in Cids, ClientJoins(c, s, k)
        PROVE  OneClaim'
    BY <1>1, <1>c, TaskTyped DEF ClientJoins
  <1>2. ASSUME NEW c \in Clients, ClientLeaves(c) \/ SendEvent(c) PROVE OneClaim'
    BY <1>2, ClaimsKept DEF ClientLeaves, SendEvent, ClaimTasks, Hosted
  <1>4. ASSUME NEW s \in Servers, NEW k \in Cids, StopConversation(s, k) \/ CloseIdle(s, k)
        PROVE  OneClaim'
    <2>1. PICK who \in {"user", "cleanup"} :
             /\ tasks' = tasks \cup {Task("pop", s, k, who)}
             /\ UNCHANGED <<hosts, key>>
      BY <1>4 DEF StopConversation, CloseIdle
    <2>2. Task("pop", s, k, who).op = "pop"
      BY DEF Task
    <2> QED
      BY <2>1, <2>2, <1>c
  <1>6. ASSUME NEW s \in Servers, NEW k \in Cids, FindStopped(s, k) PROVE OneClaim'
    <2> DEFINE new == {Task("recover", s, k, c) : c \in Local(s, k)}
    <2>1. tasks' = tasks \cup new /\ UNCHANGED <<hosts, key>>
      BY <1>6 DEF FindStopped
    <2>2. \A t \in new : t.op = "recover"
      BY DEF Task
    <2> HIDE DEF new
    <2> QED
      BY <2>1, <2>2, <1>c
  <1>7. ASSUME NEW t \in tasks, StartRaises(t) \/ RecoverGivesUp(t) \/ AnnounceClosing(t)
                                \/ RecoverRefused(t)
        PROVE  OneClaim'
    <2>1. tasks' \subseteq tasks /\ UNCHANGED <<hosts, key>>
      BY <1>7 DEF StartRaises, RecoverGivesUp, AnnounceClosing, RecoverRefused
    <2> QED
      BY <2>1, <1>c
  <1>9. ASSUME NEW t \in tasks, TryStart(t) PROVE OneClaim'
    <2> DEFINE u == [t EXCEPT !.op = "start"]
    <2>1. CASE t.cid \in key
      BY <1>9, <1>c, <2>1 DEF TryStart
    <2>2. CASE t.cid \notin key
      <3>1. /\ tasks' = (tasks \ {t}) \cup {u} /\ key' = key \cup {t.cid} /\ UNCHANGED hosts
        BY <1>9, <2>2 DEF TryStart
      <3>2. u.cid = t.cid /\ t.cid \in Cids
        BY <1>b, OpChanged
      <3> HIDE DEF u
      <3>3. ClaimTasks' \subseteq ClaimTasks \cup {u}
        BY <3>1 DEF ClaimTasks
      <3>4. \A w \in ClaimTasks : w.cid # t.cid
        BY <2>2 DEF OneClaim
      <3>5. ~Hosted(t.cid)
        BY <2>2, <3>2 DEF OneClaim
      <3>6. \A k : Hosted(k)' <=> Hosted(k)
        BY <3>1 DEF Hosted
      <3>7. \A v, w \in ClaimTasks' : v.cid = w.cid => v = w
        BY <3>2, <3>3, <3>4 DEF OneClaim
      <3>8. \A w \in ClaimTasks' : w.cid \in key' /\ ~Hosted(w.cid)'
        BY <3>1, <3>2, <3>3, <3>5, <3>6 DEF OneClaim
      <3>9. \A k \in Cids, s1, s2 \in Servers : <<s1, k>> \in hosts' /\ <<s2, k>> \in hosts' => s1 = s2
        BY <3>1 DEF OneClaim
      <3>10. \A k \in Cids : Hosted(k)' => k \in key'
        BY <3>1, <3>6 DEF OneClaim
      <3> QED
        BY <3>7, <3>8, <3>9, <3>10 DEF OneClaim
    <2> QED
      BY <2>1, <2>2
  <1>10. ASSUME NEW t \in tasks, Register(t) PROVE OneClaim'
    <2>1. t \in ClaimTasks /\ tasks' = tasks \ {t} /\ UNCHANGED key
          /\ hosts' = hosts \cup {<<t.srv, t.cid>>}
      BY <1>10 DEF Register, ClaimTasks
    <2>2. ClaimTasks' = ClaimTasks \ {t}
      BY <2>1 DEF ClaimTasks
    <2>3. t.srv \in Servers /\ t.cid \in Cids /\ t.cid \in key
          /\ \A s \in Servers : <<s, t.cid>> \notin hosts
      BY <1>b, <2>1 DEF OneClaim, Hosted
    <2>4. \A k : Hosted(k)' => Hosted(k) \/ k = t.cid
      BY <2>1 DEF Hosted
    <2>5. \A v, w \in ClaimTasks' : v.cid = w.cid => v = w
      BY <2>2 DEF OneClaim
    <2>6. \A w \in ClaimTasks' : w.cid \in key' /\ ~Hosted(w.cid)'
      BY <2>1, <2>2, <2>4 DEF OneClaim
    <2>7. \A k \in Cids, s1, s2 \in Servers : <<s1, k>> \in hosts' /\ <<s2, k>> \in hosts' => s1 = s2
      BY <2>1, <2>3 DEF OneClaim
    <2>8. \A k \in Cids : Hosted(k)' => k \in key'
      BY <2>1, <2>3, <2>4 DEF OneClaim
    <2> QED
      BY <2>5, <2>6, <2>7, <2>8 DEF OneClaim
  <1>11. ASSUME NEW t \in tasks, PopSession(t) PROVE OneClaim'
    <2> DEFINE u == [t EXCEPT !.op = "delete"]
    <2>1. hosts' = hosts \ {<<t.srv, t.cid>>} /\ UNCHANGED key
      BY <1>11 DEF PopSession
    <2>2. CASE <<t.srv, t.cid>> \notin hosts
      <3>1. tasks' \subseteq tasks
        BY <1>11, <2>2 DEF PopSession
      <3> QED
        BY <1>c, <2>1, <3>1
    <2>3. CASE <<t.srv, t.cid>> \in hosts
      <3>1. tasks' = (tasks \ {t}) \cup {u}
        BY <1>11, <2>3 DEF PopSession
      <3>2. u.cid = t.cid /\ t.cid \in Cids /\ t.srv \in Servers
        BY <1>b, OpChanged
      <3> HIDE DEF u
      <3>3. ClaimTasks' \subseteq ClaimTasks \cup {u}
        BY <3>1 DEF ClaimTasks
      <3>4. Hosted(t.cid) /\ t.cid \in key
        BY <2>3, <3>2 DEF Hosted, OneClaim
      <3>5. \A w \in ClaimTasks : w.cid # t.cid
        BY <3>4 DEF OneClaim
      <3>6. ~Hosted(t.cid)' /\ \A k : Hosted(k)' => Hosted(k)
        BY <2>1, <2>3, <3>2 DEF Hosted, OneClaim
      <3>7. \A v, w \in ClaimTasks' : v.cid = w.cid => v = w
        BY <3>2, <3>3, <3>5 DEF OneClaim
      <3>8. \A w \in ClaimTasks' : w.cid \in key' /\ ~Hosted(w.cid)'
        BY <2>1, <3>2, <3>3, <3>4, <3>6 DEF OneClaim
      <3>9. \A k \in Cids, s1, s2 \in Servers : <<s1, k>> \in hosts' /\ <<s2, k>> \in hosts' => s1 = s2
        BY <2>1 DEF OneClaim
      <3>10. \A k \in Cids : Hosted(k)' => k \in key'
        BY <2>1, <3>6 DEF OneClaim
      <3> QED
        BY <3>7, <3>8, <3>9, <3>10 DEF OneClaim
    <2> QED
      BY <2>2, <2>3
  <1>12. ASSUME NEW t \in tasks, DeleteKeys(t) PROVE OneClaim'
    <2> DEFINE u == [t EXCEPT !.op = "publish"]
    <2>1. t \in ClaimTasks /\ key' = key \ {t.cid} /\ tasks' = (tasks \ {t}) \cup {u} /\ UNCHANGED hosts
      BY <1>12 DEF DeleteKeys, ClaimTasks
    <2>2. u.op = "publish"
      BY <1>b, OpChanged
    <2> HIDE DEF u
    <2>3. ClaimTasks' \subseteq ClaimTasks \ {t}
      BY <2>1, <2>2 DEF ClaimTasks
    <2>4. ~Hosted(t.cid)' /\ \A w \in ClaimTasks' : w.cid # t.cid
      BY <2>1, <2>3 DEF OneClaim, Hosted
    <2> QED
      BY <2>1, <2>3, <2>4, ClaimsKept
  <1>15. ASSUME NEW s \in Servers, Listen(s) PROVE OneClaim'
    <2>1. UNCHANGED <<hosts, key>>
      BY <1>15 DEF Listen
    <2>2. \A t \in tasks' \ tasks : t.op \in {"pop", "recover"}
      BY <1>15, ListenFacts
    <2> QED
      BY <2>1, <2>2, <1>c
  <1>16. ASSUME NEW s \in Servers, BuildRefresh(s) \/ ExecuteRefresh(s) \/ Boot(s) PROVE OneClaim'
    <2>1. UNCHANGED <<tasks, hosts>> /\ key \subseteq key'
      BY <1>16 DEF BuildRefresh, ExecuteRefresh, Boot
    <2> QED
      BY <2>1, <1>c
  <1>19. ASSUME NEW s \in Servers, Crash(s) PROVE OneClaim'
    BY <1>19, <1>c DEF Crash
  <1>20. ASSUME NEW k \in Cids, KeyExpires(k) PROVE OneClaim'
    <2>1. /\ UNCHANGED <<tasks, hosts>> /\ key' = key \ {k}
          /\ ~Hosted(k) /\ \A t \in ClaimTasks : t.cid # k
      BY <1>20 DEF KeyExpires, ClaimTasks
    <2>2. ClaimTasks' = ClaimTasks /\ ~Hosted(k)'
      BY <2>1 DEF ClaimTasks, Hosted
    <2> QED
      BY <2>1, <2>2, ClaimsKept
  <1>21. CASE UNCHANGED clusterVars
    BY <1>21, <1>c DEF clusterVars
  <1> QED
    BY <1>1, <1>2, <1>4, <1>6, <1>7, <1>9, <1>10, <1>11, <1>12, <1>15, <1>16, <1>19, <1>20, <1>21
    DEF ClusterNext, ServerStep, TaskStep

-----------------------------------------------------------------------------
(* Messages and events.                                                    *)

(* No event is sent, no event moves ahead in a channel, no server becomes  *)
(* a host.                                                                 *)
LEMMA MessagesKept ==
    ASSUME MessagesAreEvents, MessagesOnce, UNCHANGED events, hosts' \subseteq hosts,
           \A s \in Servers : \A i \in 1 .. Len(chan'[s]) : chan'[s][i].type = "event" =>
              i \in 1 .. Len(chan[s]) /\ chan'[s][i] = chan[s][i]
    PROVE  /\ MessagesAreEvents' /\ MessagesOnce'
           /\ DispatchedIsGone => DispatchedIsGone'
  <1>1. \A s \in Servers : \A i \in 1 .. Len(chan'[s]) : \A e : Carries(s, i, e)' =>
           i \in 1 .. Len(chan[s]) /\ Carries(s, i, e)
    BY DEF Carries
  <1>2. MessagesAreEvents'
    BY DEF MessagesAreEvents
  <1>3. MessagesOnce'
    BY <1>1 DEF MessagesOnce
  <1>4. DispatchedIsGone => DispatchedIsGone'
    BY <1>1 DEF DispatchedIsGone
  <1> QED
    BY <1>2, <1>3, <1>4

LEMMA SendStep ==
    ASSUME ClusterTypeOK, MessagesAreEvents, MessagesOnce, NEW c \in Clients, SendEvent(c)
    PROVE  /\ MessagesAreEvents' /\ MessagesOnce'
           /\ DispatchedIsGone => DispatchedIsGone'
  <1> DEFINE k == at[c][2]
             local == at[c] \in hosts
             n == Len(events) + 1
             x == [cid |-> k, times |-> IF local THEN 1 ELSE 0, moved |-> FALSE]
             m == [type |-> "event", cid |-> k, event |-> n]
  <1>1. k \in Cids /\ UNCHANGED hosts
    BY DEF SendEvent, ClusterTypeOK
  <1>2. x \in EventType /\ events \in Seq(EventType) /\ events' = Append(events, x)
    BY <1>1 DEF SendEvent, ClusterTypeOK, EventType
  <1>3. x.cid = k /\ x.times = (IF local THEN 1 ELSE 0) /\ ~x.moved
    OBVIOUS
  <1>4. m.type = "event" /\ m.cid = k /\ m.event = n
    OBVIOUS
  <1>5. Len(events) \in Nat /\ Len(events) < MaxEvents
    BY <1>2, LenProperties DEF SendEvent
  <1>6. m \in MessageType
    BY <1>1, <1>5, ClusterAssumption DEF MessageType
  <1>7. IF local THEN UNCHANGED chan ELSE Publish(m)
    BY DEF SendEvent
  <1> HIDE DEF x, m
  <1>8. /\ Len(events') = n /\ events'[n] = x
        /\ \A e \in 1 .. Len(events) : events'[e] = events[e]
    BY <1>2, AppendProperties
  <1>9. \A s \in Servers : Len(chan[s]) \in Nat
    BY LenProperties DEF ClusterTypeOK
  <1> HIDE DEF k, local
  <1>10. \A s \in Servers : \A i \in 1 .. Len(chan'[s]) :
            \/ i \in 1 .. Len(chan[s]) /\ chan'[s][i] = chan[s][i]
            \/ ~local /\ i = Len(chan[s]) + 1 /\ chan'[s][i] = m
    <2>1. CASE local
      BY <1>7, <2>1
    <2>2. CASE ~local
      <3>1. /\ \A s \in Servers : s \notin up => chan'[s] = chan[s]
            /\ \A s \in Servers : s \in up =>
                  /\ Len(chan'[s]) = Len(chan[s]) + 1
                  /\ chan'[s][Len(chan[s]) + 1] = m
                  /\ \A i \in 1 .. Len(chan[s]) : chan'[s][i] = chan[s][i]
        BY <1>6, <1>7, <2>2, PublishType
      <3> QED
        BY <1>9, <2>2, <3>1
    <2> QED
      BY <2>1, <2>2
  <1>11. MessagesAreEvents'
    <2> SUFFICES ASSUME NEW s \in Servers, NEW i \in 1 .. Len(chan'[s]), chan'[s][i].type = "event"
                 PROVE  /\ chan'[s][i].event \in 1 .. Len(events')
                        /\ events'[chan'[s][i].event].cid = chan'[s][i].cid
      BY DEF MessagesAreEvents
    <2>1. CASE chan'[s][i] = m
      BY <1>3, <1>4, <1>5, <1>8, <2>1
    <2>2. CASE i \in 1 .. Len(chan[s]) /\ chan'[s][i] = chan[s][i]
      <3>1. chan[s][i].event \in 1 .. Len(events) /\ events[chan[s][i].event].cid = chan[s][i].cid
        BY <2>2 DEF MessagesAreEvents
      <3> QED
        BY <1>5, <1>8, <2>2, <3>1
    <2> QED
      BY <1>10, <2>1, <2>2
  (* The message of the new event is the last one; the others are not of it. *)
  <1>12. \A s \in Servers : \A i \in 1 .. Len(chan'[s]) : \A e : Carries(s, i, e)' =>
            \/ i \in 1 .. Len(chan[s]) /\ Carries(s, i, e) /\ e \in 1 .. Len(events)
            \/ ~local /\ i = Len(chan[s]) + 1 /\ e = n
    BY <1>4, <1>10 DEF Carries, MessagesAreEvents
  <1>13. MessagesOnce'
    <2> SUFFICES ASSUME NEW s \in Servers, NEW i \in 1 .. Len(chan'[s]), NEW j \in 1 .. Len(chan'[s]),
                        NEW e, Carries(s, i, e)', Carries(s, j, e)'
                 PROVE  i = j
      BY DEF MessagesOnce
    <2>1. n \notin 1 .. Len(events)
      BY <1>5
    <2> HIDE DEF n
    <2> QED
      BY <1>12, <2>1 DEF MessagesOnce
  <1>14. ASSUME DispatchedIsGone PROVE DispatchedIsGone'
    <2> SUFFICES ASSUME NEW e \in 1 .. n, ~events'[e].moved, events'[e].times # 0
                 PROVE  /\ events'[e].times = 1
                        /\ \A s \in Servers : \A i \in 1 .. Len(chan'[s]) :
                              <<s, events'[e].cid>> \in hosts' => ~Carries(s, i, e)'
      BY <1>8 DEF DispatchedIsGone
    <2>1. CASE e = n
      <3>1. local /\ events'[e].times = 1
        BY <1>3, <1>8, <2>1
      <3>2. n \notin 1 .. Len(events)
        BY <1>5
      <3> QED
        BY <1>12, <2>1, <3>1, <3>2
    <2>2. CASE e # n
      <3>1. e \in 1 .. Len(events) /\ events'[e] = events[e]
        BY <1>5, <1>8, <2>2
      <3> HIDE DEF n
      <3> QED
        BY <1>1, <1>12, <1>14, <2>2, <3>1 DEF DispatchedIsGone
    <2> QED
      BY <2>1, <2>2
  <1> QED
    BY <1>11, <1>13, <1>14

LEMMA RegisterStep ==
    ASSUME ClusterTypeOK, MessagesAreEvents, MessagesOnce, NEW t \in tasks, Register(t)
    PROVE  /\ MessagesAreEvents' /\ MessagesOnce'
           /\ DispatchedIsGone => DispatchedIsGone'
  <1>0. events \in Seq(EventType)
    BY DEF ClusterTypeOK, EventType
  <1>1. DOMAIN events = 1 .. Len(events) /\ Len(events) \in Nat
        /\ \A e \in DOMAIN events : events[e] \in EventType
    BY <1>0, LenProperties, ElementOfSeq
  <1>2. events' = [e \in 1 .. Len(events) |->
           IF events[e].cid = t.cid THEN [events[e] EXCEPT !.moved = TRUE] ELSE events[e]]
    BY <1>1 DEF Register
  <1>3. Len(events') = Len(events)
    BY <1>1, <1>2
  <1>4. \A e \in 1 .. Len(events) :
           /\ events'[e].cid = events[e].cid /\ events'[e].times = events[e].times
           /\ ~events'[e].moved => ~events[e].moved /\ events[e].cid # t.cid
    BY <1>1, <1>2 DEF EventType
  <1>5. UNCHANGED chan /\ hosts' = hosts \cup {<<t.srv, t.cid>>}
    BY DEF Register
  <1>6. \A s, i, e : Carries(s, i, e)' <=> Carries(s, i, e)
    BY <1>5 DEF Carries
  <1>7. MessagesAreEvents'
    BY <1>3, <1>4, <1>5 DEF MessagesAreEvents
  <1>8. MessagesOnce'
    BY <1>3, <1>5, <1>6 DEF MessagesOnce
  <1>9. ASSUME DispatchedIsGone PROVE DispatchedIsGone'
    BY <1>3, <1>4, <1>5, <1>6, <1>9 DEF DispatchedIsGone
  <1> QED
    BY <1>7, <1>8, <1>9

LEMMA ListenStep ==
    ASSUME ClusterTypeOK, MessagesAreEvents, MessagesOnce, NEW s \in Servers, Listen(s)
    PROVE  /\ MessagesAreEvents' /\ MessagesOnce'
           /\ OneClaim /\ DispatchedIsGone => DispatchedIsGone'
  <1> DEFINE m == Head(chan[s])
             n == m.event
  <1>1. /\ \A q \in Servers : q # s => chan'[q] = chan[q]
        /\ Len(chan'[s]) = Len(chan[s]) - 1 /\ Len(chan[s]) \in Nat
        /\ \A i \in 1 .. Len(chan'[s]) : chan'[s][i] = chan[s][i + 1]
        /\ m = chan[s][1] /\ 1 \in 1 .. Len(chan[s])
        /\ m.cid \in Cids
    BY ListenFacts, LenProperties DEF MessageType
  <1>2. UNCHANGED hosts /\ events' = IF m.type = "event" /\ <<s, m.cid>> \in hosts
                                    THEN [events EXCEPT ![n].times = @ + 1] ELSE events
    BY DEF Listen
  <1>3. /\ DOMAIN events = 1 .. Len(events) /\ Len(events) \in Nat
        /\ \A e \in 1 .. Len(events) : events[e] \in EventType
    <2>1. events \in Seq(EventType)
      BY DEF ClusterTypeOK, EventType
    <2> QED
      BY <2>1, LenProperties, ElementOfSeq
  <1>4. m.type = "event" => n \in 1 .. Len(events) /\ events[n].cid = m.cid /\ Carries(s, 1, n)
    BY <1>1 DEF MessagesAreEvents, Carries
  <1> HIDE DEF m
  <1>5. /\ Len(events') = Len(events)
        /\ \A e \in 1 .. Len(events) :
              /\ events'[e].cid = events[e].cid /\ events'[e].moved = events[e].moved
              /\ events'[e].times = IF m.type = "event" /\ <<s, m.cid>> \in hosts /\ e = n
                                    THEN events[e].times + 1 ELSE events[e].times
    <2>1. CASE UNCHANGED events /\ ~(m.type = "event" /\ <<s, m.cid>> \in hosts)
      BY <2>1
    <2>2. CASE /\ m.type = "event" /\ <<s, m.cid>> \in hosts
               /\ events' = [events EXCEPT ![n].times = @ + 1]
      <3> DEFINE x == [events[n] EXCEPT !.times = events[n].times + 1]
      <3>1. n \in 1 .. Len(events) /\ events[n] \in EventType
        BY <1>3, <1>4, <2>2
      <3>2. x \in EventType /\ x.cid = events[n].cid /\ x.moved = events[n].moved
            /\ x.times = events[n].times + 1
        BY <3>1 DEF EventType
      <3>3. events' = [events EXCEPT ![n] = x] /\ events \in Seq(EventType)
        BY <2>2 DEF ClusterTypeOK, EventType
      <3> HIDE DEF x, n
      <3>4. /\ Len(events') = Len(events)
            /\ \A e \in 1 .. Len(events) : events'[e] = IF e = n THEN x ELSE events[e]
        BY <3>1, <3>2, <3>3, ExceptSeq
      <3> QED
        BY <2>2, <3>2, <3>4
    <2> QED
      BY <1>2, <2>1, <2>2
  (* What a channel carries, it carried before, one place further behind. *)
  <1>6. \A q \in Servers : \A i \in 1 .. Len(chan'[q]) :
           IF q = s THEN i + 1 \in 1 .. Len(chan[q]) /\ i + 1 # 1 /\ chan'[q][i] = chan[q][i + 1]
           ELSE i \in 1 .. Len(chan[q]) /\ chan'[q][i] = chan[q][i]
    BY <1>1
  <1>7. \A q \in Servers : \A i \in 1 .. Len(chan'[q]) : \A e : Carries(q, i, e)' =>
           IF q = s THEN i + 1 \in 1 .. Len(chan[q]) /\ i + 1 # 1 /\ Carries(q, i + 1, e)
           ELSE i \in 1 .. Len(chan[q]) /\ Carries(q, i, e)
    BY <1>6 DEF Carries
  <1>8. MessagesAreEvents'
    <2> SUFFICES ASSUME NEW q \in Servers, NEW i \in 1 .. Len(chan'[q]), chan'[q][i].type = "event"
                 PROVE  /\ chan'[q][i].event \in 1 .. Len(events)
                        /\ events'[chan'[q][i].event].cid = chan'[q][i].cid
      BY <1>5 DEF MessagesAreEvents
    <2>1. PICK j \in 1 .. Len(chan[q]) : chan'[q][i] = chan[q][j]
      BY <1>6
    <2> QED
      BY <1>5, <2>1 DEF MessagesAreEvents
  <1>9. MessagesOnce'
    <2> SUFFICES ASSUME NEW q \in Servers, NEW i \in 1 .. Len(chan'[q]), NEW j \in 1 .. Len(chan'[q]),
                        NEW e \in 1 .. Len(events), Carries(q, i, e)', Carries(q, j, e)'
                 PROVE  i = j
      BY <1>5 DEF MessagesOnce
    <2>1. CASE q = s
      <3>1. /\ i + 1 \in 1 .. Len(chan[q]) /\ j + 1 \in 1 .. Len(chan[q])
            /\ Carries(q, i + 1, e) /\ Carries(q, j + 1, e)
        BY <1>7, <2>1
      <3>2. i + 1 = j + 1
        BY <3>1 DEF MessagesOnce
      <3> QED
        BY <3>2
    <2>2. CASE q # s
      BY <1>7, <2>2 DEF MessagesOnce
    <2> QED
      BY <2>1, <2>2
  <1>10. ASSUME OneClaim, DispatchedIsGone PROVE DispatchedIsGone'
    <2> SUFFICES ASSUME NEW e \in 1 .. Len(events'), ~events'[e].moved, events'[e].times # 0
                 PROVE  /\ events'[e].times = 1
                        /\ \A q \in Servers : \A i \in 1 .. Len(chan'[q]) :
                              <<q, events'[e].cid>> \in hosts' => ~Carries(q, i, e)'
      BY DEF DispatchedIsGone
    <2>a. /\ e \in 1 .. Len(events) /\ ~events[e].moved /\ events'[e].cid = events[e].cid
          /\ UNCHANGED hosts
      BY <1>2, <1>5
    <2>0. events[e].cid \in Cids /\ events[e].times \in Nat
      BY <1>3, <2>a DEF EventType
    <2>1. CASE m.type = "event" /\ <<s, m.cid>> \in hosts /\ e = n
      <3>1. events[e].cid = m.cid /\ Carries(s, 1, e)
        BY <1>4, <2>1
      <3>2. events[e].times = 0
        BY <1>1, <1>10, <2>a, <2>1, <3>1 DEF DispatchedIsGone
      <3>3. events'[e].times = 1
        BY <1>5, <2>a, <2>1, <3>2
      <3>4. \A q \in Servers : <<q, events[e].cid>> \in hosts => q = s
        BY <1>10, <2>0, <2>1, <3>1 DEF OneClaim
      <3>5. \A i \in 1 .. Len(chan'[s]) : ~Carries(s, i, e)'
        BY <1>1, <1>7, <2>a, <3>1 DEF MessagesOnce
      <3> QED
        BY <2>a, <3>3, <3>4, <3>5
    <2>2. CASE ~(m.type = "event" /\ <<s, m.cid>> \in hosts /\ e = n)
      <3>1. events'[e].times = events[e].times
        BY <1>5, <2>a, <2>2
      <3>2. /\ events[e].times = 1
            /\ \A q \in Servers : \A i \in 1 .. Len(chan[q]) :
                  <<q, events[e].cid>> \in hosts => ~Carries(q, i, e)
        BY <1>10, <2>a, <3>1 DEF DispatchedIsGone
      <3> QED
        BY <1>7, <2>a, <3>1, <3>2
    <2> QED
      BY <2>1, <2>2
  <1> QED
    BY <1>8, <1>9, <1>10

LEMMA MessageStep ==
    ASSUME ClusterTypeOK, MessagesAreEvents, MessagesOnce, [ClusterNext]_clusterVars
    PROVE  /\ MessagesAreEvents' /\ MessagesOnce'
           /\ OneClaim /\ DispatchedIsGone => DispatchedIsGone'
  <1> DEFINE Goal == /\ MessagesAreEvents' /\ MessagesOnce'
                     /\ OneClaim /\ DispatchedIsGone => DispatchedIsGone'
  <1>a. ASSUME UNCHANGED <<chan, events>>, hosts' \subseteq hosts PROVE Goal
    BY <1>a, MessagesKept
  <1>b. ASSUME NEW m \in MessageType, m.type # "event", Publish(m), UNCHANGED <<events, hosts>>
        PROVE  Goal
    <2>1. /\ \A s \in Servers : s \notin up => chan'[s] = chan[s]
          /\ \A s \in Servers : s \in up =>
                /\ Len(chan'[s]) = Len(chan[s]) + 1
                /\ chan'[s][Len(chan[s]) + 1] = m
                /\ \A i \in 1 .. Len(chan[s]) : chan'[s][i] = chan[s][i]
      BY <1>b, PublishType
    <2>2. \A s \in Servers : Len(chan[s]) \in Nat
      BY LenProperties DEF ClusterTypeOK
    <2>3. \A s \in Servers : \A i \in 1 .. Len(chan'[s]) : chan'[s][i].type = "event" =>
             i \in 1 .. Len(chan[s]) /\ chan'[s][i] = chan[s][i]
      BY <1>b, <2>1, <2>2
    <2> QED
      BY <1>b, <2>3, MessagesKept
  <1>1. ASSUME NEW c \in Clients, NEW s \in Servers, NEW k \in Cids, ClientJoins(c, s, k) PROVE Goal
    BY <1>1, <1>a DEF ClientJoins
  <1>2. ASSUME NEW c \in Clients, ClientLeaves(c) PROVE Goal
    BY <1>2, <1>a DEF ClientLeaves
  <1>3. ASSUME NEW c \in Clients, SendEvent(c) PROVE Goal
    BY <1>3, SendStep
  <1>4. ASSUME NEW s \in Servers, NEW k \in Cids, StopConversation(s, k) PROVE Goal
    <2> DEFINE m == [type |-> "close_session", cid |-> k, event |-> 0]
    <2>1. m \in MessageType /\ m.type # "event"
      BY ClusterAssumption DEF MessageType
    <2> HIDE DEF Goal
    <2> QED
      BY <1>4, <1>b, <2>1 DEF StopConversation
  <1>5. ASSUME NEW s \in Servers, NEW k \in Cids, CloseIdle(s, k) \/ FindStopped(s, k) PROVE Goal
    BY <1>5, <1>a DEF CloseIdle, FindStopped
  <1>6. ASSUME NEW t \in tasks, \/ StartRaises(t) \/ RecoverGivesUp(t) \/ TryStart(t)
                                \/ PopSession(t) \/ DeleteKeys(t) \/ RecoverRefused(t)
        PROVE  Goal
    <2>1. UNCHANGED <<chan, events>> /\ hosts' \subseteq hosts
      BY <1>6 DEF StartRaises, RecoverGivesUp, TryStart, PopSession, DeleteKeys, RecoverRefused
    <2> HIDE DEF Goal
    <2> QED
      BY <1>a, <2>1
  <1>7. ASSUME NEW t \in tasks, Register(t) PROVE Goal
    BY <1>7, RegisterStep
  <1>8. ASSUME NEW t \in tasks, AnnounceClosing(t) PROVE Goal
    <2> DEFINE m == [type |-> "session_closing", cid |-> t.cid, event |-> 0]
    <2>1. m \in MessageType /\ m.type # "event"
      BY ClusterAssumption DEF MessageType, ClusterTypeOK, TaskType
    <2> HIDE DEF Goal
    <2> QED
      BY <1>8, <1>b, <2>1 DEF AnnounceClosing
  <1>9. ASSUME NEW s \in Servers, Listen(s) PROVE Goal
    BY <1>9, ListenStep
  <1>10. ASSUME NEW s \in Servers, BuildRefresh(s) \/ ExecuteRefresh(s) \/ Boot(s) PROVE Goal
    BY <1>10, <1>a DEF BuildRefresh, ExecuteRefresh, Boot
  <1>11. ASSUME NEW s \in Servers, Crash(s) PROVE Goal
    <2>1. UNCHANGED events /\ hosts' \subseteq hosts
          /\ \A q \in Servers : chan'[q] = chan[q] \/ chan'[q] = <<>>
      BY <1>11 DEF Crash, ClusterTypeOK
    <2>2. \A q \in Servers : \A i \in 1 .. Len(chan'[q]) : chan'[q][i].type = "event" =>
             i \in 1 .. Len(chan[q]) /\ chan'[q][i] = chan[q][i]
      BY <2>1
    <2> QED
      BY <2>1, <2>2, MessagesKept
  <1>12. ASSUME NEW k \in Cids, KeyExpires(k) PROVE Goal
    BY <1>12, <1>a DEF KeyExpires
  <1>13. ASSUME UNCHANGED clusterVars PROVE Goal
    BY <1>13, <1>a DEF clusterVars
  <1> HIDE DEF Goal
  <1>14. Goal
    BY <1>1, <1>2, <1>3, <1>4, <1>5, <1>6, <1>7, <1>8, <1>9, <1>10, <1>11, <1>12, <1>13
    DEF ClusterNext, ServerStep, TaskStep
  <1> QED
    BY <1>14 DEF Goal

-----------------------------------------------------------------------------
(* Clustered servers: whatever number of servers, conversations and        *)
(* clients, a conversation runs on one server, which holds its key, and an *)
(* event is dispatched once (maybe_start_agent_loop, _close_session,       *)
(* _process_message), across crashes and recoveries.                       *)
THEOREM ClusterCorrect == ClusterSpec => []ClusterTypeOK /\ []OneLoopPerConversation
  <1>1. ClusterInit => ClusterInv
    <2> SUFFICES ASSUME ClusterInit PROVE ClusterInv
      OBVIOUS
    <2>1. ClusterTypeOK
      BY ClusterAssumption DEF ClusterInit, ClusterTypeOK, Nowhere
    <2>2. OneClaim
      BY DEF ClusterInit, OneClaim, ClaimTasks, Hosted
    <2>3. MessagesAreEvents /\ MessagesOnce /\ DispatchedIsGone
      BY DEF ClusterInit, MessagesAreEvents, MessagesOnce, DispatchedIsGone, Carries
    <2> QED
      BY <2>1, <2>2, <2>3 DEF ClusterInv
  <1>2. ClusterInv /\ [ClusterNext]_clusterVars => ClusterInv'
    BY ClusterTypeStep, ClaimStep, MessageStep DEF ClusterInv
  <1>3. ClusterInv => ClusterTypeOK /\ OneLoopPerConversation
    <2> SUFFICES ASSUME ClusterInv PROVE OneLoopPerConversation
      BY DEF ClusterInv
    <2>1. OneHost /\ LoopHoldsKey
      BY DEF ClusterInv, OneClaim, OneHost, LoopHoldsKey
    <2>2. EventDispatchedOnce
      BY DEF ClusterInv, DispatchedIsGone, EventDispatchedOnce
    <2> QED
      BY <2>1, <2>2 DEF OneLoopPerConversation
  <1> QED
    BY <1>1, <1>2, <1>3, PTL DEF ClusterSpec

-----------------------------------------------------------------------------
(* Nested conversations: one start for each, and the limit.                *)

Asks(r, s) == asking[r] # NotAsking /\ asking[r].sid = s
Starts(r, s) == starting[r] # NotStarting /\ starting[r].sid = s

(* One call for a conversation at a time; it found no key and there is none *)
(* yet, or it ends without a start.                                         *)
OneAsks ==
    \A s \in Nested \ unsettled : \A r \in Starters : Asks(r, s) =>
        /\ \A q \in Starters : Asks(q, s) => q = r
        /\ asking[r].pc = "mark" \/ ~asking[r].key => s \notin startKeys

(* A call does not ask while its start goes on. *)
AskOrStart == \A r \in Starters : asking[r] = NotAsking \/ starting[r] = NotStarting

OneStarts == \A s \in Nested \ unsettled : \A q, r \in Starters : Starts(q, s) /\ Starts(r, s) => q = r

KeyIsStart == \A s \in Nested \ unsettled : s \in startKeys <=> \E r \in Starters : Starts(r, s)

(* Unless starts overlap there is one, and what it has yet to close counts *)
(* as closed.                                                              *)
RoomToStart ==
    ~crowded =>
        /\ Cardinality(Counted) <= MaxRunning
        /\ \A q, r \in Starters : starting[q] # NotStarting /\ starting[r] # NotStarting => q = r
        /\ \A r \in Starters : starting[r].pc = "close" =>
              Cardinality(Counted \ starting[r].close) < MaxRunning

(* A conversation that runs and is not recent has been forgotten. *)
OldForgotten == \A s \in Nested \ recent : nested[s] = "running" => s \in forgotten

NestedInv ==
    /\ NestedTypeOK /\ OneAsks /\ AskOrStart /\ OneStarts /\ KeyIsStart /\ RoomToStart
    /\ OldForgotten

LEMMA AskShape ==
    ASSUME NestedTypeOK, NEW r \in Starters, asking[r].pc # "idle"
    PROVE  /\ asking[r] \in [pc : {"runtime", "mark"}, sid : Nested, key : BOOLEAN]
           /\ asking[r] # NotAsking /\ asking[r].sid \in Nested
  BY DEF NestedTypeOK, AskType, NotAsking

LEMMA StartShape ==
    ASSUME NestedTypeOK, NEW r \in Starters
    PROVE  /\ starting[r] # NotStarting <=> starting[r].pc # "idle"
           /\ starting[r].pc # "idle" =>
                 /\ starting[r] \in [pc : {"limit", "close", "converse", "delete"}, sid : Nested,
                                     close : SUBSET Nested]
                 /\ starting[r].sid \in Nested
  <1>1. CASE starting[r] = NotStarting
    BY <1>1 DEF NotStarting
  <1>2. CASE starting[r] # NotStarting
    <2>1. starting[r] \in [pc : {"limit", "close", "converse", "delete"}, sid : Nested, close : SUBSET Nested]
      BY <1>2 DEF NestedTypeOK, StartType
    <2> QED
      BY <1>2, <2>1
  <1> QED
    BY <1>1, <1>2

LEMMA RunningFinite ==
    ASSUME NEW S \in SUBSET Nested, NEW T \in SUBSET S
    PROVE  /\ IsFiniteSet(S) /\ IsFiniteSet(T) /\ Cardinality(S) \in Nat /\ Cardinality(T) \in Nat
           /\ Cardinality(T) <= Cardinality(S)
           /\ Cardinality(S \ T) = Cardinality(S) - Cardinality(T)
  <1>1. IsFiniteSet(S) /\ IsFiniteSet(T) /\ S \cap T = T /\ Cardinality(T) <= Cardinality(S)
    BY NestedAssumption, FS_Subset
  <1> QED
    BY <1>1, FS_Difference, FS_CardinalityType

(* A start that keeps its conversation and its key, and a runtime that only *)
(* stops.                                                                   *)
LEMMA StartMoves ==
    ASSUME NestedInv, UNCHANGED <<startKeys, asking, asks, unsettled>>,
           starting' \in [Starters -> StartType],
           nested' \in [Nested -> {"none", "running", "paused"}],
           \A r \in Starters :
              /\ starting'[r] # NotStarting <=> starting[r] # NotStarting
              /\ starting[r] # NotStarting => starting'[r].sid = starting[r].sid
              /\ starting'[r].pc \in {"limit", "converse", "delete"} => starting'[r].close = {},
           RoomToStart', OldForgotten', crowded' \in BOOLEAN, recent' \subseteq Nested,
           forgotten' \subseteq Nested
    PROVE  NestedInv'
  <1>1. NestedTypeOK'
    BY DEF NestedInv, NestedTypeOK
  <1>2. \A r \in Starters : \A s \in Nested : Starts(r, s)' <=> Starts(r, s)
    BY DEF Starts
  <1>3. (OneAsks /\ AskOrStart)'
    BY DEF NestedInv, OneAsks, AskOrStart, Asks
  <1>4. (OneStarts /\ KeyIsStart)'
    BY <1>2 DEF NestedInv, OneStarts, KeyIsStart
  <1> QED
    BY <1>1, <1>3, <1>4 DEF NestedInv

LEMMA OldForgottenStep ==
    ASSUME NestedInv, [NestedNext]_nestedVars
    PROVE  OldForgotten'
  <1>b. /\ nested \in [Nested -> {"none", "running", "paused"}]
        /\ recent \subseteq Nested /\ forgotten \subseteq Nested /\ OldForgotten
    BY DEF NestedInv, NestedTypeOK
  <1>1. CASE UNCHANGED <<nested, recent, forgotten>>
    BY <1>b, <1>1 DEF OldForgotten
  <1>2. ASSUME NEW r \in Starters, ConnectRuntime(r) PROVE OldForgotten'
    BY <1>b, <1>2 DEF ConnectRuntime, OldForgotten
  <1>3. ASSUME NEW r \in Starters, NEW s \in Nested, PauseOld(r, s) PROVE OldForgotten'
    BY <1>b, <1>3 DEF PauseOld, OldForgotten
  <1>4. ASSUME NEW s \in Nested, RuntimeStops(s) PROVE OldForgotten'
    BY <1>b, <1>4 DEF RuntimeStops, OldForgotten
  <1>5. ASSUME NEW s \in Nested, WeekPasses(s) \/ RowUpdated(s) PROVE OldForgotten'
    BY <1>b, <1>5 DEF WeekPasses, RowUpdated, OldForgotten
  <1> QED
    BY <1>1, <1>2, <1>3, <1>4, <1>5 DEF NestedNext, nestedVars, ReadKey, ReadRuntime, MarkStarting,
       EnsureLimit, LeaveStart, DeleteKey, StarterCrashes, StartKeyExpires

LEMMA NestedInvStep ==
    ASSUME NestedInv, [NestedNext]_nestedVars
    PROVE  NestedInv'
  <1>a. NestedTypeOK
    BY DEF NestedInv
  <1>b. /\ startKeys \subseteq Nested
        /\ nested \in [Nested -> {"none", "running", "paused"}]
        /\ asking \in [Starters -> AskType] /\ starting \in [Starters -> StartType]
        /\ \A r \in Starters :
              starting[r].pc \in {"limit", "converse", "delete"} => starting[r].close = {}
        /\ asks \in 0 .. MaxAsks
        /\ unsettled \subseteq Nested /\ crowded \in BOOLEAN
        /\ recent \subseteq Nested /\ forgotten \subseteq Nested
    BY <1>a DEF NestedTypeOK
  <1>c. Counted \subseteq Nested /\ MaxRunning \in Nat /\ MaxRunning > 0
    BY NestedAssumption DEF Counted
  <1>d. NotAsking \in AskType /\ NotStarting \in StartType
    BY DEF AskType, StartType
  <1>o. OldForgotten'
    BY OldForgottenStep
  <1>1. ASSUME NEW r \in Starters, NEW s \in Nested, ReadKey(r, s) PROVE NestedInv'
    <2>1. PICK x : x = [pc |-> "runtime", sid |-> s, key |-> s \in startKeys]
      OBVIOUS
    <2>2. /\ x \in AskType /\ x # NotAsking /\ x.pc = "runtime" /\ x.sid = s
          /\ x.key <=> s \in startKeys
      <3>1. (s \in startKeys) \in BOOLEAN
        OBVIOUS
      <3>2. PICK b \in BOOLEAN : b = (s \in startKeys)
        BY <3>1
      <3>3. x = [pc |-> "runtime", sid |-> s, key |-> b]
        BY <2>1, <3>2
      <3>4. x \in AskType /\ x # NotAsking /\ x.pc = "runtime" /\ x.sid = s /\ x.key = b
        BY <3>3 DEF AskType, NotAsking
      <3> QED
        BY <3>2, <3>4
    <2>3. /\ asking[r] = NotAsking /\ starting[r] = NotStarting /\ asks < MaxAsks /\ asks' = asks + 1
          /\ asking' = [asking EXCEPT ![r] = x]
          /\ unsettled' = IF \E q \in Starters : Asks(q, s) THEN unsettled \cup {s} ELSE unsettled
          /\ UNCHANGED <<startKeys, nested, starting, crowded, recent, forgotten>>
      BY <1>1, <2>1 DEF ReadKey, Asks
    <2>4. \A q \in Starters : asking'[q] = IF q = r THEN x ELSE asking[q]
      BY <1>b, <2>3
    <2>5. NestedTypeOK'
      <3>1. asks' \in 0 .. MaxAsks
        BY <1>b, <2>3, NestedAssumption
      <3> QED
        BY <1>b, <2>2, <2>3, <3>1 DEF NestedTypeOK
    <2>6. OneAsks'
      <3> SUFFICES ASSUME NEW t \in Nested, t \notin unsettled', NEW q \in Starters, Asks(q, t)'
                   PROVE  /\ \A p \in Starters : Asks(p, t)' => p = q
                          /\ asking'[q].pc = "mark" \/ ~asking'[q].key => t \notin startKeys'
        BY DEF OneAsks
      <3>1. t \notin unsettled
        BY <2>3
      <3>2. CASE t = s
        <4>1. \A p \in Starters : ~Asks(p, s)
          BY <2>3, <3>1, <3>2
        <4>2. q = r
          BY <2>4, <3>2, <4>1 DEF Asks
        <4> QED
          BY <2>2, <2>3, <2>4, <3>2, <4>1, <4>2 DEF Asks
      <3>3. CASE t # s
        <4>1. \A p \in Starters : Asks(p, t)' => p # r /\ asking'[p] = asking[p] /\ Asks(p, t)
          BY <2>2, <2>4, <3>3 DEF Asks
        <4> QED
          BY <2>3, <3>1, <4>1 DEF NestedInv, OneAsks
      <3> QED
        BY <3>2, <3>3
    <2>7. AskOrStart'
      BY <2>3, <2>4 DEF NestedInv, AskOrStart
    <2>8. unsettled \subseteq unsettled'
      BY <2>3
    <2>9. (OneStarts /\ KeyIsStart)'
      BY <2>3, <2>8 DEF NestedInv, OneStarts, KeyIsStart, Starts
    <2>10. RoomToStart'
      BY <2>3 DEF NestedInv, RoomToStart, Counted
    <2> QED
      BY <1>o, <2>5, <2>6, <2>7, <2>9, <2>10 DEF NestedInv
  <1>2. ASSUME NEW r \in Starters, ReadRuntime(r) PROVE NestedInv'
    <2>1. /\ asking[r].pc = "runtime" /\ UNCHANGED <<startKeys, nested, starting, asks, unsettled, crowded, recent, forgotten>>
          /\ \/ asking' = [asking EXCEPT ![r] = NotAsking]
             \/ ~asking[r].key /\ asking' = [asking EXCEPT ![r].pc = "mark"]
      BY <1>2 DEF ReadRuntime
    <2>2. /\ asking[r] \in [pc : {"runtime", "mark"}, sid : Nested, key : BOOLEAN]
          /\ asking[r] # NotAsking
      BY <1>a, <2>1, AskShape
    <2>3. PICK x \in AskType :
             /\ asking' = [asking EXCEPT ![r] = x]
             /\ \/ x = NotAsking
                \/ ~asking[r].key /\ x.sid = asking[r].sid
      <3>1. CASE asking' = [asking EXCEPT ![r] = NotAsking]
        BY <1>d, <3>1
      <3>2. CASE ~asking[r].key /\ asking' = [asking EXCEPT ![r].pc = "mark"]
        <4> DEFINE x == [asking[r] EXCEPT !.pc = "mark"]
        <4>1. x \in AskType /\ x.sid = asking[r].sid
          BY <2>2 DEF AskType
        <4>2. asking' = [asking EXCEPT ![r] = x]
          BY <1>b, <3>2
        <4> HIDE DEF x
        <4> QED
          BY <3>2, <4>1, <4>2
      <3> QED
        BY <2>1, <3>1, <3>2
    <2>4. \A q \in Starters : asking'[q] = IF q = r THEN x ELSE asking[q]
      BY <1>b, <2>3
    <2>5. NestedTypeOK'
      BY <1>b, <2>1, <2>3 DEF NestedTypeOK
    <2>6. OneAsks'
      <3>1. \A q \in Starters : \A s \in Nested :
               Asks(q, s)' => Asks(q, s) /\ (asking'[q] = asking[q] \/ ~asking[q].key)
        BY <2>2, <2>3, <2>4 DEF Asks
      <3> QED
        BY <2>1, <3>1 DEF NestedInv, OneAsks
    <2>7. AskOrStart'
      BY <2>1, <2>2, <2>4 DEF NestedInv, AskOrStart
    <2>8. (OneStarts /\ KeyIsStart)'
      BY <2>1 DEF NestedInv, OneStarts, KeyIsStart, Starts
    <2>9. RoomToStart'
      BY <2>1 DEF NestedInv, RoomToStart, Counted
    <2> QED
      BY <1>o, <2>5, <2>6, <2>7, <2>8, <2>9 DEF NestedInv
  <1>3. ASSUME NEW r \in Starters, MarkStarting(r) PROVE NestedInv'
    <2>1. PICK s : s = asking[r].sid
      OBVIOUS
    <2>2. PICK x : x = [pc |-> "limit", sid |-> s, close |-> {}]
      OBVIOUS
    <2>3. /\ asking[r].pc = "mark" /\ startKeys' = startKeys \cup {s}
          /\ asking' = [asking EXCEPT ![r] = NotAsking]
          /\ starting' = [starting EXCEPT ![r] = x]
          /\ crowded' = (crowded \/ \E q \in Starters : starting[q] # NotStarting)
          /\ UNCHANGED <<nested, asks, unsettled, recent, forgotten>>
      BY <1>3, <2>1, <2>2 DEF MarkStarting
    <2>4. s \in Nested /\ Asks(r, s) /\ starting[r] = NotStarting
      BY <1>a, <2>1, <2>3, AskShape DEF Asks, NestedInv, AskOrStart
    <2>5. x \in StartType /\ x # NotStarting /\ x.sid = s /\ x.pc = "limit" /\ x.close = {}
      BY <2>2, <2>4 DEF StartType, NotStarting
    <2>6. /\ \A q \in Starters : asking'[q] = IF q = r THEN NotAsking ELSE asking[q]
          /\ \A q \in Starters : starting'[q] = IF q = r THEN x ELSE starting[q]
      BY <1>b, <2>3
    <2>7. NestedTypeOK'
      <3>1. asking' \in [Starters -> AskType] /\ starting' \in [Starters -> StartType]
        BY <1>b, <1>d, <2>3, <2>5
      <3> QED
        BY <1>b, <2>3, <2>4, <2>5, <2>6, <3>1 DEF NestedTypeOK
    <2>8. s \notin unsettled =>
             s \notin startKeys /\ \A q \in Starters : ~Starts(q, s)
      BY <2>1, <2>3, <2>4 DEF NestedInv, OneAsks, KeyIsStart
    <2>9. OneAsks'
      <3>1. \A q \in Starters : \A t \in Nested :
               Asks(q, t)' => q # r /\ Asks(q, t) /\ asking'[q] = asking[q]
        BY <2>6 DEF Asks
      <3>2. \A q \in Starters : \A t \in Nested \ unsettled : Asks(q, t)' => t # s
        BY <2>4, <3>1 DEF NestedInv, OneAsks
      <3> QED
        BY <2>3, <3>1, <3>2 DEF NestedInv, OneAsks
    <2>10. AskOrStart'
      BY <2>6 DEF NestedInv, AskOrStart
    <2>11. \A q \in Starters : \A t \in Nested : Starts(q, t)' <=> IF q = r THEN t = s ELSE Starts(q, t)
      BY <2>5, <2>6 DEF Starts
    <2>12. OneStarts'
      BY <2>3, <2>8, <2>11 DEF NestedInv, OneStarts
    <2>13. KeyIsStart'
      <3>1. \A t \in Nested : ~Starts(r, t)
        BY <2>4 DEF Starts
      <3> QED
        BY <2>3, <2>4, <2>11, <3>1 DEF NestedInv, KeyIsStart
    <2>14. RoomToStart'
      <3> SUFFICES ASSUME ~crowded'
                   PROVE  /\ Cardinality(Counted') <= MaxRunning
                          /\ \A q, p \in Starters : starting'[q] # NotStarting /\ starting'[p] # NotStarting => q = p
                          /\ \A q \in Starters : starting'[q].pc # "close"
        BY DEF RoomToStart
      <3>1. ~crowded /\ \A q \in Starters : starting[q] = NotStarting
        BY <2>3
      <3>2. Counted' = Counted
        BY <2>3 DEF Counted
      <3> QED
        BY <2>5, <2>6, <3>1, <3>2 DEF NestedInv, RoomToStart, NotStarting
    <2> QED
      BY <1>o, <2>7, <2>9, <2>10, <2>12, <2>13, <2>14 DEF NestedInv
  <1>e. ASSUME NEW r \in Starters, NEW x, starting[r] # NotStarting,
               x \in [pc : {"limit", "close", "converse", "delete"}, sid : Nested, close : SUBSET Nested],
               x.sid = starting[r].sid, x.pc \in {"limit", "converse", "delete"} => x.close = {},
               starting' = [starting EXCEPT ![r] = x]
        PROVE  /\ starting' \in [Starters -> StartType]
               /\ \A q \in Starters : starting'[q] = IF q = r THEN x ELSE starting[q]
               /\ \A q \in Starters :
                     /\ starting'[q] # NotStarting <=> starting[q] # NotStarting
                     /\ starting[q] # NotStarting => starting'[q].sid = starting[q].sid
                     /\ starting'[q].pc \in {"limit", "converse", "delete"} => starting'[q].close = {}
    <2>1. x \in StartType /\ x # NotStarting
      BY <1>e DEF StartType, NotStarting
    <2>2. starting' \in [Starters -> StartType] /\ \A q \in Starters : starting'[q] = IF q = r THEN x ELSE starting[q]
      BY <1>b, <1>e, <2>1
    <2> QED
      BY <1>b, <1>e, <2>1, <2>2
  <1>f. ASSUME NEW r \in Starters, starting[r] # NotStarting, ~crowded
        PROVE  \A q \in Starters : q # r => starting[q].pc = "idle"
    BY <1>a, <1>f, StartShape DEF NestedInv, RoomToStart
  <1>4. ASSUME NEW r \in Starters, EnsureLimit(r) PROVE NestedInv'
    <2>1. PICK old \in SUBSET RunningLoops :
             /\ Cardinality(old) = IF TooMany > 0 THEN TooMany ELSE 0
             /\ starting' = [starting EXCEPT ![r].pc = "close", ![r].close = old]
      BY <1>4 DEF EnsureLimit
    <2>2. starting[r].pc = "limit" /\ UNCHANGED <<startKeys, nested, asking, asks, unsettled, crowded, recent, forgotten>>
      BY <1>4 DEF EnsureLimit
    <2>3. PICK x : x = [starting[r] EXCEPT !.pc = "close", !.close = old]
      OBVIOUS
    <2>4. /\ starting[r] \in [pc : {"limit", "close", "converse", "delete"}, sid : Nested, close : SUBSET Nested]
          /\ starting[r] # NotStarting
      BY <1>a, <2>2, StartShape
    <2>5. /\ x \in [pc : {"limit", "close", "converse", "delete"}, sid : Nested, close : SUBSET Nested]
          /\ x.sid = starting[r].sid /\ x.pc = "close" /\ x.close = old
          /\ starting' = [starting EXCEPT ![r] = x]
      BY <1>b, <1>c, <2>1, <2>3, <2>4 DEF RunningLoops
    <2>6. /\ starting' \in [Starters -> StartType]
          /\ \A q \in Starters : starting'[q] = IF q = r THEN x ELSE starting[q]
          /\ \A q \in Starters :
                /\ starting'[q] # NotStarting <=> starting[q] # NotStarting
                /\ starting[q] # NotStarting => starting'[q].sid = starting[q].sid
                /\ starting'[q].pc \in {"limit", "converse", "delete"} => starting'[q].close = {}
      BY <1>e, <2>4, <2>5
    <2>7. Cardinality(Counted \ old) < MaxRunning
      <3>0. RunningLoops \subseteq Nested /\ Counted \subseteq RunningLoops
        BY <1>b DEF NestedInv, OldForgotten, RunningLoops, Counted
      <3>1. /\ Cardinality(RunningLoops \ old) = Cardinality(RunningLoops) - Cardinality(old)
            /\ Cardinality(RunningLoops) \in Nat /\ Cardinality(old) \in Nat
        BY <2>1, <3>0, RunningFinite
      <3>2. Cardinality(old) >= Cardinality(RunningLoops) - MaxRunning + 1
        BY <1>c, <2>1, <3>1 DEF TooMany
      <3>3. /\ Cardinality(Counted \ old) <= Cardinality(RunningLoops \ old)
            /\ Cardinality(Counted \ old) \in Nat
        <4>1. Counted \ old \subseteq RunningLoops \ old /\ RunningLoops \ old \subseteq Nested
          BY <3>0
        <4> QED
          BY <4>1, RunningFinite
      <3> QED
        BY <1>c, <3>1, <3>2, <3>3
    <2>8. RoomToStart'
      <3>1. Counted' = Counted
        BY <2>2 DEF Counted
      <3> QED
        BY <1>f, <2>2, <2>4, <2>5, <2>6, <2>7, <3>1 DEF NestedInv, RoomToStart
    <2> QED
      BY <1>o, <1>b, <2>2, <2>6, <2>8, StartMoves
  <1>5. ASSUME NEW r \in Starters, NEW s \in Nested, PauseOld(r, s) PROVE NestedInv'
    <2>1. /\ starting[r].pc = "close" /\ s \in starting[r].close
          /\ starting' = [starting EXCEPT ![r].close = @ \ {s}]
          /\ UNCHANGED <<startKeys, asking, asks, unsettled, recent, forgotten>>
          /\ \/ nested' = [nested EXCEPT ![s] = IF @ = "running" THEN "paused" ELSE @] /\ crowded' = crowded
             \/ crowded' = TRUE /\ nested' = nested
      BY <1>5 DEF PauseOld
    <2>2. PICK x : x = [starting[r] EXCEPT !.close = @ \ {s}]
      OBVIOUS
    <2>3. /\ starting[r] \in [pc : {"limit", "close", "converse", "delete"}, sid : Nested, close : SUBSET Nested]
          /\ starting[r] # NotStarting
      BY <1>a, <2>1, StartShape
    <2>4. /\ x \in [pc : {"limit", "close", "converse", "delete"}, sid : Nested, close : SUBSET Nested]
          /\ x.sid = starting[r].sid /\ x.pc = "close" /\ x.close = starting[r].close \ {s}
          /\ starting' = [starting EXCEPT ![r] = x]
      BY <1>b, <2>1, <2>2, <2>3
    <2>5. /\ starting' \in [Starters -> StartType]
          /\ \A q \in Starters : starting'[q] = IF q = r THEN x ELSE starting[q]
          /\ \A q \in Starters :
                /\ starting'[q] # NotStarting <=> starting[q] # NotStarting
                /\ starting[q] # NotStarting => starting'[q].sid = starting[q].sid
                /\ starting'[q].pc \in {"limit", "converse", "delete"} => starting'[q].close = {}
      BY <1>e, <2>3, <2>4
    <2>6. nested' \in [Nested -> {"none", "running", "paused"}] /\ crowded' \in BOOLEAN
      BY <1>b, <2>1
    <2>7. ASSUME ~crowded' PROVE RoomToStart'
      <3>1. ~crowded /\ nested' = [nested EXCEPT ![s] = IF @ = "running" THEN "paused" ELSE @]
        BY <2>1, <2>7
      <3>2. Counted' = Counted \ {s}
        BY <1>b, <2>1, <3>1 DEF Counted
      <3>3. /\ Counted' \subseteq Counted
            /\ Counted' \ x.close \subseteq Counted \ starting[r].close
            /\ Counted \ starting[r].close \subseteq Nested
        BY <1>c, <2>4, <3>2
      <3>4. /\ Cardinality(Counted') <= Cardinality(Counted)
            /\ Cardinality(Counted' \ x.close) <= Cardinality(Counted \ starting[r].close)
            /\ Cardinality(Counted) \in Nat /\ Cardinality(Counted') \in Nat
            /\ Cardinality(Counted' \ x.close) \in Nat
            /\ Cardinality(Counted \ starting[r].close) \in Nat
        BY <1>c, <3>3, RunningFinite
      <3>5. Cardinality(Counted) <= MaxRunning /\ Cardinality(Counted \ starting[r].close) < MaxRunning
        BY <2>1, <3>1 DEF NestedInv, RoomToStart
      <3>6. \A q \in Starters : starting'[q].pc = "close" => q = r
        BY <1>f, <2>3, <2>5, <3>1
      <3>7. \A p, q \in Starters : starting'[p] # NotStarting /\ starting'[q] # NotStarting => p = q
        BY <2>5, <3>1 DEF NestedInv, RoomToStart
      <3>8. Cardinality(Counted') <= MaxRunning /\ Cardinality(Counted' \ x.close) < MaxRunning
        BY <1>c, <3>4, <3>5
      <3>9. \A q \in Starters : starting'[q].pc = "close" =>
               Cardinality(Counted' \ starting'[q].close) < MaxRunning
        BY <2>5, <3>6, <3>8
      <3> QED
        BY <3>7, <3>8, <3>9 DEF RoomToStart
    <2>8. RoomToStart'
      BY <2>7 DEF RoomToStart
    <2> QED
      BY <1>o, <1>b, <2>1, <2>5, <2>6, <2>8, StartMoves
  <1>6. ASSUME NEW r \in Starters, ConnectRuntime(r) PROVE NestedInv'
    <2>1. /\ starting[r].pc = "close" /\ starting[r].close = {}
          /\ nested' = [nested EXCEPT ![starting[r].sid] = "running"]
          /\ starting' = [starting EXCEPT ![r].pc = "converse"]
          /\ forgotten' \in {forgotten \ {starting[r].sid}, forgotten \cup {starting[r].sid}}
          /\ UNCHANGED <<startKeys, asking, asks, unsettled, crowded, recent>>
      BY <1>6 DEF ConnectRuntime
    <2>2. PICK x : x = [starting[r] EXCEPT !.pc = "converse"]
      OBVIOUS
    <2>3. /\ starting[r] \in [pc : {"limit", "close", "converse", "delete"}, sid : Nested, close : SUBSET Nested]
          /\ starting[r] # NotStarting /\ starting[r].sid \in Nested
      BY <1>a, <2>1, StartShape
    <2>4. /\ x \in [pc : {"limit", "close", "converse", "delete"}, sid : Nested, close : SUBSET Nested]
          /\ x.sid = starting[r].sid /\ x.pc = "converse" /\ x.close = {}
          /\ starting' = [starting EXCEPT ![r] = x]
      BY <1>b, <2>1, <2>2, <2>3
    <2>5. /\ starting' \in [Starters -> StartType]
          /\ \A q \in Starters : starting'[q] = IF q = r THEN x ELSE starting[q]
          /\ \A q \in Starters :
                /\ starting'[q] # NotStarting <=> starting[q] # NotStarting
                /\ starting[q] # NotStarting => starting'[q].sid = starting[q].sid
                /\ starting'[q].pc \in {"limit", "converse", "delete"} => starting'[q].close = {}
      BY <1>e, <2>3, <2>4
    <2>6. nested' \in [Nested -> {"none", "running", "paused"}] /\ forgotten' \subseteq Nested
      BY <1>b, <2>1, <2>3
    <2>7. ASSUME ~crowded PROVE RoomToStart'
      <3>1. Counted' \subseteq Counted \cup {starting[r].sid}
        BY <1>b, <2>1, <2>3 DEF Counted
      <3>2. Cardinality(Counted) < MaxRunning
        <4>1. Counted \ starting[r].close = Counted
          BY <2>1
        <4> QED
          BY <2>1, <2>7, <4>1 DEF NestedInv, RoomToStart
      <3>3. IsFiniteSet(Counted) /\ Cardinality(Counted) \in Nat
        BY <1>c, RunningFinite
      <3>4. Cardinality(Counted') <= MaxRunning
        <4>0. /\ IsFiniteSet(Counted \cup {starting[r].sid})
              /\ \/ Cardinality(Counted \cup {starting[r].sid}) = Cardinality(Counted)
                 \/ Cardinality(Counted \cup {starting[r].sid}) = Cardinality(Counted) + 1
          BY <3>3, FS_AddElement
        <4>1. /\ IsFiniteSet(Counted \cup {starting[r].sid})
              /\ Cardinality(Counted \cup {starting[r].sid}) \in Nat
              /\ Cardinality(Counted \cup {starting[r].sid}) <= MaxRunning
          BY <1>c, <3>2, <3>3, <4>0
        <4>2. /\ Cardinality(Counted') <= Cardinality(Counted \cup {starting[r].sid})
              /\ Cardinality(Counted') \in Nat
          BY <3>1, <4>1, FS_Subset, FS_CardinalityType
        <4> QED
          BY <1>c, <4>1, <4>2
      <3>5. \A q \in Starters : starting'[q].pc # "close"
        BY <1>f, <2>3, <2>4, <2>5, <2>7
      <3>6. \A p, q \in Starters : starting'[p] # NotStarting /\ starting'[q] # NotStarting => p = q
        BY <2>5, <2>7 DEF NestedInv, RoomToStart
      <3> QED
        BY <3>4, <3>5, <3>6 DEF RoomToStart
    <2>8. RoomToStart'
      BY <2>1, <2>7 DEF RoomToStart
    <2> QED
      BY <1>o, <1>b, <2>1, <2>5, <2>6, <2>8, StartMoves
  <1>7. ASSUME NEW r \in Starters, LeaveStart(r) PROVE NestedInv'
    <2>1. /\ starting[r] # NotStarting
          /\ starting' = [starting EXCEPT ![r].pc = "delete", ![r].close = {}]
          /\ UNCHANGED <<startKeys, nested, asking, asks, unsettled, crowded, recent, forgotten>>
      BY <1>7 DEF LeaveStart
    <2>2. PICK x : x = [starting[r] EXCEPT !.pc = "delete", !.close = {}]
      OBVIOUS
    <2>3. starting[r] \in [pc : {"limit", "close", "converse", "delete"}, sid : Nested, close : SUBSET Nested]
      BY <1>a, <2>1, StartShape
    <2>4. /\ x \in [pc : {"limit", "close", "converse", "delete"}, sid : Nested, close : SUBSET Nested]
          /\ x.sid = starting[r].sid /\ x.pc = "delete" /\ x.close = {}
          /\ starting' = [starting EXCEPT ![r] = x]
      BY <1>b, <2>1, <2>2, <2>3
    <2>5. /\ starting' \in [Starters -> StartType]
          /\ \A q \in Starters : starting'[q] = IF q = r THEN x ELSE starting[q]
          /\ \A q \in Starters :
                /\ starting'[q] # NotStarting <=> starting[q] # NotStarting
                /\ starting[q] # NotStarting => starting'[q].sid = starting[q].sid
                /\ starting'[q].pc \in {"limit", "converse", "delete"} => starting'[q].close = {}
      BY <1>e, <2>1, <2>4
    <2>6. RoomToStart'
      <3>1. Counted' = Counted
        BY <2>1 DEF Counted
      <3> QED
        BY <2>1, <2>4, <2>5, <3>1 DEF NestedInv, RoomToStart
    <2> QED
      BY <1>o, <1>b, <2>1, <2>5, <2>6, StartMoves
  (* A start is over: with its key, or in a conversation that is unsettled. *)
  <1>g. ASSUME NEW r \in Starters, starting[r] # NotStarting,
               starting' = [starting EXCEPT ![r] = NotStarting],
               \/ startKeys' = startKeys \ {starting[r].sid} /\ unsettled' = unsettled
               \/ startKeys' = startKeys /\ unsettled' = unsettled \cup {starting[r].sid},
               UNCHANGED <<nested, asking, asks, crowded, recent, forgotten>>
        PROVE  NestedInv'
    <2>1. PICK s : s = starting[r].sid
      OBVIOUS
    <2>2. s \in Nested /\ Starts(r, s)
      BY <1>a, <1>g, <2>1, StartShape DEF Starts
    <2>3. \A q \in Starters : starting'[q] = IF q = r THEN NotStarting ELSE starting[q]
      BY <1>b, <1>g
    <2>4. \A q \in Starters : \A t \in Nested : Starts(q, t)' <=> q # r /\ Starts(q, t)
      BY <2>3 DEF Starts
    <2>5. unsettled \subseteq unsettled' /\ startKeys' \subseteq startKeys
          /\ \A t \in Nested \ {s} : t \in startKeys' <=> t \in startKeys
      BY <1>g, <2>1
    <2>6. NestedTypeOK'
      <3>1. starting' \in [Starters -> StartType]
        BY <1>b, <1>d, <1>g
      <3>2. \A q \in Starters : starting'[q].pc \in {"limit", "converse", "delete"} => starting'[q].close = {}
        BY <1>b, <2>3 DEF NotStarting
      <3>3. unsettled' \subseteq Nested
        BY <1>b, <1>g, <2>1, <2>2
      <3> QED
        BY <1>b, <1>g, <2>5, <3>1, <3>2, <3>3 DEF NestedTypeOK
    <2>7. OneAsks'
      BY <1>g, <2>5 DEF NestedInv, OneAsks, Asks
    <2>8. AskOrStart'
      BY <1>g, <2>3 DEF NestedInv, AskOrStart
    <2>9. OneStarts'
      BY <2>4, <2>5 DEF NestedInv, OneStarts
    <2>10. KeyIsStart'
      <3>1. ASSUME NEW t \in Nested \ unsettled' PROVE t \in startKeys' <=> \E q \in Starters : Starts(q, t)'
        <4>1. CASE t # s
          <5>1. ~Starts(r, t)
            BY <2>1, <4>1 DEF Starts
          <5> QED
            BY <2>4, <2>5, <3>1, <4>1, <5>1 DEF NestedInv, KeyIsStart
        <4>2. CASE t = s
          <5>1. t \notin startKeys' /\ t \notin unsettled
            BY <1>g, <2>1, <3>1, <4>2
          <5>2. \A q \in Starters : ~Starts(q, t)'
            BY <2>2, <2>4, <4>2, <5>1 DEF NestedInv, OneStarts
          <5> QED
            BY <5>1, <5>2
        <4> QED
          BY <4>1, <4>2
      <3> QED
        BY <3>1 DEF KeyIsStart
    <2>11. RoomToStart'
      <3>1. Counted' = Counted
        BY <1>g DEF Counted
      <3> QED
        BY <1>g, <2>3, <3>1 DEF NestedInv, RoomToStart, NotStarting
    <2> QED
      BY <1>o, <2>6, <2>7, <2>8, <2>9, <2>10, <2>11 DEF NestedInv
  <1>8. ASSUME NEW r \in Starters, DeleteKey(r) PROVE NestedInv'
    BY <1>a, <1>8, <1>g, StartShape DEF DeleteKey
  <1>9. ASSUME NEW r \in Starters, StarterCrashes(r) PROVE NestedInv'
    BY <1>9, <1>g DEF StarterCrashes
  <1>10. ASSUME NEW s \in Nested, StartKeyExpires(s) PROVE NestedInv'
    <2>1. /\ startKeys' = startKeys \ {s} /\ unsettled' = unsettled \cup {s}
          /\ UNCHANGED <<nested, asking, starting, asks, crowded, recent, forgotten>>
      BY <1>10 DEF StartKeyExpires
    <2>2. NestedTypeOK'
      BY <1>b, <2>1 DEF NestedTypeOK
    <2>3. OneAsks' /\ AskOrStart'
      BY <2>1 DEF NestedInv, OneAsks, AskOrStart, Asks
    <2>4. OneStarts' /\ KeyIsStart'
      BY <2>1 DEF NestedInv, OneStarts, KeyIsStart, Starts
    <2>5. RoomToStart'
      BY <2>1 DEF NestedInv, RoomToStart, Counted
    <2> QED
      BY <1>o, <2>2, <2>3, <2>4, <2>5 DEF NestedInv
  (* Nothing is counted that was not, and no start moves. *)
  <1>h. ASSUME Counted' \subseteq Counted, UNCHANGED <<starting, crowded>> PROVE RoomToStart'
    <2>1. ASSUME NEW T \in SUBSET Nested
          PROVE  /\ Cardinality(Counted' \ T) <= Cardinality(Counted \ T)
                 /\ Cardinality(Counted' \ T) \in Nat /\ Cardinality(Counted \ T) \in Nat
      <3>1. Counted' \ T \subseteq Counted \ T /\ Counted \ T \subseteq Nested
        BY <1>c, <1>h
      <3> QED
        BY <3>1, RunningFinite
    <2>2. Cardinality(Counted') <= Cardinality(Counted)
          /\ Cardinality(Counted') \in Nat /\ Cardinality(Counted) \in Nat
      BY <1>c, <1>h, RunningFinite
    <2>3. ASSUME ~crowded, NEW r \in Starters, starting[r].pc = "close"
          PROVE  Cardinality(Counted' \ starting[r].close) < MaxRunning
      <3>1. Cardinality(Counted \ starting[r].close) < MaxRunning
        BY <2>3 DEF NestedInv, RoomToStart
      <3>2. starting[r].close \in SUBSET Nested
        BY <1>a, <2>3, StartShape
      <3>3. PICK a, b \in Nat : /\ a = Cardinality(Counted' \ starting[r].close)
                                /\ b = Cardinality(Counted \ starting[r].close) /\ a <= b
        BY <2>1, <3>2
      <3> QED
        BY <1>c, <3>1, <3>3
    <2>4. ~crowded => Cardinality(Counted') <= MaxRunning
      BY <1>c, <2>2 DEF NestedInv, RoomToStart
    <2> QED
      BY <1>h, <2>3, <2>4 DEF NestedInv, RoomToStart
  <1>11. ASSUME NEW s \in Nested, RuntimeStops(s) PROVE NestedInv'
    <2>1. /\ nested' \in [Nested -> {"none", "running", "paused"}]
          /\ Counted' \subseteq Counted
          /\ UNCHANGED <<startKeys, asking, starting, asks, unsettled, crowded, recent, forgotten>>
      BY <1>11, <1>b DEF RuntimeStops, Counted
    <2>2. RoomToStart'
      BY <2>1, <1>h
    <2> QED
      BY <1>o, <1>b, <2>1, <2>2, StartMoves
  <1>13. ASSUME NEW s \in Nested, WeekPasses(s) \/ RowUpdated(s) PROVE NestedInv'
    <2>1. /\ UNCHANGED <<startKeys, nested, asking, starting, asks, unsettled, crowded>>
          /\ recent' \subseteq Nested /\ forgotten' \subseteq Nested
          /\ Counted' \subseteq Counted
      BY <1>13, <1>b DEF WeekPasses, RowUpdated, Counted
    <2>2. RoomToStart'
      BY <2>1, <1>h
    <2> QED
      BY <1>o, <1>b, <2>1, <2>2, StartMoves
  <1>12. CASE UNCHANGED nestedVars
    BY <1>12 DEF nestedVars, NestedInv, NestedTypeOK, OneAsks, AskOrStart, OneStarts, KeyIsStart, RoomToStart,
                 Asks, Starts, Counted, OldForgotten
  <1> QED
    BY <1>1, <1>2, <1>3, <1>4, <1>5, <1>6, <1>7, <1>8, <1>9, <1>10, <1>11, <1>12, <1>13 DEF NestedNext

(* However many calls of maybe_start_agent_loop overlap, keys expire and   *)
(* servers stop: what is settled is started once, has its key while it is  *)
(* being started, and the limit holds, unless starts overlap or a runtime  *)
(* could not be paused, for the conversations updated in the past week.    *)
THEOREM NestedCorrect == NestedSpec => []NestedTypeOK /\ []StartsAreControlled
  <1>1. NestedInit => NestedInv
    <2> SUFFICES ASSUME NestedInit PROVE NestedInv
      OBVIOUS
    <2>1. NestedTypeOK
      <3>1. asking \in [Starters -> AskType] /\ starting \in [Starters -> StartType]
        BY DEF NestedInit, AskType, StartType
      <3>2. asks \in 0 .. MaxAsks
        BY NestedAssumption DEF NestedInit
      <3>3. \A r \in Starters : starting[r].pc = "idle"
        BY DEF NestedInit, NotStarting
      <3> QED
        BY <3>1, <3>2, <3>3 DEF NestedInit, NestedTypeOK
    <2>2. OneAsks /\ AskOrStart /\ OneStarts /\ KeyIsStart
      BY DEF NestedInit, OneAsks, AskOrStart, OneStarts, KeyIsStart, Asks, Starts
    <2>3. RoomToStart
      <3>1. Counted = {} /\ Cardinality(Counted) = 0
        <4>1. Counted = {}
          BY DEF NestedInit, Counted
        <4> QED
          BY <4>1, FS_EmptySet
      <3> QED
        BY <3>1, NestedAssumption DEF NestedInit, RoomToStart, NotStarting
    <2>4. OldForgotten
      BY DEF NestedInit, OldForgotten
    <2> QED
      BY <2>1, <2>2, <2>3, <2>4 DEF NestedInv
  <1>2. NestedInv /\ [NestedNext]_nestedVars => NestedInv'
    BY NestedInvStep
  <1>3. NestedInv => NestedTypeOK /\ StartsAreControlled
    <2> SUFFICES ASSUME NestedInv PROVE StartedOnce /\ KeyMeansStarting /\ RunningWithinLimit
      BY DEF NestedInv, StartsAreControlled
    <2>1. ASSUME NEW s \in Nested \ unsettled
          PROVE  /\ Cardinality(StartsOf(s)) <= 1
                 /\ s \in startKeys <=> StartsOf(s) # {}
      <3>1. \A r : r \in StartsOf(s) <=> r \in Starters /\ Starts(r, s)
        BY DEF StartsOf, Starts
      <3>2. CASE StartsOf(s) = {}
        BY <3>1, <3>2, FS_EmptySet DEF NestedInv, KeyIsStart
      <3>3. ASSUME NEW r, r \in StartsOf(s)
            PROVE  /\ Cardinality(StartsOf(s)) <= 1
                   /\ s \in startKeys <=> StartsOf(s) # {}
        <4>1. StartsOf(s) = {r}
          BY <3>1, <3>3 DEF NestedInv, OneStarts
        <4>2. s \in startKeys
          BY <3>1, <3>3 DEF NestedInv, KeyIsStart
        <4>3. Cardinality(StartsOf(s)) = 1
          BY <4>1, FS_Singleton
        <4> QED
          BY <4>1, <4>2, <4>3
      <3> QED
        BY <3>2, <3>3
    <2> QED
      BY <2>1 DEF StartedOnce, KeyMeansStarting, RunningWithinLimit, NestedInv, RoomToStart
  <1> QED
    BY <1>1, <1>2, <1>3, PTL DEF NestedSpec
=============================================================================
