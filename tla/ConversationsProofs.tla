------------------------ MODULE ConversationsProofs -------------------------
(***************************************************************************)
(* Proofs about the conversations of one server, for any number of         *)
(* sessions, clients, requests, sandboxes and messages:                    *)
(* TableHoldsOpenSessions and ClosedReleasesRuntime (the table of agent    *)
(* loops), AttachmentsKept (requests that attach), ReadyKeepsPromise (V1), *)
(* QueueIsFaithful (pending messages), with the types.                     *)
(*                                                                         *)
(* None of them is inductive, as each coroutine goes on after an await     *)
(* with what it saw before.  A session that is being closed belongs to one *)
(* close, which took it out of the table first.  The lock is held by the   *)
(* request that connects, the active conversation counts those attached,   *)
(* and an object that closes a session's stream was made before the        *)
(* session had its runtime.  Whatever has a V1 conversation has it in the  *)
(* sandbox of its start, and a deletion that came after the start takes    *)
(* READY back.  A queued message is found by the renaming and then read    *)
(* and settled in turn, or it came too late for it.                        *)
(***************************************************************************)
EXTENDS Sessions, Conversations, AppConversations, PendingMessages, FiniteSetTheorems,
        SequenceTheorems, TLAPS

-----------------------------------------------------------------------------
(* Sessions: the table of agent loops.                                     *)

(* A join that is under way has a conversation. *)
JoinsKnown == \A c \in Conns : joins[c].sid = "none" => joins[c] = NotJoining

(* No session in the table is being closed. *)
TableIsOpen == \A s \in Sids : loops[s] # 0 => sess[loops[s]].closing = "no"

(* A close works on the session it took, alone. *)
CloserOwns(t) ==
    t.pc # "disconnect" =>
        /\ t.obj # 0 /\ sess[t.obj].closing = "begun"
        /\ t.pc = "wait" => sess[t.obj].closed

ClosersOwn ==
    /\ \A t \in closers : CloserOwns(t)
    /\ \A t, u \in closers :
          t.pc # "disconnect" /\ u.pc # "disconnect" /\ t.obj = u.obj => t = u

(* How far a close and a start of the same session have come. *)
Settled(x) ==
    /\ x.closed => x.closing # "no"
    /\ x.stream = "closed" => x.closing = "done"
    /\ x.closing = "done" => x.closed
    /\ x.closing = "done" /\ ~x.unsaved => x.runtime # "open"
    /\ x.closing = "done" /\ ~x.unsaved /\ ~x.hasty => x.start # "connecting" /\ x.controller # "open"

ObjectsSettled == \A i \in Objects : Settled(sess[i])

SessionsInv ==
    /\ SessionsTypeOK /\ JoinsKnown /\ TableIsOpen /\ ClosersOwn /\ ObjectsSettled /\ NoSessionLost

LEMMA SessionsLens ==
    ASSUME SessionsTypeOK
    PROVE  /\ Len(sess) \in Nat /\ sess \in [1 .. Len(sess) -> SessionType]
           /\ DOMAIN sess = 1 .. Len(sess)
  <1>1. sess \in Seq(SessionType)
    BY DEF SessionsTypeOK
  <1> QED
    BY <1>1, LenProperties

(* A session object changes, but neither in its conversation nor in how    *)
(* far its close is.                                                       *)
LEMMA StartMoves ==
    ASSUME SessionsInv, NEW i \in Objects, NEW x \in SessionType,
           sess' = [sess EXCEPT ![i] = x], Settled(x),
           x.sid = sess[i].sid, x.late = sess[i].late, x.closing = sess[i].closing,
           x.closed = sess[i].closed, UNCHANGED <<loops, conns, joins, closers, calls>>
    PROVE  SessionsInv'
  <1>a. SessionsTypeOK /\ sess \in Seq(SessionType)
    BY DEF SessionsInv, SessionsTypeOK
  <1>b. Len(sess) \in Nat /\ sess \in [1 .. Len(sess) -> SessionType]
    BY <1>a, SessionsLens
  <1>1. /\ sess' \in Seq(SessionType) /\ Len(sess') = Len(sess)
        /\ \A j \in 1 .. Len(sess) : sess'[j] = IF j = i THEN x ELSE sess[j]
    BY <1>a, ExceptSeq DEF Objects
  <1>2. Objects' = Objects
    BY <1>1 DEF Objects
  <1>3. \A j \in Objects : /\ sess'[j].sid = sess[j].sid /\ sess'[j].late = sess[j].late
                           /\ sess'[j].closing = sess[j].closing
                           /\ sess'[j].closed = sess[j].closed
    BY <1>1 DEF Objects
  <1>4. \A s \in Sids : loops[s] # 0 => loops[s] \in Objects
    BY <1>a, <1>b DEF SessionsTypeOK, Objects
  <1>5. SessionsTypeOK'
    BY <1>a, <1>1, <1>3, <1>4 DEF SessionsTypeOK, CloserType
  <1>6. JoinsKnown' /\ TableIsOpen'
    BY <1>3, <1>4 DEF SessionsInv, JoinsKnown, TableIsOpen
  <1>7. ClosersOwn'
    <2>1. \A t \in closers : t.obj # 0 => t.obj \in Objects
      BY <1>a, <1>b DEF SessionsTypeOK, CloserType, Objects
    <2> QED
      BY <1>3, <2>1 DEF SessionsInv, ClosersOwn, CloserOwns
  <1>8. ObjectsSettled'
    BY <1>1, <1>2 DEF SessionsInv, ObjectsSettled, Objects
  <1>9. NoSessionLost'
    BY <1>2, <1>3 DEF SessionsInv, NoSessionLost
  <1> QED
    BY <1>5, <1>6, <1>7, <1>8, <1>9 DEF SessionsInv

(* A new session enters the table; it replaces another only late. *)
LEMMA LoopCreated ==
    ASSUME SessionsInv, NEW s \in Sids, NEW after \in BOOLEAN, CreateLoop(s, after),
           after \/ loops[s] = 0, UNCHANGED closers, calls' \in 0 .. MaxCalls,
           conns' \in [Conns -> Sids \cup {"none"}],
           joins' \in [Conns -> [sid : Sids \cup {"none"}, victims : SUBSET Sids]], JoinsKnown'
    PROVE  SessionsInv'
  <1>a. SessionsTypeOK /\ sess \in Seq(SessionType) /\ loops \in [Sids -> 0 .. Len(sess)]
    BY DEF SessionsInv, SessionsTypeOK
  <1>b. Len(sess) \in Nat /\ sess \in [1 .. Len(sess) -> SessionType]
    BY <1>a, SessionsLens
  <1>0. PICK x : x = NewSession(s, after)
    OBVIOUS
  <1>1. /\ x \in SessionType /\ Settled(x) /\ x.sid = s /\ x.late = after /\ x.closing = "no"
    BY <1>0 DEF NewSession, SessionType, Settled
  <1>2. sess' = Append(sess, x) /\ loops' = [loops EXCEPT ![s] = Len(sess) + 1]
    BY <1>0 DEF CreateLoop
  <1>3. /\ sess' \in Seq(SessionType) /\ Len(sess') = Len(sess) + 1
        /\ \A j \in 1 .. Len(sess) : sess'[j] = sess[j]
        /\ sess'[Len(sess) + 1] = x
    BY <1>a, <1>1, <1>2, AppendProperties
  <1>4. /\ Objects' = Objects \cup {Len(sess) + 1}
        /\ \A j \in Objects : j \in Nat /\ j < Len(sess) + 1 /\ sess'[j] = sess[j]
    BY <1>b, <1>3 DEF Objects
  <1>5. \A r \in Sids : loops[r] # 0 => loops[r] \in Objects
    BY <1>a, <1>b DEF Objects
  <1>6. \A r \in Sids : loops'[r] = IF r = s THEN Len(sess) + 1 ELSE loops[r]
    BY <1>a, <1>2
  <1>7. SessionsTypeOK'
    <2>1. \A t \in CloserType : t \in CloserType'
      BY <1>b, <1>3 DEF CloserType
    <2>2. loops' \in [Sids -> 0 .. Len(sess')]
      BY <1>a, <1>b, <1>2, <1>3
    <2>3. \A r \in Sids : loops'[r] # 0 => sess'[loops'[r]].sid = r
      <3>1. \A r \in Sids : loops[r] # 0 => sess[loops[r]].sid = r
        BY <1>a DEF SessionsTypeOK
      <3> SUFFICES ASSUME NEW r \in Sids, loops'[r] # 0 PROVE sess'[loops'[r]].sid = r
        OBVIOUS
      <3>2. CASE r = s
        BY <3>2, <1>1, <1>3, <1>6
      <3>3. CASE r # s
        BY <3>1, <3>3, <1>4, <1>5, <1>6
      <3> QED
        BY <3>2, <3>3
    <2> QED
      BY <1>a, <1>3, <2>1, <2>2, <2>3 DEF SessionsTypeOK
  <1>8. TableIsOpen'
    BY <1>1, <1>3, <1>4, <1>5, <1>6 DEF SessionsInv, TableIsOpen
  <1>9. ClosersOwn'
    <2>1. \A t \in closers : t.obj # 0 => t.obj \in Objects
      BY <1>a, <1>b DEF SessionsTypeOK, CloserType, Objects
    <2> QED
      BY <1>4, <2>1 DEF SessionsInv, ClosersOwn, CloserOwns
  <1>10. ObjectsSettled'
    BY <1>1, <1>3, <1>4 DEF SessionsInv, ObjectsSettled
  <1>11. NoSessionLost'
    <2> SUFFICES ASSUME NEW i \in Objects', sess'[i].closing = "no"
                 PROVE  \/ loops'[sess'[i].sid] = i
                        \/ \E j \in Objects' : j > i /\ sess'[j].sid = sess'[i].sid /\ sess'[j].late
      BY DEF NoSessionLost
    <2>1. CASE i = Len(sess) + 1
      BY <2>1, <1>1, <1>3, <1>6
    <2>2. CASE i \in Objects
      <3>1. sess'[i] = sess[i] /\ sess[i].sid \in Sids
        BY <1>b, <1>4, <2>2 DEF Objects, SessionType
      <3>2. CASE \E j \in Objects : j > i /\ sess[j].sid = sess[i].sid /\ sess[j].late
        BY <3>1, <3>2, <1>4
      <3>3. CASE loops[sess[i].sid] = i /\ sess[i].sid # s
        BY <3>1, <3>3, <1>6
      <3>4. CASE loops[sess[i].sid] = i /\ sess[i].sid = s
        <4>1. after
          BY <3>4, <2>2, <1>b DEF Objects
        <4>2. Len(sess) + 1 \in Objects' /\ Len(sess) + 1 > i
          BY <1>4, <2>2
        <4> QED
          BY <3>1, <3>4, <4>1, <4>2, <1>1, <1>3
      <3> QED
        BY <2>2, <3>1, <3>2, <3>3, <3>4 DEF SessionsInv, NoSessionLost
    <2> QED
      BY <1>4, <2>1, <2>2
  <1> QED
    BY <1>7, <1>8, <1>9, <1>10, <1>11 DEF SessionsInv

(* Calls come and go, the table and the sessions stay. *)
LEMMA CallsMove ==
    ASSUME SessionsInv, UNCHANGED <<loops, sess>>, closers' \subseteq CloserType,
           \A t \in closers' : t \in closers \/ t.pc = "disconnect",
           calls' \in 0 .. MaxCalls, conns' \in [Conns -> Sids \cup {"none"}],
           joins' \in [Conns -> [sid : Sids \cup {"none"}, victims : SUBSET Sids]], JoinsKnown'
    PROVE  SessionsInv'
  <1>1. SessionsTypeOK'
    BY DEF SessionsInv, SessionsTypeOK, CloserType
  <1>2. ClosersOwn'
    BY DEF SessionsInv, ClosersOwn, CloserOwns
  <1>3. TableIsOpen' /\ ObjectsSettled' /\ NoSessionLost'
    BY DEF SessionsInv, TableIsOpen, ObjectsSettled, Settled, NoSessionLost, Objects
  <1> QED
    BY <1>1, <1>2, <1>3 DEF SessionsInv

(* A close goes on: its session has left the table. *)
LEMMA CloseMoves ==
    ASSUME SessionsInv, NEW i \in Objects, NEW x \in SessionType,
           sess' = [sess EXCEPT ![i] = x], Settled(x),
           x.sid = sess[i].sid, x.late = sess[i].late, x.closing # "no",
           loops' \in [Sids -> 0 .. Len(sess)],
           \A s \in Sids : loops'[s] = IF loops[s] = i THEN 0 ELSE loops[s],
           closers' \subseteq CloserType, ClosersOwn', UNCHANGED <<conns, calls>>,
           joins' \in [Conns -> [sid : Sids \cup {"none"}, victims : SUBSET Sids]], JoinsKnown'
    PROVE  SessionsInv'
  <1>a. SessionsTypeOK /\ sess \in Seq(SessionType) /\ loops \in [Sids -> 0 .. Len(sess)]
    BY DEF SessionsInv, SessionsTypeOK
  <1>b. Len(sess) \in Nat /\ sess \in [1 .. Len(sess) -> SessionType]
    BY <1>a, SessionsLens
  <1>1. /\ sess' \in Seq(SessionType) /\ Len(sess') = Len(sess)
        /\ \A j \in 1 .. Len(sess) : sess'[j] = IF j = i THEN x ELSE sess[j]
    BY <1>a, ExceptSeq DEF Objects
  <1>2. Objects' = Objects
    BY <1>1 DEF Objects
  <1>3. \A j \in Objects : /\ sess'[j].sid = sess[j].sid /\ sess'[j].late = sess[j].late
                           /\ j # i => sess'[j] = sess[j]
    BY <1>1 DEF Objects
  <1>4. \A s \in Sids : loops[s] # 0 => loops[s] \in Objects
    BY <1>a, <1>b DEF Objects
  <1>5. i # 0
    BY <1>b DEF Objects
  <1>6. SessionsTypeOK'
    <2>1. \A s \in Sids : loops[s] # 0 => sess[loops[s]].sid = s
      BY <1>a DEF SessionsTypeOK
    <2>2. \A s \in Sids : loops'[s] # 0 => sess'[loops'[s]].sid = s
      BY <1>3, <1>4, <2>1
    <2> QED
      BY <1>a, <1>1, <2>2 DEF SessionsTypeOK, CloserType
  <1>8. TableIsOpen'
    BY <1>3, <1>4 DEF SessionsInv, TableIsOpen
  <1>9. ObjectsSettled'
    BY <1>1, <1>2 DEF SessionsInv, ObjectsSettled, Objects
  <1>10. NoSessionLost'
    <2> SUFFICES ASSUME NEW j \in Objects, sess'[j].closing = "no"
                 PROVE  \/ loops'[sess'[j].sid] = j
                        \/ \E k \in Objects : k > j /\ sess'[k].sid = sess'[j].sid /\ sess'[k].late
      BY <1>2 DEF NoSessionLost
    <2>1. j # i
      BY <1>1 DEF Objects
    <2>2. sess'[j] = sess[j] /\ sess[j].sid \in Sids
      BY <1>b, <1>3, <2>1 DEF Objects, SessionType
    <2>3. CASE loops[sess[j].sid] = j
      BY <2>1, <2>2, <2>3
    <2>4. CASE \E k \in Objects : k > j /\ sess[k].sid = sess[j].sid /\ sess[k].late
      BY <2>2, <2>4, <1>3
    <2> QED
      BY <2>2, <2>3, <2>4 DEF SessionsInv, NoSessionLost
  <1> QED
    BY <1>6, <1>8, <1>9, <1>10 DEF SessionsInv

LEMMA StartKeeps ==
    ASSUME SessionsInv, StartNext
    PROVE  SessionsInv'
  <1>1. PICK i \in Objects : BeginStart(i) \/ CreateController(i) \/ StartFails(i)
    BY DEF StartNext
  <1>2. sess[i] \in SessionType /\ Settled(sess[i])
    BY SessionsLens DEF SessionsInv, ObjectsSettled, Objects
  <1>3. ASSUME NEW x, SessionStep(i, x), x \in SessionType, Settled(x),
               x.sid = sess[i].sid, x.late = sess[i].late, x.closing = sess[i].closing,
               x.closed = sess[i].closed
        PROVE  SessionsInv'
    BY <1>3, StartMoves DEF SessionStep
  <1>4. ASSUME NEW q \in {"skipped", "failed"}, SessionStep(i, [sess[i] EXCEPT !.start = q])
        PROVE  SessionsInv'
    <2>1. PICK x : x = [sess[i] EXCEPT !.start = q]
      OBVIOUS
    <2>2. /\ x \in SessionType
          /\ x.sid = sess[i].sid /\ x.late = sess[i].late /\ x.closing = sess[i].closing
          /\ x.closed = sess[i].closed
      BY <1>2, <2>1 DEF SessionType
    <2>3. Settled(x)
      BY <1>2, <2>1 DEF Settled, SessionType
    <2> QED
      BY <1>3, <1>4, <2>1, <2>2, <2>3
  <1>5. ASSUME ~sess[i].closed,
               SessionStep(i, [sess[i] EXCEPT !.runtime = "open", !.start = "connecting"])
        PROVE  SessionsInv'
    <2>1. PICK x : x = [sess[i] EXCEPT !.runtime = "open", !.start = "connecting"]
      OBVIOUS
    <2>2. /\ x \in SessionType
          /\ x.sid = sess[i].sid /\ x.late = sess[i].late /\ x.closing = sess[i].closing
          /\ x.closed = sess[i].closed
      BY <1>2, <2>1 DEF SessionType
    <2>3. Settled(x)
      BY <1>2, <1>5, <2>1 DEF Settled, SessionType
    <2> QED
      BY <1>3, <1>5, <2>1, <2>2, <2>3
  <1>6. CASE CreateController(i)
    <2>1. PICK x : x = [sess[i] EXCEPT !.controller = "open", !.start = "done"]
      OBVIOUS
    <2>2. /\ x \in SessionType
          /\ x.sid = sess[i].sid /\ x.late = sess[i].late /\ x.closing = sess[i].closing
          /\ x.closed = sess[i].closed
      BY <1>2, <2>1 DEF SessionType
    <2>3. Settled(x)
      BY <1>2, <1>6, <2>1 DEF Settled, CreateController, Starting, SessionType
    <2> QED
      BY <1>3, <1>6, <2>1, <2>2, <2>3 DEF CreateController
  <1> QED
    BY <1>1, <1>4, <1>5, <1>6 DEF BeginStart, StartFails

LEMMA JoinKeeps ==
    ASSUME SessionsInv, NEW c \in Conns, NEW s \in Sids, JoinConversation(c, s)
    PROVE  SessionsInv'
  <1>a. /\ conns \in [Conns -> Sids \cup {"none"}]
        /\ joins \in [Conns -> [sid : Sids \cup {"none"}, victims : SUBSET Sids]]
        /\ calls \in 0 .. MaxCalls /\ closers \subseteq CloserType /\ JoinsKnown
    BY DEF SessionsInv, SessionsTypeOK
  <1>b. /\ calls' \in 0 .. MaxCalls /\ conns' \in [Conns -> Sids \cup {"none"}]
        /\ UNCHANGED closers
    BY <1>a, SessionsAssumption DEF JoinConversation, Called
  <1>1. CASE loops[s] # 0 /\ UNCHANGED <<loops, joins, sess>>
    <2>1. JoinsKnown'
      BY <1>a, <1>1 DEF JoinsKnown, NotJoining
    <2> QED
      BY <1>a, <1>b, <1>1, <2>1, CallsMove
  <1>2. CASE loops[s] = 0 /\ CreateLoop(s, FALSE) /\ UNCHANGED joins
    <2>1. JoinsKnown'
      BY <1>a, <1>2 DEF JoinsKnown, NotJoining
    <2> QED
      BY <1>a, <1>b, <1>2, <2>1, LoopCreated
  <1>3. ASSUME NEW V \in SUBSET Running, UNCHANGED <<loops, sess>>,
               joins' = [joins EXCEPT ![c] = [sid |-> s, victims |-> V]]
        PROVE  SessionsInv'
    <2>1. /\ joins' \in [Conns -> [sid : Sids \cup {"none"}, victims : SUBSET Sids]]
          /\ JoinsKnown'
      BY <1>a, <1>3, SessionsAssumption DEF JoinsKnown, NotJoining, Running
    <2> QED
      BY <1>a, <1>b, <1>3, <2>1, CallsMove
  <1> QED
    BY <1>1, <1>2, <1>3 DEF JoinConversation

LEMMA EvictionKeeps ==
    ASSUME SessionsInv, NEW c \in Conns, EvictOne(c) \/ FinishJoin(c)
    PROVE  SessionsInv'
  <1>a. /\ conns \in [Conns -> Sids \cup {"none"}] /\ loops \in [Sids -> 0 .. Len(sess)]
        /\ joins \in [Conns -> [sid : Sids \cup {"none"}, victims : SUBSET Sids]]
        /\ calls \in 0 .. MaxCalls /\ closers \subseteq CloserType /\ JoinsKnown
    BY DEF SessionsInv, SessionsTypeOK
  <1>b. Len(sess) \in Nat
    BY SessionsLens DEF SessionsInv
  <1>1. CASE EvictOne(c)
    <2>1. PICK v \in joins[c].victims :
             /\ joins' = [joins EXCEPT ![c].victims = @ \ {v}]
             /\ closers' = IF loops[v] = 0 THEN closers ELSE closers \cup {CloseTask(c, v)}
      BY <1>1 DEF EvictOne
    <2>2. joins[c].victims # {} /\ UNCHANGED <<loops, conns, sess, calls>>
      BY <1>1 DEF EvictOne
    <2>3. joins[c].sid # "none" /\ v \in Sids
      BY <1>a, <2>2 DEF JoinsKnown, NotJoining
    <2>4. /\ joins' \in [Conns -> [sid : Sids \cup {"none"}, victims : SUBSET Sids]]
          /\ JoinsKnown'
      BY <1>a, <2>1, <2>3 DEF JoinsKnown, NotJoining
    <2>5. CloseTask(c, v) \in CloserType /\ CloseTask(c, v).pc = "disconnect"
      BY <1>b, <2>3 DEF CloseTask, CloserType, ConnectedTo
    <2>6. closers' \subseteq CloserType /\ \A t \in closers' : t \in closers \/ t.pc = "disconnect"
      BY <1>a, <2>1, <2>5
    <2> QED
      BY <1>a, <2>2, <2>4, <2>6, CallsMove
  <1>2. CASE FinishJoin(c)
    <2>1. joins[c].sid \in Sids
      BY <1>a, <1>2 DEF FinishJoin, JoinsKnown
    <2>2. /\ joins' \in [Conns -> [sid : Sids \cup {"none"}, victims : SUBSET Sids]]
          /\ JoinsKnown'
      BY <1>a, <1>2 DEF FinishJoin, JoinsKnown, NotJoining
    <2> QED
      BY <1>a, <1>2, <2>1, <2>2, LoopCreated DEF FinishJoin
  <1> QED
    BY <1>1, <1>2

LEMMA CallKeeps ==
    ASSUME SessionsInv,
           \/ \E c \in Conns : Disconnect(c)
           \/ \E s \in Sids : UserCloses(s)
           \/ \E S \in SUBSET Sids : CleanupRound(S)
    PROVE  SessionsInv'
  <1>a. /\ conns \in [Conns -> Sids \cup {"none"}] /\ loops \in [Sids -> 0 .. Len(sess)]
        /\ joins \in [Conns -> [sid : Sids \cup {"none"}, victims : SUBSET Sids]]
        /\ calls \in 0 .. MaxCalls /\ closers \subseteq CloserType /\ JoinsKnown
    BY DEF SessionsInv, SessionsTypeOK
  <1>b. Len(sess) \in Nat
    BY SessionsLens DEF SessionsInv
  <1>c. calls' \in 0 .. MaxCalls /\ UNCHANGED <<loops, joins, sess>>
    BY <1>a, SessionsAssumption DEF Disconnect, UserCloses, CleanupRound, Called
  <1>d. JoinsKnown'
    BY <1>a, <1>c DEF JoinsKnown, NotJoining
  <1>e. \A by \in Conns \cup {"user", "cleanup"}, s \in Sids :
           CloseTask(by, s) \in CloserType /\ CloseTask(by, s).pc = "disconnect"
    BY <1>b DEF CloseTask, CloserType, ConnectedTo
  <1>1. ASSUME NEW c \in Conns, Disconnect(c) PROVE SessionsInv'
    <2>1. conns' \in [Conns -> Sids \cup {"none"}] /\ UNCHANGED closers
      BY <1>a, <1>1 DEF Disconnect
    <2> QED
      BY <1>a, <1>c, <1>d, <2>1, CallsMove
  <1>2. ASSUME NEW s \in Sids, UserCloses(s) PROVE SessionsInv'
    <2>1. UNCHANGED conns /\ closers' = closers \cup {CloseTask("user", s)}
      BY <1>2 DEF UserCloses
    <2>2. closers' \subseteq CloserType /\ \A t \in closers' : t \in closers \/ t.pc = "disconnect"
      BY <1>a, <1>e, <2>1
    <2> QED
      BY <1>a, <1>c, <1>d, <2>1, <2>2, CallsMove
  <1>3. ASSUME NEW S \in SUBSET Sids, CleanupRound(S) PROVE SessionsInv'
    <2>1. UNCHANGED conns /\ closers' = closers \cup {CloseTask("cleanup", s) : s \in S}
      BY <1>3 DEF CleanupRound
    <2>2. closers' \subseteq CloserType /\ \A t \in closers' : t \in closers \/ t.pc = "disconnect"
      BY <1>a, <1>e, <2>1
    <2> QED
      BY <1>a, <1>c, <1>d, <2>1, <2>2, CallsMove
  <1> QED
    BY <1>1, <1>2, <1>3

LEMMA CloseKeeps ==
    ASSUME SessionsInv, CloseNext
    PROVE  SessionsInv'
  <1>a. /\ conns \in [Conns -> Sids \cup {"none"}] /\ loops \in [Sids -> 0 .. Len(sess)]
        /\ joins \in [Conns -> [sid : Sids \cup {"none"}, victims : SUBSET Sids]]
        /\ calls \in 0 .. MaxCalls /\ closers \subseteq CloserType /\ JoinsKnown
        /\ sess \in Seq(SessionType)
    BY DEF SessionsInv, SessionsTypeOK
  <1>b. Len(sess) \in Nat /\ sess \in [1 .. Len(sess) -> SessionType] /\ DOMAIN sess = 1 .. Len(sess)
    BY SessionsLens DEF SessionsInv
  <1>c. \A i \in Objects : i # 0 /\ sess[i] \in SessionType /\ Settled(sess[i])
    BY <1>b DEF SessionsInv, ObjectsSettled, Objects
  <1>0. PICK t \in closers :
           \/ \E c \in t.left : DisconnectOne(t, c)
           \/ TakeSession(t) \/ MarkClosed(t) \/ FinishClose(t) \/ CloseFails(t)
    BY DEF CloseNext
  <1>t. t \in CloserType /\ t.sid \in Sids /\ CloserOwns(t)
    BY <1>0, <1>a DEF CloserType, SessionsInv, ClosersOwn
  <1>1. ASSUME NEW c \in t.left, DisconnectOne(t, c) PROVE SessionsInv'
    <2>0. PICK u : u = [t EXCEPT !.left = @ \ {c}]
      OBVIOUS
    <2>1. u \in CloserType /\ u.pc = "disconnect"
      BY <1>t, <1>1, <2>0 DEF CloserType, DisconnectOne
    <2>2. /\ closers' = (closers \ {t}) \cup {u}
          /\ UNCHANGED <<loops, joins, sess, calls>>
          /\ conns' \in [Conns -> Sids \cup {"none"}]
      BY <1>a, <1>1, <2>0 DEF DisconnectOne
    <2>3. JoinsKnown'
      BY <1>a, <2>2 DEF JoinsKnown, NotJoining
    <2>4. closers' \subseteq CloserType /\ \A v \in closers' : v \in closers \/ v.pc = "disconnect"
      BY <1>a, <2>1, <2>2
    <2> QED
      BY <1>a, <2>2, <2>3, <2>4, CallsMove
  <1>2. CASE TakeSession(t) /\ loops[t.sid] = 0
    <2>1. closers' = closers \ {t} /\ UNCHANGED <<loops, sess, conns, joins, calls>>
      BY <1>2 DEF TakeSession
    <2>3. JoinsKnown'
      BY <1>a, <2>1 DEF JoinsKnown, NotJoining
    <2>4. closers' \subseteq CloserType /\ \A v \in closers' : v \in closers \/ v.pc = "disconnect"
      BY <1>a, <2>1
    <2> QED
      BY <1>a, <2>1, <2>3, <2>4, CallsMove
  <1>3. CASE TakeSession(t) /\ loops[t.sid] # 0
    <2>0. PICK i : i = loops[t.sid]
      OBVIOUS
    <2>1. i \in Objects /\ sess[i].closing = "no"
      BY <1>3, <1>a, <1>b, <1>t, <2>0 DEF Objects, SessionsInv, TableIsOpen
    <2>2. PICK u, x : u = [t EXCEPT !.pc = "close", !.obj = i] /\ x = [sess[i] EXCEPT !.closing = "begun"]
      OBVIOUS
    <2>3. u \in CloserType /\ u.pc = "close" /\ u.obj = i
      <3>1. i \in 0 .. Len(sess)
        BY <1>b, <2>1 DEF Objects
      <3> QED
        BY <1>t, <2>2, <3>1 DEF CloserType
    <2>4. x \in SessionType
      BY <1>c, <2>1, <2>2 DEF SessionType
    <2>5. Settled(x) /\ x.sid = sess[i].sid /\ x.late = sess[i].late /\ x.closing = "begun"
      BY <1>c, <2>1, <2>2 DEF SessionType, Settled
    <2>6. /\ closers' = (closers \ {t}) \cup {u}
          /\ loops' = [loops EXCEPT ![t.sid] = 0]
          /\ UNCHANGED <<conns, joins, calls>>
          /\ sess' = [sess EXCEPT ![i] = x]
      BY <1>3, <2>0, <2>2 DEF TakeSession
    <2>7. /\ loops' \in [Sids -> 0 .. Len(sess)]
          /\ \A s \in Sids : loops'[s] = IF loops[s] = i THEN 0 ELSE loops[s]
      <3>1. \A s \in Sids : loops[s] # 0 => sess[loops[s]].sid = s
        BY DEF SessionsInv, SessionsTypeOK
      <3>2. \A s \in Sids : loops[s] = i => s = t.sid
        BY <1>3, <1>t, <2>0, <3>1
      <3> QED
        BY <1>a, <1>b, <1>t, <2>0, <2>6, <3>2
    <2>8. closers' \subseteq CloserType
      BY <1>a, <2>3, <2>6
    <2>9. \A v \in closers : v.pc # "disconnect" => v.obj \in Objects /\ v.obj # i
      BY <1>a, <1>b, <2>1 DEF SessionsInv, ClosersOwn, CloserOwns, CloserType, Objects
    <2>10. \A j \in Objects : sess'[j] = IF j = i THEN x ELSE sess[j]
      BY <1>b, <2>6 DEF Objects
    <2>11. ClosersOwn'
      <3>1. \A v \in closers' : CloserOwns(v)'
        <4> SUFFICES ASSUME NEW v \in closers', v.pc # "disconnect"
                     PROVE  /\ v.obj # 0 /\ sess'[v.obj].closing = "begun"
                            /\ v.pc = "wait" => sess'[v.obj].closed
          BY DEF CloserOwns
        <4>1. CASE v = u
          BY <4>1, <1>c, <2>1, <2>3, <2>5, <2>10
        <4>2. CASE v \in closers
          BY <4>2, <2>9, <2>10 DEF SessionsInv, ClosersOwn, CloserOwns
        <4> QED
          BY <2>6, <4>1, <4>2
      <3>2. \A v, w \in closers' : v.pc # "disconnect" /\ w.pc # "disconnect" /\ v.obj = w.obj => v = w
        BY <2>3, <2>6, <2>9 DEF SessionsInv, ClosersOwn
      <3> QED
        BY <3>1, <3>2 DEF ClosersOwn
    <2>12. JoinsKnown'
      BY <1>a, <2>6 DEF JoinsKnown, NotJoining
    <2> QED
      BY <1>a, <2>1, <2>4, <2>5, <2>6, <2>7, <2>8, <2>11, <2>12, CloseMoves
  <1>4. CASE MarkClosed(t)
    <2>0. PICK i : i = t.obj
      OBVIOUS
    <2>1. i \in Objects /\ sess[i].closing = "begun" /\ t.pc = "close"
      BY <1>4, <1>b, <1>t, <2>0 DEF Objects, MarkClosed, CloserOwns, CloserType
    <2>2. PICK u, x : u = [t EXCEPT !.pc = "wait"] /\ x = [sess[i] EXCEPT !.closed = TRUE]
      OBVIOUS
    <2>3. u \in CloserType /\ u.pc = "wait" /\ u.obj = i
      BY <1>b, <1>t, <2>0, <2>1, <2>2 DEF CloserType, Objects
    <2>4. x \in SessionType
      BY <1>c, <2>1, <2>2 DEF SessionType
    <2>5. Settled(x) /\ x.sid = sess[i].sid /\ x.late = sess[i].late /\ x.closing = "begun" /\ x.closed
      BY <1>c, <2>1, <2>2 DEF SessionType, Settled
    <2>6. /\ closers' = (closers \ {t}) \cup {u}
          /\ UNCHANGED <<loops, conns, joins, calls>>
          /\ sess' = [sess EXCEPT ![i] = x]
      BY <1>4, <2>0, <2>2 DEF MarkClosed
    <2>7. /\ loops' \in [Sids -> 0 .. Len(sess)]
          /\ \A s \in Sids : loops'[s] = IF loops[s] = i THEN 0 ELSE loops[s]
      BY <1>a, <1>c, <2>1, <2>6 DEF SessionsInv, TableIsOpen
    <2>8. closers' \subseteq CloserType
      BY <1>a, <2>3, <2>6
    <2>9. \A v \in closers : v # t /\ v.pc # "disconnect" => v.obj \in Objects /\ v.obj # i
      BY <1>0, <1>a, <1>b, <2>0, <2>1 DEF SessionsInv, ClosersOwn, CloserOwns, CloserType, Objects
    <2>10. \A j \in Objects : sess'[j] = IF j = i THEN x ELSE sess[j]
      BY <1>b, <2>6 DEF Objects
    <2>11. ClosersOwn'
      <3>1. \A v \in closers' : CloserOwns(v)'
        <4> SUFFICES ASSUME NEW v \in closers', v.pc # "disconnect"
                     PROVE  /\ v.obj # 0 /\ sess'[v.obj].closing = "begun"
                            /\ v.pc = "wait" => sess'[v.obj].closed
          BY DEF CloserOwns
        <4>1. CASE v = u
          BY <4>1, <1>c, <2>1, <2>3, <2>5, <2>10
        <4>2. CASE v \in closers /\ v # t
          BY <4>2, <2>9, <2>10 DEF SessionsInv, ClosersOwn, CloserOwns
        <4> QED
          BY <2>6, <4>1, <4>2
      <3>2. \A v, w \in closers' : v.pc # "disconnect" /\ w.pc # "disconnect" /\ v.obj = w.obj => v = w
        BY <2>3, <2>6, <2>9 DEF SessionsInv, ClosersOwn
      <3> QED
        BY <3>1, <3>2 DEF ClosersOwn
    <2>12. JoinsKnown'
      BY <1>a, <2>6 DEF JoinsKnown, NotJoining
    <2> QED
      BY <1>a, <2>1, <2>4, <2>5, <2>6, <2>7, <2>8, <2>11, <2>12, CloseMoves
  (* The last step of a close, which leaves its session as x. *)
  <1>5. ASSUME NEW x \in SessionType, Settled(x), t.pc = "wait",
               x.sid = sess[t.obj].sid, x.late = sess[t.obj].late, x.closing = "done",
               sess' = [sess EXCEPT ![t.obj] = x], closers' = closers \ {t},
               UNCHANGED <<loops, conns, calls>>,
               joins' \in [Conns -> [sid : Sids \cup {"none"}, victims : SUBSET Sids]], JoinsKnown'
        PROVE  SessionsInv'
    <2>0. PICK i : i = t.obj
      OBVIOUS
    <2>1. i \in Objects /\ sess[i].closing = "begun" /\ sess[i].closed
      BY <1>5, <1>b, <1>t, <2>0 DEF Objects, CloserOwns, CloserType
    <2>7. /\ loops' \in [Sids -> 0 .. Len(sess)]
          /\ \A s \in Sids : loops'[s] = IF loops[s] = i THEN 0 ELSE loops[s]
      BY <1>a, <1>c, <1>5, <2>1 DEF SessionsInv, TableIsOpen
    <2>8. closers' \subseteq CloserType
      BY <1>a, <1>5
    <2>9. \A v \in closers : v # t /\ v.pc # "disconnect" => v.obj \in Objects /\ v.obj # i
      BY <1>0, <1>a, <1>b, <1>5, <2>0, <2>1 DEF SessionsInv, ClosersOwn, CloserOwns, CloserType, Objects
    <2>10. \A j \in Objects : sess'[j] = IF j = i THEN x ELSE sess[j]
      BY <1>b, <1>5, <2>0 DEF Objects
    <2>11. ClosersOwn'
      BY <1>5, <2>9, <2>10 DEF SessionsInv, ClosersOwn, CloserOwns
    <2> QED
      BY <1>5, <2>0, <2>1, <2>7, <2>8, <2>11, CloseMoves
  <1>i. (FinishClose(t) \/ CloseFails(t)) => t.obj \in Objects /\ sess[t.obj].closed
                                            /\ sess[t.obj] \in SessionType /\ Settled(sess[t.obj])
    BY <1>b, <1>c, <1>t DEF Objects, FinishClose, CloseFails, CloserOwns, CloserType
  <1>6. CASE FinishClose(t)
    <2>2. PICK h \in BOOLEAN : h = (sess[t.obj].start = "connecting")
      <3>1. (sess[t.obj].start = "connecting") \in BOOLEAN
        OBVIOUS
      <3> QED
        BY <3>1, Zenon
    <2>3. PICK y : y = [sess[t.obj] EXCEPT !.hasty = h]
      OBVIOUS
    <2>y. y \in SessionType
      BY <1>6, <1>i, <2>3 DEF SessionType
    <2>r. PICK r \in {"none", "open", "closed"} : r = Shut(y.runtime) /\ r # "open"
      BY <2>y DEF SessionType, Shut
    <2>k. PICK k \in {"none", "open", "closed"} : k = Shut(y.controller) /\ k # "open"
      BY <2>y DEF SessionType, Shut
    <2>z. PICK x : x = [y EXCEPT !.stream = "closed", !.closing = "done", !.controller = k, !.runtime = r]
      OBVIOUS
    <2>4. x \in SessionType
      BY <2>y, <2>z DEF SessionType
    <2>5. Settled(x) /\ x.sid = sess[t.obj].sid /\ x.late = sess[t.obj].late /\ x.closing = "done"
      <3>1. /\ x.closing = "done" /\ x.runtime = r /\ x.controller = k /\ x.hasty = h
            /\ x.start = y.start /\ x.closed = y.closed /\ x.sid = y.sid /\ x.late = y.late
        BY <2>y, <2>3, <2>z DEF SessionType
      <3>2. /\ y.start = sess[t.obj].start /\ y.closed = sess[t.obj].closed
            /\ y.sid = sess[t.obj].sid /\ y.late = sess[t.obj].late
        BY <1>6, <1>i, <2>3 DEF SessionType
      <3> QED
        BY <1>6, <1>i, <2>2, <2>r, <2>k, <3>1, <3>2 DEF Settled
    <2>6. /\ closers' = closers \ {t} /\ t.pc = "wait"
          /\ UNCHANGED <<loops, conns, joins, calls>>
          /\ sess' = [sess EXCEPT ![t.obj] = x]
      BY <1>6, <1>i, <1>b, <2>2, <2>3, <2>r, <2>k, <2>z DEF FinishClose, Release, Starting, Objects
    <2> QED
      BY <1>a, <1>5, <2>4, <2>5, <2>6 DEF JoinsKnown
  <1>7. CASE CloseFails(t)
    <2>1. PICK x : x = [sess[t.obj] EXCEPT !.stream = "closed", !.closing = "done", !.unsaved = TRUE]
      OBVIOUS
    <2>2. x \in SessionType
      BY <1>7, <1>i, <2>1 DEF SessionType
    <2>3. Settled(x) /\ x.sid = sess[t.obj].sid /\ x.late = sess[t.obj].late /\ x.closing = "done"
      BY <1>7, <1>i, <2>1 DEF SessionType, Settled
    <2>4. /\ joins' \in [Conns -> [sid : Sids \cup {"none"}, victims : SUBSET Sids]]
          /\ JoinsKnown'
      BY <1>7, <1>a DEF CloseFails, JoinsKnown, NotJoining
    <2>5. /\ closers' = closers \ {t} /\ t.pc = "wait" /\ UNCHANGED <<loops, conns, calls>>
          /\ sess' = [sess EXCEPT ![t.obj] = x]
      BY <1>7, <2>1 DEF CloseFails
    <2> QED
      BY <1>5, <2>2, <2>3, <2>4, <2>5
  <1> QED
    BY <1>0, <1>1, <1>2, <1>3, <1>4, <1>6, <1>7

LEMMA SessionsInvStep ==
    ASSUME SessionsInv, [SessionsNext]_sessionsVars
    PROVE  SessionsInv'
  <1>1. CASE UNCHANGED sessionsVars
    BY <1>1 DEF sessionsVars, SessionsInv, SessionsTypeOK, JoinsKnown, TableIsOpen, ClosersOwn,
                CloserOwns, ObjectsSettled, Settled, NoSessionLost, Objects, CloserType, NotJoining
  <1>2. CASE SessionsNext
    BY <1>2, JoinKeeps, EvictionKeeps, CallKeeps, StartKeeps, CloseKeeps DEF SessionsNext, JoinNext
  <1> QED
    BY <1>1, <1>2

LEMMA SessionsInvInit == SessionsInit => SessionsInv
  <1> SUFFICES ASSUME SessionsInit PROVE SessionsInv
    OBVIOUS
  <1>1. sess = <<>> /\ Len(sess) = 0 /\ sess \in Seq(SessionType) /\ Objects = {}
    BY DEF SessionsInit, Objects
  <1>2. SessionsTypeOK
    BY <1>1, SessionsAssumption DEF SessionsInit, SessionsTypeOK, NotJoining
  <1>3. JoinsKnown /\ TableIsOpen
    BY DEF SessionsInit, JoinsKnown, TableIsOpen
  <1>4. ClosersOwn
    BY DEF SessionsInit, ClosersOwn
  <1>5. ObjectsSettled /\ NoSessionLost
    BY <1>1 DEF ObjectsSettled, NoSessionLost
  <1> QED
    BY <1>2, <1>3, <1>4, <1>5 DEF SessionsInv

(* However joins, evictions, starts and closes interleave, the table of    *)
(* agent loops holds the sessions that are open, and a session whose close *)
(* is over without an exception holds no runtime, nor, if close waited for *)
(* the start, an open controller (_start_agent_loop, _close_session,       *)
(* AgentSession.start, AgentSession.close).                                *)
THEOREM SessionsCorrect ==
    SessionsSpec => []SessionsTypeOK /\ []TableHoldsOpenSessions /\ []ClosedReleasesRuntime
  <1>1. SessionsInv => SessionsTypeOK
    BY DEF SessionsInv
  <1>2. SessionsInv => TableHoldsOpenSessions
    <2> SUFFICES ASSUME SessionsInv PROVE RegisteredIsOpen
      BY DEF SessionsInv, TableHoldsOpenSessions
    <2> SUFFICES ASSUME NEW s \in Sids, loops[s] # 0
                 PROVE  sess[loops[s]].closing = "no" /\ ~sess[loops[s]].closed /\ sess[loops[s]].stream = "open"
      BY DEF RegisteredIsOpen
    <2>1. loops[s] \in Objects /\ sess[loops[s]] \in SessionType
      BY SessionsLens DEF SessionsInv, SessionsTypeOK, Objects
    <2> QED
      BY <2>1 DEF SessionsInv, TableIsOpen, ObjectsSettled, Settled, SessionType
  <1>3. SessionsInv => ClosedReleasesRuntime
    BY DEF SessionsInv, ObjectsSettled, Settled, ClosedReleasesRuntime
  <1> QED
    BY <1>1, <1>2, <1>3, SessionsInvInit, SessionsInvStep, PTL DEF SessionsSpec

-----------------------------------------------------------------------------
(* Requests attach to a conversation and detach from it.                   *)

(* The requests that are attached. *)
Held == {r \in Requests : req[r].pc = "attached"}

(* The lock is held by the request that connects, and only then. *)
LockIsConnecting == \A r \in Requests : req[r].pc = "connecting" <=> lock = r

(* Under the lock there is no conversation but the one being connected. *)
LockedIsNew ==
    \A r \in Requests : lock = r =>
        /\ active = Nobody /\ detached = 0
        /\ req[r].object \in 1 .. Len(objects)
        /\ objects[req[r].object].state = "open" /\ ~objects[req[r].object].attachToExisting

(* Who is attached holds the active object, which counts them. *)
ActiveIsHeld ==
    /\ \A r \in Held : req[r].object # 0 /\ req[r].object = active.object
    /\ active.count = Cardinality(Held)
    /\ active.object # 0 => objects[active.object].state = "open" /\ detached = 0
    /\ detached # 0 => objects[detached].state = "open"

(* An object that took a session's stream for its own came before the      *)
(* session's runtime.                                                      *)
BorrowedEarly ==
    \A o \in 1 .. Len(objects) :
        objects[o].agent # 0 /\ ~objects[o].attachToExisting => agents[objects[o].agent].early

ConversationsInv ==
    /\ ConversationsTypeOK /\ LockIsConnecting /\ LockedIsNew /\ ActiveIsHeld
    /\ BorrowedEarly /\ OneOpenConversation /\ SessionKeepsStream

LEMMA HeldIsFinite ==
    ASSUME ConversationsTypeOK
    PROVE  IsFiniteSet(Held) /\ Cardinality(Held) \in Nat /\ Cardinality(Held) <= Cardinality(Requests)
           /\ Cardinality(Requests) \in Nat
  BY ConversationsAssumption, FS_Subset, FS_CardinalityType DEF Held

LEMMA ConversationsLens ==
    ASSUME ConversationsTypeOK
    PROVE  /\ Len(agents) \in Nat /\ agents \in [1 .. Len(agents) -> AgentType]
           /\ Len(objects) \in Nat /\ objects \in [1 .. Len(objects) -> ObjectType]
           /\ DOMAIN agents = 1 .. Len(agents) /\ DOMAIN objects = 1 .. Len(objects)
  <1>1. agents \in Seq(AgentType) /\ objects \in Seq(ObjectType)
    BY DEF ConversationsTypeOK
  <1> QED
    BY <1>1, LenProperties

(* agents changed only by new sessions and by what happens to a session:   *)
(* the types that count them stay.                                         *)
LEMMA AgentsGrow ==
    ASSUME ConversationsTypeOK, Len(agents') \in Nat, Len(agents') >= Len(agents),
           agents' \in Seq(AgentType)
    PROVE  objects \in Seq(ObjectType') /\ \A x \in ObjectType : x \in ObjectType'
  <1>1. \A x \in ObjectType : x \in ObjectType'
    BY ConversationsLens DEF ObjectType
  <1>2. objects \in [1 .. Len(objects) -> ObjectType']
    BY <1>1, ConversationsLens
  <1>3. objects = [i \in 1 .. Len(objects) |-> objects[i]] /\ \A i \in 1 .. Len(objects) : objects[i] \in ObjectType'
    BY <1>2
  <1>4. [i \in 1 .. Len(objects) |-> objects[i]] \in Seq(ObjectType')
    BY <1>3, ConversationsLens, IsASeq
  <1> QED
    BY <1>1, <1>3, <1>4

(* A step of the session alone. *)
LEMMA SessionMoves ==
    ASSUME ConversationsInv, UNCHANGED <<objects, active, detached, lock, req>>,
           agents' \in Seq(AgentType), Len(agents') \in Nat, Len(agents') >= Len(agents),
           agent' \in 0 .. Len(agents'),
           \A a \in 1 .. Len(agents) : agents[a].early => agents'[a].early,
           SessionKeepsStream'
    PROVE  ConversationsInv'
  <1>1. ConversationsTypeOK'
    BY AgentsGrow DEF ConversationsInv, ConversationsTypeOK, AgentType, RequestType, Nobody
  <1>2. BorrowedEarly'
    <2>1. \A o \in 1 .. Len(objects) : objects[o].agent \in 0 .. Len(agents)
      BY ConversationsLens DEF ConversationsInv, ObjectType
    <2> QED
      BY <2>1, ConversationsLens DEF ConversationsInv, BorrowedEarly
  <1>3. Held' = Held
    BY DEF Held
  <1> QED
    BY <1>1, <1>2, <1>3 DEF ConversationsInv, LockIsConnecting, LockedIsNew, ActiveIsHeld,
                            OneOpenConversation, SessionKeepsStream

LEMMA ConversationsInvStep ==
    ASSUME ConversationsInv, [ConversationsNext]_conversationsVars
    PROVE  ConversationsInv'
  <1>a. ConversationsTypeOK
    BY DEF ConversationsInv
  <1>b. /\ Len(agents) \in Nat /\ agents \in [1 .. Len(agents) -> AgentType]
        /\ Len(objects) \in Nat /\ objects \in [1 .. Len(objects) -> ObjectType]
        /\ DOMAIN agents = 1 .. Len(agents) /\ DOMAIN objects = 1 .. Len(objects)
    BY <1>a, ConversationsLens
  <1>c. /\ agents \in Seq(AgentType) /\ agent \in 0 .. Len(agents)
        /\ objects \in Seq(ObjectType)
        /\ active \in [object : 1 .. Len(objects), count : 1 .. Cardinality(Requests)] \cup {Nobody}
        /\ detached \in 0 .. Len(objects)
        /\ lock \in Requests \cup {"free"}
        /\ req \in [Requests -> RequestType]
    BY <1>a DEF ConversationsTypeOK
  <1>d. "free" \notin Requests
    BY ConversationsAssumption
  <1>1. CASE SessionStarts
    <2> DEFINE x == [stream |-> "open", ready |-> FALSE, early |-> FALSE]
    <2>1. x \in AgentType /\ x.stream = "open"
      BY DEF AgentType
    <2>2. agents' = Append(agents, x) /\ agent' = Len(agents) + 1
          /\ UNCHANGED <<objects, active, detached, lock, req>>
      BY <1>1 DEF SessionStarts
    <2> HIDE DEF x
    <2>3. /\ agents' \in Seq(AgentType) /\ Len(agents') = Len(agents) + 1
          /\ \A i \in 1 .. Len(agents) : agents'[i] = agents[i]
          /\ agents'[Len(agents) + 1] = x
      BY <1>c, <2>1, <2>2, AppendProperties
    <2>4. SessionKeepsStream'
      BY <2>1, <2>2, <2>3 DEF SessionKeepsStream
    <2>5. Len(agents') \in Nat /\ Len(agents') >= Len(agents) /\ agent' \in 0 .. Len(agents')
      BY <1>b, <2>2, <2>3
    <2> QED
      BY <2>2, <2>3, <2>4, <2>5, SessionMoves
  <1>2. CASE SessionGetsRuntime
    <2>1. agent \in 1 .. Len(agents) /\ UNCHANGED <<agent, objects, active, detached, lock, req>>
      BY <1>2, <1>b, <1>c DEF SessionGetsRuntime
    <2>2. PICK x : x = [agents[agent] EXCEPT !.ready = TRUE] /\ agents' = [agents EXCEPT ![agent] = x]
      BY <1>2, <1>b, <2>1 DEF SessionGetsRuntime
    <2>3. x \in AgentType /\ x.early = agents[agent].early /\ x.stream = agents[agent].stream
      BY <1>b, <2>1, <2>2 DEF AgentType
    <2>4. /\ agents' \in Seq(AgentType) /\ Len(agents') = Len(agents)
          /\ \A i \in 1 .. Len(agents) : agents'[i] = IF i = agent THEN x ELSE agents[i]
      BY <1>c, <2>1, <2>2, <2>3, ExceptSeq
    <2>5. SessionKeepsStream'
      BY <2>1, <2>3, <2>4 DEF SessionKeepsStream, ConversationsInv
    <2>6. Len(agents') \in Nat /\ Len(agents') >= Len(agents) /\ agent' \in 0 .. Len(agents')
      BY <1>b, <1>c, <2>1, <2>4
    <2> QED
      BY <2>1, <2>3, <2>4, <2>5, <2>6, SessionMoves
  <1>3. CASE SessionCloses
    <2>1. agent \in 1 .. Len(agents) /\ agent' = 0 /\ UNCHANGED <<objects, active, detached, lock, req>>
      BY <1>3, <1>b, <1>c DEF SessionCloses
    <2>2. PICK x : x = [agents[agent] EXCEPT !.stream = "closed"] /\ agents' = [agents EXCEPT ![agent] = x]
      BY <1>3, <1>b, <2>1 DEF SessionCloses
    <2>3. x \in AgentType /\ x.early = agents[agent].early
      BY <1>b, <2>1, <2>2 DEF AgentType
    <2>4. /\ agents' \in Seq(AgentType) /\ Len(agents') = Len(agents)
          /\ \A i \in 1 .. Len(agents) : agents'[i] = IF i = agent THEN x ELSE agents[i]
      BY <1>c, <2>1, <2>2, <2>3, ExceptSeq
    <2>5. SessionKeepsStream'
      BY <2>1 DEF SessionKeepsStream
    <2>6. Len(agents') \in Nat /\ Len(agents') >= Len(agents) /\ agent' \in 0 .. Len(agents')
      BY <1>b, <1>c, <2>1, <2>4
    <2> QED
      BY <2>1, <2>3, <2>4, <2>5, <2>6, SessionMoves
  <1>4. ASSUME NEW r \in Requests, BeginAttach(r) PROVE ConversationsInv'
    <2>1. PICK x : x = [req[r] EXCEPT !.pc = "attaching"] /\ req' = [req EXCEPT ![r] = x]
      BY <1>4, <1>c DEF BeginAttach
    <2>2. x \in RequestType /\ x.pc = "attaching"
      BY <1>c, <2>1 DEF RequestType
    <2>3. UNCHANGED <<agents, agent, objects, active, detached, lock>> /\ req[r].pc = "idle"
      BY <1>4 DEF BeginAttach
    <2>4. \A q \in Requests : req'[q] = IF q = r THEN x ELSE req[q]
      BY <1>c, <2>1
    <2>5. Held' = Held
      BY <2>2, <2>3, <2>4 DEF Held
    <2>6. lock # r
      BY <2>3 DEF ConversationsInv, LockIsConnecting
    <2>7. ConversationsTypeOK'
      <3>1. req' \in [Requests -> RequestType]
        BY <1>c, <2>1, <2>2
      <3> QED
        BY <1>a, <2>3, <3>1 DEF ConversationsTypeOK, AgentType, ObjectType, RequestType, Nobody
    <2>8. LockIsConnecting' /\ LockedIsNew'
      BY <2>2, <2>3, <2>4, <2>6 DEF ConversationsInv, LockIsConnecting, LockedIsNew
    <2>9. ActiveIsHeld'
      BY <2>2, <2>3, <2>4, <2>5 DEF ConversationsInv, ActiveIsHeld, Held
    <2>10. OneOpenConversation'
      BY <1>c, <2>3, <2>4, <2>6 DEF ConversationsInv, OneOpenConversation
    <2> QED
      BY <2>3, <2>7, <2>8, <2>9, <2>10 DEF ConversationsInv, BorrowedEarly, SessionKeepsStream
  <1>e. IsFiniteSet(Held) /\ Cardinality(Held) \in Nat /\ Cardinality(Held) <= Cardinality(Requests)
        /\ Cardinality(Requests) \in Nat
    BY <1>a, HeldIsFinite
  (* A request attaches to object o with what req' says. *)
  <1>f. ASSUME NEW r \in Requests, NEW o \in Nat, Attached(r, o), req[r].pc # "attached"
        PROVE  /\ Held' = Held \cup {r} /\ Cardinality(Held') = Cardinality(Held) + 1
               /\ IsFiniteSet(Held') /\ Cardinality(Held') <= Cardinality(Requests)
               /\ \A q \in Requests : req'[q] = IF q = r THEN [pc |-> "attached", object |-> o] ELSE req[q]
    <2>1. \A q \in Requests : req'[q] = IF q = r THEN [pc |-> "attached", object |-> o] ELSE req[q]
      BY <1>c, <1>f DEF Attached
    <2>2. Held' = Held \cup {r} /\ r \notin Held /\ Held' \subseteq Requests
      BY <1>f, <2>1 DEF Held
    <2>3. Cardinality(Held') <= Cardinality(Requests)
      BY <2>2, ConversationsAssumption, FS_Subset
    <2> QED
      BY <1>e, <2>1, <2>2, <2>3, FS_AddElement
  <1>5. ASSUME NEW r \in Requests, ReuseActive(r) PROVE ConversationsInv'
    <2>1. PICK o : o = active.object
      OBVIOUS
    <2>2. /\ active \in [object : 1 .. Len(objects), count : 1 .. Cardinality(Requests)]
          /\ o \in 1 .. Len(objects)
      BY <1>5, <1>c, <2>1 DEF ReuseActive, Nobody
    <2>3. /\ Attached(r, o) /\ req[r].pc = "attaching" /\ lock = "free"
          /\ active' = [active EXCEPT !.count = @ + 1]
          /\ UNCHANGED <<agents, agent, objects, detached, lock>>
      BY <1>5, <2>1 DEF ReuseActive
    <2>4. /\ Held' = Held \cup {r} /\ Cardinality(Held') = Cardinality(Held) + 1
          /\ IsFiniteSet(Held') /\ Cardinality(Held') <= Cardinality(Requests)
          /\ \A q \in Requests : req'[q] = IF q = r THEN [pc |-> "attached", object |-> o] ELSE req[q]
      BY <1>b, <1>f, <2>2, <2>3
    <2>5. active'.object = o /\ active'.count = active.count + 1 /\ active.count = Cardinality(Held)
      BY <2>1, <2>2, <2>3 DEF ConversationsInv, ActiveIsHeld
    <2>6. ConversationsTypeOK'
      <3>1. active.count + 1 \in 1 .. Cardinality(Requests)
        BY <1>e, <2>4, <2>5
      <3>2. active' \in [object : 1 .. Len(objects), count : 1 .. Cardinality(Requests)]
        BY <2>2, <2>3, <3>1
      <3>3. req' \in [Requests -> RequestType]
        BY <1>b, <1>c, <2>2, <2>3 DEF Attached, RequestType
      <3> QED
        BY <1>a, <2>3, <3>2, <3>3 DEF ConversationsTypeOK, AgentType, ObjectType, RequestType, Nobody
    <2>7. LockIsConnecting' /\ LockedIsNew'
      BY <1>d, <2>3, <2>4 DEF ConversationsInv, LockIsConnecting, LockedIsNew
    <2>8. ActiveIsHeld'
      BY <1>b, <2>1, <2>2, <2>3, <2>4, <2>5 DEF ConversationsInv, ActiveIsHeld, Held
    <2>9. OneOpenConversation'
      BY <2>1, <2>3, <2>5 DEF ConversationsInv, OneOpenConversation
    <2> QED
      BY <2>3, <2>6, <2>7, <2>8, <2>9 DEF ConversationsInv, BorrowedEarly, SessionKeepsStream
  (* Nobody is attached when nothing is active. *)
  <1>g. active.object = 0 => Held = {} /\ Cardinality(Held) = 0
    <2>1. ASSUME active.object = 0 PROVE Held = {}
      BY <2>1 DEF ConversationsInv, ActiveIsHeld
    <2> QED
      BY <2>1, FS_EmptySet
  <1>6. ASSUME NEW r \in Requests, ReuseDetached(r) PROVE ConversationsInv'
    <2>1. PICK o : o = detached
      OBVIOUS
    <2>2. /\ Attached(r, o) /\ req[r].pc = "attaching" /\ lock = "free"
          /\ active.object = 0 /\ o \in 1 .. Len(objects)
          /\ active' = [object |-> o, count |-> 1] /\ detached' = 0
          /\ UNCHANGED <<agents, agent, objects, lock>>
      BY <1>6, <1>b, <1>c, <2>1 DEF ReuseDetached
    <2>3. /\ Held' = {r} /\ Cardinality(Held') = 1 /\ 1 <= Cardinality(Requests)
          /\ \A q \in Requests : req'[q] = IF q = r THEN [pc |-> "attached", object |-> o] ELSE req[q]
      BY <1>b, <1>f, <1>g, <2>2
    <2>4. ConversationsTypeOK'
      <3>1. active' \in [object : 1 .. Len(objects), count : 1 .. Cardinality(Requests)]
        BY <1>e, <2>2, <2>3
      <3>2. req' \in [Requests -> RequestType]
        BY <1>b, <1>c, <2>2 DEF Attached, RequestType
      <3>3. detached' \in 0 .. Len(objects)
        BY <1>b, <2>2
      <3> QED
        BY <1>a, <2>2, <3>1, <3>2, <3>3 DEF ConversationsTypeOK, AgentType, ObjectType, RequestType, Nobody
    <2>5. LockIsConnecting' /\ LockedIsNew'
      BY <1>d, <2>2, <2>3 DEF ConversationsInv, LockIsConnecting, LockedIsNew
    <2>6. ActiveIsHeld'
      BY <1>b, <2>1, <2>2, <2>3 DEF ConversationsInv, ActiveIsHeld, Held
    <2>7. OneOpenConversation'
      BY <1>b, <2>1, <2>2 DEF ConversationsInv, OneOpenConversation
    <2> QED
      BY <2>2, <2>4, <2>5, <2>6, <2>7 DEF ConversationsInv, BorrowedEarly, SessionKeepsStream
  <1>7. ASSUME NEW r \in Requests, Create(r) PROVE ConversationsInv'
    <2>1. PICK x : x = NewConversation
      OBVIOUS
    <2>2. PICK o : o = Len(objects) + 1
      OBVIOUS
    <2>3. /\ x \in ObjectType /\ x.state = "open" /\ x.agent = agent
          /\ x.attachToExisting <=> agent # 0 /\ agents[agent].ready
      BY <1>b, <1>c, <2>1 DEF NewConversation, ObjectType
    <2>4. /\ req[r].pc = "attaching" /\ lock = "free" /\ active.object = 0 /\ detached = 0
          /\ active = Nobody
          /\ objects' = Append(objects, x)
          /\ agents' = IF agent = 0 THEN agents
                       ELSE [agents EXCEPT ![agent].early = @ \/ ~agents[agent].ready]
          /\ UNCHANGED <<agent, detached>>
      BY <1>7, <1>b, <1>c, <2>1 DEF Create, Nobody
    <2>5. \/ /\ x.attachToExisting /\ active' = [object |-> o, count |-> 1]
             /\ Attached(r, o) /\ lock' = lock
          \/ /\ ~x.attachToExisting /\ lock' = r /\ active' = active
             /\ req' = [req EXCEPT ![r] = [pc |-> "connecting", object |-> o]]
      BY <1>7, <2>1, <2>2 DEF Create
    <2>6. /\ objects' \in Seq(ObjectType) /\ Len(objects') = o /\ objects'[o] = x
          /\ \A i \in 1 .. Len(objects) : objects'[i] = objects[i]
          /\ o \in Nat /\ o \in 1 .. Len(objects')
      BY <1>b, <1>c, <2>2, <2>3, <2>4, AppendProperties
    <2>7. /\ agents' \in Seq(AgentType) /\ Len(agents') = Len(agents)
          /\ \A a \in 1 .. Len(agents) :
                /\ agents[a].early => agents'[a].early
                /\ agents'[a].stream = agents[a].stream
          /\ agent # 0 /\ ~agents[agent].ready => agents'[agent].early
      <3>1. CASE agent = 0
        BY <1>c, <2>4, <3>1
      <3>2. CASE agent # 0
        <4>1. agent \in 1 .. Len(agents)
          BY <1>b, <1>c, <3>2
        <4>2. PICK y : y = [agents[agent] EXCEPT !.early = @ \/ ~agents[agent].ready]
                       /\ agents' = [agents EXCEPT ![agent] = y]
          BY <1>b, <2>4, <3>2, <4>1
        <4>3. agents[agent] \in AgentType /\ (agents[agent].early \/ ~agents[agent].ready) \in BOOLEAN
          BY <1>b, <4>1
        <4>4. /\ y \in AgentType /\ y.stream = agents[agent].stream
              /\ y.early <=> agents[agent].early \/ ~agents[agent].ready
          BY <4>2, <4>3 DEF AgentType
        <4>5. /\ agents' \in Seq(AgentType) /\ Len(agents') = Len(agents)
              /\ \A i \in 1 .. Len(agents) : agents'[i] = IF i = agent THEN y ELSE agents[i]
          BY <1>c, <4>1, <4>2, <4>4, ExceptSeq
        <4> QED
          BY <4>1, <4>4, <4>5
      <3> QED
        BY <3>1, <3>2
    <2>8. ObjectType' = ObjectType
      BY <2>7 DEF ObjectType
    <2>9. /\ lock' \in Requests \cup {"free"}
          /\ req' \in [Requests -> RequestType']
          /\ active' \in [object : 1 .. Len(objects'), count : 1 .. Cardinality(Requests)] \cup {Nobody}
      <3>1. 1 \in 1 .. Cardinality(Requests)
        <4>1. r \in Requests /\ Requests # {}
          OBVIOUS
        <4> QED
          BY <1>e, <4>1, ConversationsAssumption, FS_EmptySet
      <3>2. \A q \in Requests : req[q] \in RequestType'
        BY <1>b, <1>c, <2>2, <2>6 DEF RequestType
      <3>3. /\ [pc |-> "attached", object |-> o] \in RequestType'
            /\ [pc |-> "connecting", object |-> o] \in RequestType'
        BY <2>6 DEF RequestType
      <3>4. req' \in [Requests -> RequestType']
        BY <1>c, <2>5, <3>2, <3>3 DEF Attached
      <3> QED
        BY <1>c, <2>4, <2>5, <2>6, <3>1, <3>4
    <2>10. ConversationsTypeOK'
      <3>1. agent' \in 0 .. Len(agents') /\ detached' \in 0 .. Len(objects')
        BY <1>b, <1>c, <2>2, <2>4, <2>6, <2>7
      <3> QED
        BY <2>6, <2>7, <2>8, <2>9, <3>1 DEF ConversationsTypeOK, AgentType, Nobody
    <2>11. BorrowedEarly'
      <3>1. \A i \in 1 .. Len(objects) : objects[i].agent \in 0 .. Len(agents)
        BY <1>b DEF ObjectType
      <3>2. ASSUME NEW i \in 1 .. Len(objects'), objects'[i].agent # 0, ~objects'[i].attachToExisting
            PROVE  agents'[objects'[i].agent].early
        <4>1. CASE i = o
          BY <2>3, <2>6, <2>7, <3>2, <4>1
        <4>2. CASE i # o
          <5>1. i \in 1 .. Len(objects)
            BY <1>b, <2>2, <2>6, <4>2
          <5>2. objects[i].agent \in 1 .. Len(agents) /\ agents[objects[i].agent].early
            BY <1>b, <2>6, <3>1, <3>2, <5>1 DEF ConversationsInv, BorrowedEarly
          <5> QED
            BY <2>6, <2>7, <5>1, <5>2
        <4> QED
          BY <4>1, <4>2
      <3> QED
        BY <3>2 DEF BorrowedEarly
    <2>12. SessionKeepsStream'
      <3>1. agent # 0 => agent \in 1 .. Len(agents)
        BY <1>b, <1>c
      <3> QED
        BY <2>4, <2>7, <3>1 DEF ConversationsInv, SessionKeepsStream
    <2>13. LockIsConnecting' /\ LockedIsNew'
      <3>1. \A q \in Requests : lock # q /\ req[q].pc # "connecting"
        BY <1>d, <2>4 DEF ConversationsInv, LockIsConnecting
      <3>2. CASE Attached(r, o) /\ lock' = lock
        BY <1>c, <3>1, <3>2 DEF Attached, LockIsConnecting, LockedIsNew
      <3>3. CASE /\ ~x.attachToExisting /\ lock' = r /\ active' = active
                 /\ req' = [req EXCEPT ![r] = [pc |-> "connecting", object |-> o]]
        <4>1. \A q \in Requests : req'[q] = IF q = r THEN [pc |-> "connecting", object |-> o] ELSE req[q]
          BY <1>c, <3>3
        <4> QED
          BY <2>3, <2>4, <2>6, <3>1, <3>3, <4>1 DEF LockIsConnecting, LockedIsNew
      <3> QED
        BY <2>5, <3>2, <3>3
    <2>14. ActiveIsHeld'
      <3>1. CASE /\ active' = [object |-> o, count |-> 1] /\ Attached(r, o)
        <4>1. /\ Held' = {r} /\ Cardinality(Held') = 1
              /\ \A q \in Requests : req'[q] = IF q = r THEN [pc |-> "attached", object |-> o] ELSE req[q]
          BY <1>f, <1>g, <2>4, <2>6, <3>1
        <4> QED
          BY <2>3, <2>4, <2>6, <3>1, <4>1 DEF ActiveIsHeld
      <3>2. CASE /\ active' = active
                 /\ req' = [req EXCEPT ![r] = [pc |-> "connecting", object |-> o]]
        <4>1. Held' = Held
          BY <1>c, <2>4, <3>2 DEF Held
        <4> QED
          BY <1>g, <2>4, <3>2, <4>1 DEF ActiveIsHeld, Nobody
      <3> QED
        BY <2>5, <3>1, <3>2
    <2>15. OneOpenConversation'
      <3>1. \A i \in 1 .. Len(objects) : objects[i].state = "open" => objects[i].attachToExisting
        BY <1>b, <2>4 DEF ConversationsInv, OneOpenConversation
      <3>2. \A i \in 1 .. Len(objects') : i \in 1 .. Len(objects) \/ i = o
        BY <1>b, <2>2, <2>6
      <3>3. \/ active'.object = o
            \/ lock' = r /\ req'[r].object = o
            \/ x.attachToExisting
        BY <1>c, <2>5
      <3> QED
        BY <1>d, <2>6, <3>1, <3>2, <3>3 DEF OneOpenConversation
    <2> QED
      BY <2>10, <2>11, <2>12, <2>13, <2>14, <2>15 DEF ConversationsInv
  (* What the lock's holder knows when its connect ends. *)
  <1>h. ASSUME NEW r \in Requests, req[r].pc = "connecting"
        PROVE  /\ lock = r /\ active = Nobody /\ active.object = 0 /\ active.count = 0 /\ detached = 0
               /\ req[r].object \in 1 .. Len(objects)
               /\ objects[req[r].object].state = "open" /\ ~objects[req[r].object].attachToExisting
               /\ \A q \in Requests : q # r => req[q].pc # "connecting"
    <2>1. lock = r /\ \A q \in Requests : q # r => req[q].pc # "connecting"
      BY <1>h DEF ConversationsInv, LockIsConnecting
    <2> QED
      BY <2>1 DEF ConversationsInv, LockedIsNew, Nobody
  <1>8. ASSUME NEW r \in Requests, Connected(r) PROVE ConversationsInv'
    <2>1. PICK o : o = req[r].object
      OBVIOUS
    <2>2. /\ req[r].pc = "connecting" /\ active' = [object |-> o, count |-> 1] /\ Attached(r, o)
          /\ lock' = "free" /\ UNCHANGED <<agents, agent, objects, detached>>
      BY <1>8, <2>1 DEF Connected
    <2>3. /\ lock = r /\ active.object = 0 /\ detached = 0
          /\ o \in 1 .. Len(objects) /\ objects[o].state = "open"
          /\ \A q \in Requests : q # r => req[q].pc # "connecting"
      BY <1>h, <2>1, <2>2
    <2>4. /\ Held' = {r} /\ Cardinality(Held') = 1 /\ 1 <= Cardinality(Requests)
          /\ \A q \in Requests : req'[q] = IF q = r THEN [pc |-> "attached", object |-> o] ELSE req[q]
      BY <1>b, <1>f, <1>g, <2>2, <2>3
    <2>5. ConversationsTypeOK'
      <3>1. active' \in [object : 1 .. Len(objects), count : 1 .. Cardinality(Requests)]
        BY <1>e, <2>2, <2>3, <2>4
      <3>2. req' \in [Requests -> RequestType]
        BY <1>b, <1>c, <2>2, <2>3 DEF Attached, RequestType
      <3> QED
        BY <1>a, <2>2, <3>1, <3>2 DEF ConversationsTypeOK, AgentType, ObjectType, RequestType, Nobody
    <2>6. LockIsConnecting' /\ LockedIsNew'
      BY <1>d, <2>2, <2>3, <2>4 DEF LockIsConnecting, LockedIsNew
    <2>7. ActiveIsHeld'
      BY <1>b, <2>2, <2>3, <2>4 DEF ActiveIsHeld
    <2>8. OneOpenConversation'
      BY <2>1, <2>2, <2>3 DEF ConversationsInv, OneOpenConversation
    <2> QED
      BY <2>2, <2>5, <2>6, <2>7, <2>8 DEF ConversationsInv, BorrowedEarly, SessionKeepsStream
  (* disconnect() of an object that is not active. *)
  <1>i. ASSUME NEW o \in 1 .. Len(objects), agents' = AgentsAfterDisconnect(o), UNCHANGED agent
        PROVE  /\ agents' \in Seq(AgentType) /\ Len(agents') = Len(agents)
               /\ \A a \in 1 .. Len(agents) : agents'[a].early = agents[a].early
               /\ SessionKeepsStream'
    <2>1. CASE objects[o].agent # 0 /\ ~objects[o].attachToExisting
      <3>1. PICK b : b = objects[o].agent
        OBVIOUS
      <3>2. b \in 1 .. Len(agents) /\ agents[b].early
        BY <1>b, <2>1, <3>1 DEF ConversationsInv, BorrowedEarly, ObjectType
      <3>3. PICK y : y = [agents[b] EXCEPT !.stream = "closed"] /\ agents' = [agents EXCEPT ![b] = y]
        BY <1>b, <1>i, <2>1, <3>1, <3>2 DEF AgentsAfterDisconnect
      <3>4. y \in AgentType /\ y.early = agents[b].early
        BY <1>b, <3>2, <3>3 DEF AgentType
      <3>5. /\ agents' \in Seq(AgentType) /\ Len(agents') = Len(agents)
            /\ \A i \in 1 .. Len(agents) : agents'[i] = IF i = b THEN y ELSE agents[i]
        BY <1>c, <3>2, <3>3, <3>4, ExceptSeq
      <3>6. agent # 0 => agent \in 1 .. Len(agents)
        BY <1>b, <1>c
      <3> QED
        BY <1>i, <3>2, <3>4, <3>5, <3>6 DEF ConversationsInv, SessionKeepsStream
    <2>2. CASE ~(objects[o].agent # 0 /\ ~objects[o].attachToExisting)
      BY <1>c, <1>i, <2>2 DEF AgentsAfterDisconnect, ConversationsInv, SessionKeepsStream
    <2> QED
      BY <2>1, <2>2
  (* An object that is neither active nor detached afterwards gets another state. *)
  <1>j. ASSUME NEW o \in 1 .. Len(objects), NEW s \in {"open", "closed", "abandoned"},
               objects' = [objects EXCEPT ![o].state = s],
               agents' \in Seq(AgentType), Len(agents') = Len(agents), UNCHANGED agent,
               \A a \in 1 .. Len(agents) : agents'[a].early = agents[a].early
        PROVE  /\ objects' \in Seq(ObjectType') /\ Len(objects') = Len(objects)
               /\ \A i \in 1 .. Len(objects) : i # o => objects'[i] = objects[i]
               /\ objects'[o].state = s /\ objects'[o].attachToExisting = objects[o].attachToExisting
               /\ BorrowedEarly'
    <2>1. PICK y : y = [objects[o] EXCEPT !.state = s] /\ objects' = [objects EXCEPT ![o] = y]
      BY <1>b, <1>j
    <2>2. /\ y \in ObjectType /\ y.agent = objects[o].agent /\ y.state = s
          /\ y.attachToExisting = objects[o].attachToExisting
      BY <1>b, <2>1 DEF ObjectType
    <2>3. /\ objects' \in Seq(ObjectType) /\ Len(objects') = Len(objects)
          /\ \A i \in 1 .. Len(objects) : objects'[i] = IF i = o THEN y ELSE objects[i]
      BY <1>c, <2>1, <2>2, ExceptSeq
    <2>4. ObjectType' = ObjectType
      BY <1>j DEF ObjectType
    <2>5. \A i \in 1 .. Len(objects) : objects[i].agent \in 0 .. Len(agents)
      BY <1>b DEF ObjectType
    <2>6. BorrowedEarly'
      <3> SUFFICES ASSUME NEW i \in 1 .. Len(objects), objects'[i].agent # 0, ~objects'[i].attachToExisting
                   PROVE  agents'[objects'[i].agent].early
        BY <2>3 DEF BorrowedEarly
      <3>1. objects'[i].agent = objects[i].agent /\ objects'[i].attachToExisting = objects[i].attachToExisting
        BY <2>2, <2>3
      <3>2. objects[i].agent \in 1 .. Len(agents) /\ agents[objects[i].agent].early
        BY <1>b, <2>5, <3>1 DEF ConversationsInv, BorrowedEarly
      <3> QED
        BY <1>j, <3>1, <3>2
    <2> QED
      BY <2>2, <2>3, <2>4, <2>6
  (* A connect ends without a conversation. *)
  <1>k. ASSUME NEW r \in Requests, req[r].pc = "connecting", NEW s \in {"closed", "abandoned"},
               objects' = [objects EXCEPT ![req[r].object].state = s],
               agents' \in Seq(AgentType), Len(agents') = Len(agents),
               \A a \in 1 .. Len(agents) : agents'[a].early = agents[a].early,
               SessionKeepsStream',
               req' = [req EXCEPT ![r] = Idle], lock' = "free", UNCHANGED <<agent, active, detached>>
        PROVE  ConversationsInv'
    <2>1. PICK o : o = req[r].object
      OBVIOUS
    <2>2. /\ lock = r /\ active = Nobody /\ active.object = 0 /\ active.count = 0 /\ detached = 0
          /\ o \in 1 .. Len(objects)
          /\ \A q \in Requests : q # r => req[q].pc # "connecting"
      BY <1>h, <1>k, <2>1
    <2>3. /\ objects' \in Seq(ObjectType') /\ Len(objects') = Len(objects)
          /\ \A i \in 1 .. Len(objects) : i # o => objects'[i] = objects[i]
          /\ objects'[o].state = s
          /\ BorrowedEarly'
      BY <1>j, <1>k, <2>1, <2>2
    <2>4. \A q \in Requests : req'[q] = IF q = r THEN Idle ELSE req[q]
      BY <1>c, <1>k
    <2>5. ConversationsTypeOK'
      <3>1. RequestType' = RequestType /\ Idle \in RequestType
        BY <1>b, <2>3 DEF RequestType, Idle
      <3>2. req' \in [Requests -> RequestType']
        BY <1>c, <1>k, <3>1
      <3> QED
        BY <1>c, <1>k, <2>2, <2>3, <3>2 DEF ConversationsTypeOK, AgentType, Nobody
    <2>6. LockIsConnecting' /\ LockedIsNew'
      BY <1>d, <1>k, <2>2, <2>4 DEF LockIsConnecting, LockedIsNew, Idle
    <2>7. ActiveIsHeld'
      <3>1. Held' = Held
        BY <1>k, <2>4 DEF Held, Idle
      <3> QED
        BY <1>g, <1>k, <2>2, <3>1 DEF ActiveIsHeld
    <2>8. OneOpenConversation'
      BY <1>d, <1>k, <2>1, <2>2, <2>3 DEF ConversationsInv, OneOpenConversation
    <2> QED
      BY <1>k, <2>3, <2>5, <2>6, <2>7, <2>8 DEF ConversationsInv
  <1>9. ASSUME NEW r \in Requests, ConnectFails(r) PROVE ConversationsInv'
    <2>1. req[r].object \in 1 .. Len(objects) /\ ~objects[req[r].object].attachToExisting
      BY <1>9, <1>h DEF ConnectFails
    <2>2. objects' = [objects EXCEPT ![req[r].object].state = "closed"]
      BY <1>9, <1>b, <2>1 DEF ConnectFails, Disconnected
    <2> QED
      BY <1>9, <1>i, <1>k, <2>1, <2>2 DEF ConnectFails
  <1>10. ASSUME NEW r \in Requests, ConnectRaises(r) PROVE ConversationsInv'
    BY <1>10, <1>c, <1>k DEF ConnectRaises, ConversationsInv, SessionKeepsStream
  <1>11. ASSUME NEW r \in Requests, Detach(r) PROVE ConversationsInv'
    <2>1. PICK o : o = req[r].object
      OBVIOUS
    <2>2. /\ req[r].pc = "attached" /\ lock = "free" /\ req' = [req EXCEPT ![r] = Idle]
          /\ UNCHANGED <<agents, agent, objects, lock>>
      BY <1>11 DEF Detach
    <2>3. /\ active.object = o /\ o # 0 /\ active.count = Cardinality(Held) /\ detached = 0 /\ r \in Held
          /\ objects[o].state = "open"
      BY <2>1, <2>2 DEF ConversationsInv, ActiveIsHeld, Held
    <2>4. /\ active \in [object : 1 .. Len(objects), count : 1 .. Cardinality(Requests)]
          /\ o \in 1 .. Len(objects)
      BY <1>c, <2>3 DEF Nobody
    <2>5. \A q \in Requests : req'[q] = IF q = r THEN Idle ELSE req[q]
      BY <1>c, <2>2
    <2>6. Held' = Held \ {r} /\ Cardinality(Held') = active.count - 1 /\ IsFiniteSet(Held')
      <3>1. Held' = Held \ {r}
        BY <2>5 DEF Held, Idle
      <3> QED
        BY <1>e, <2>3, <3>1, FS_RemoveElement
    <2>7. LockIsConnecting' /\ LockedIsNew'
      BY <1>d, <2>2, <2>5 DEF ConversationsInv, LockIsConnecting, LockedIsNew, Idle
    <2>8. req' \in [Requests -> RequestType]
      BY <1>b, <1>c, <2>2 DEF RequestType, Idle
    <2>9. CASE active.count > 1 /\ active' = [active EXCEPT !.count = @ - 1] /\ UNCHANGED detached
      <3>1. active'.object = o /\ active'.count = active.count - 1
        BY <2>3, <2>4, <2>9
      <3>2. ConversationsTypeOK'
        <4>1. active.count - 1 \in 1 .. Cardinality(Requests)
          BY <1>e, <2>4, <2>9
        <4>2. active' \in [object : 1 .. Len(objects), count : 1 .. Cardinality(Requests)]
          BY <2>4, <2>9, <4>1
        <4> QED
          BY <1>a, <2>2, <2>8, <2>9, <4>2
          DEF ConversationsTypeOK, AgentType, ObjectType, RequestType, Nobody
      <3>3. ActiveIsHeld'
        BY <2>2, <2>3, <2>5, <2>6, <2>9, <3>1 DEF ConversationsInv, ActiveIsHeld
      <3>4. OneOpenConversation'
        BY <2>2, <2>3, <2>9, <3>1 DEF ConversationsInv, OneOpenConversation
      <3> QED
        BY <2>2, <2>7, <3>2, <3>3, <3>4 DEF ConversationsInv, BorrowedEarly, SessionKeepsStream
    <2>10. CASE active.count <= 1 /\ active' = Nobody /\ detached' = o
      <3>1. active'.object = 0 /\ active'.count = 0 /\ Cardinality(Held') = 0 /\ Held' = {}
        <4>1. Cardinality(Held') = 0
          BY <1>e, <2>4, <2>6, <2>10
        <4> QED
          BY <2>6, <2>10, <4>1, FS_EmptySet DEF Nobody
      <3>2. ConversationsTypeOK'
        <4>1. detached' \in 0 .. Len(objects)
          BY <1>b, <2>4, <2>10
        <4> QED
          BY <1>a, <2>2, <2>8, <2>10, <4>1
          DEF ConversationsTypeOK, AgentType, ObjectType, RequestType, Nobody
      <3>3. ActiveIsHeld'
        BY <2>2, <2>3, <2>10, <3>1 DEF ActiveIsHeld
      <3>4. OneOpenConversation'
        BY <2>2, <2>3, <2>10 DEF ConversationsInv, OneOpenConversation
      <3> QED
        BY <2>2, <2>7, <3>2, <3>3, <3>4 DEF ConversationsInv, BorrowedEarly, SessionKeepsStream
    <2> QED
      BY <1>11, <2>1, <2>3, <2>9, <2>10 DEF Detach
  <1>12. CASE CleanupDetached
    <2>1. PICK o : o = detached
      OBVIOUS
    <2>2. /\ lock = "free" /\ o \in 1 .. Len(objects) /\ objects' = Disconnected(o)
          /\ agents' = AgentsAfterDisconnect(o) /\ detached' = 0
          /\ UNCHANGED <<agent, active, lock, req>>
      BY <1>12, <1>b, <1>c, <2>1 DEF CleanupDetached
    <2>3. PICK s \in {"open", "closed", "abandoned"} :
             /\ objects' = [objects EXCEPT ![o].state = s]
             /\ ~objects[o].attachToExisting => s # "open"
      <3>1. CASE objects[o].attachToExisting
        BY <1>b, <2>2, <3>1 DEF Disconnected, ObjectType
      <3>2. CASE ~objects[o].attachToExisting
        BY <1>b, <2>2, <3>2 DEF Disconnected
      <3> QED
        BY <3>1, <3>2
    <2>4. /\ agents' \in Seq(AgentType) /\ Len(agents') = Len(agents)
          /\ \A a \in 1 .. Len(agents) : agents'[a].early = agents[a].early
          /\ SessionKeepsStream'
      BY <1>i, <2>2
    <2>5. /\ objects' \in Seq(ObjectType') /\ Len(objects') = Len(objects)
          /\ \A i \in 1 .. Len(objects) : i # o => objects'[i] = objects[i]
          /\ objects'[o].state = s /\ objects'[o].attachToExisting = objects[o].attachToExisting
          /\ BorrowedEarly'
      BY <1>j, <2>2, <2>3, <2>4
    <2>6. active.object = 0
      BY <1>b, <2>1, <2>2 DEF ConversationsInv, ActiveIsHeld
    <2>7. ConversationsTypeOK'
      <3>1. RequestType' = RequestType
        BY <2>5 DEF RequestType
      <3>2. detached' \in 0 .. Len(objects')
        BY <1>b, <2>2, <2>5
      <3> QED
        BY <1>c, <2>2, <2>4, <2>5, <3>1, <3>2 DEF ConversationsTypeOK, AgentType, Nobody
    <2>8. LockIsConnecting' /\ LockedIsNew'
      BY <1>d, <2>2 DEF ConversationsInv, LockIsConnecting, LockedIsNew
    <2>9. ActiveIsHeld'
      <3>1. Held' = Held
        BY <2>2 DEF Held
      <3> QED
        BY <2>2, <2>6, <3>1 DEF ConversationsInv, ActiveIsHeld
    <2>10. OneOpenConversation'
      BY <1>b, <2>1, <2>2, <2>3, <2>5 DEF ConversationsInv, OneOpenConversation
    <2> QED
      BY <2>4, <2>5, <2>7, <2>8, <2>9, <2>10 DEF ConversationsInv
  <1>13. CASE UNCHANGED conversationsVars
    <2>1. Held' = Held
      BY <1>13 DEF conversationsVars, Held
    <2> QED
      BY <1>13, <2>1 DEF conversationsVars, ConversationsInv, ConversationsTypeOK, AgentType, ObjectType, RequestType,
        LockIsConnecting, LockedIsNew, ActiveIsHeld, BorrowedEarly, OneOpenConversation, SessionKeepsStream
  <1> QED
    BY <1>1, <1>2, <1>3, <1>4, <1>5, <1>6, <1>7, <1>8, <1>9, <1>10, <1>11, <1>12, <1>13
    DEF ConversationsNext, RequestNext

(* Whatever number of requests attach to a conversation and detach from it *)
(* while sessions come and go: those attached share one connected object,  *)
(* counted right, and the session keeps its stream (attach_to_conversation,*)
(* detach_from_conversation, _cleanup_stale).                              *)
THEOREM ConversationsCorrect == ConversationsSpec => []ConversationsTypeOK /\ []AttachmentsKept
  <1>1. ConversationsInit => ConversationsInv
    <2> SUFFICES ASSUME ConversationsInit PROVE ConversationsInv
      OBVIOUS
    <2>1. /\ agents \in Seq(AgentType) /\ objects \in Seq(ObjectType)
          /\ Len(agents) = 0 /\ Len(objects) = 0
      BY DEF ConversationsInit
    <2>2. ConversationsTypeOK
      BY <2>1 DEF ConversationsInit, ConversationsTypeOK, RequestType, Idle
    <2>3. Held = {} /\ Cardinality(Held) = 0
      <3>1. Held = {}
        BY DEF ConversationsInit, Held, Idle
      <3> QED
        BY <3>1, FS_EmptySet
    <2>4. LockIsConnecting /\ LockedIsNew
      BY ConversationsAssumption DEF ConversationsInit, LockIsConnecting, LockedIsNew, Idle
    <2>5. ActiveIsHeld
      BY <2>3 DEF ConversationsInit, ActiveIsHeld, Nobody
    <2>6. BorrowedEarly /\ OneOpenConversation /\ SessionKeepsStream
      BY <2>1 DEF ConversationsInit, BorrowedEarly, OneOpenConversation, SessionKeepsStream
    <2> QED
      BY <2>2, <2>4, <2>5, <2>6 DEF ConversationsInv
  <1>2. ConversationsInv /\ [ConversationsNext]_conversationsVars => ConversationsInv'
    BY ConversationsInvStep
  <1>3. ConversationsInv => ConversationsTypeOK /\ AttachmentsKept
    <2> SUFFICES ASSUME ConversationsInv PROVE HeldStaysConnected
      BY DEF ConversationsInv, AttachmentsKept
    <2>1. ASSUME NEW r \in Requests, req[r].pc = "attached"
          PROVE  /\ objects[req[r].object].state = "open"
                 /\ active = [object |-> req[r].object, count |-> Cardinality(Holders(req[r].object))]
      <3>1. r \in Held /\ req[r].object = active.object /\ active.object # 0
        BY <2>1 DEF ConversationsInv, ActiveIsHeld, Held
      <3>2. Holders(req[r].object) = Held
        BY <3>1 DEF ConversationsInv, ActiveIsHeld, Held, Holders
      <3>3. active \in [object : 1 .. Len(objects), count : 1 .. Cardinality(Requests)]
        BY <3>1 DEF ConversationsInv, ConversationsTypeOK, Nobody
      <3>4. active = [object |-> active.object, count |-> active.count]
        BY <3>3
      <3> QED
        BY <3>1, <3>2, <3>4 DEF ConversationsInv, ActiveIsHeld
    <2> QED
      BY <2>1 DEF HeldStaysConnected
  <1> QED
    BY <1>1, <1>2, <1>3, PTL DEF ConversationsSpec

-----------------------------------------------------------------------------
(* V1 conversations: what a READY task promises.                           *)

(* The start has posted the conversation to its sandbox, or is over. *)
Posted(v) == start[v].pc \in {"save", "callbacks", "pending", "done"}

Ready(v) == saved[v].status = "READY"

(* Nobody deletes the conversation, nor did before its start was over. *)
Kept(v) == ~Deleting(v) /\ v \notin half

(* Starts and deletions that have a sandbox; rows wait for the commit. *)
HasBox(v) ==
    /\ start[v].pc \in {"wait", "post", "save", "callbacks", "pending"} => start[v].box # 0
    /\ del[v].pc # "idle" => del[v].box # 0
    /\ del[v].pc \notin {"subs", "rows"} => del[v].rows = {}

(* Whatever has the conversation has it where it was started. *)
WhereStarted(v) ==
    /\ \A b \in BoxIds : v \in boxes[b].held => b = start[v].box /\ Posted(v)
    /\ hook[v] # NoHook => hook[v].box # 0 /\ hook[v].box = start[v].box /\ Posted(v)

(* READY is the last a start says, and a deletion takes it back. *)
ReadyIsLast(v) ==
    /\ Ready(v) => saved[v].linked /\ start[v].pc \in {"pending", "done"} /\ start[v].box # 0
    /\ v \notin half /\ Deleting(v) => start[v].pc = "done"
    /\ v \notin half /\ del[v].pc \in {"count", "remove"} => ~Ready(v)

(* The agent server has what was posted to it. *)
AgentHas(v) ==
    Kept(v) /\ (Ready(v) \/ start[v].pc \in {"save", "callbacks", "pending"}) =>
        v \in boxes[start[v].box].held \/ boxes[start[v].box].status = "gone"

(* The row is stored before the task is READY, and hooks read it. *)
RowIsStored(v) ==
    Kept(v) /\ (Ready(v) \/ start[v].pc \in {"callbacks", "pending"}) =>
        /\ infos[v].box = start[v].box
        /\ v \notin overtaken => infos[v].full /\ (hook[v] # NoHook => hook[v].full)

ConvOK(v) == HasBox(v) /\ WhereStarted(v) /\ ReadyIsLast(v) /\ AgentHas(v) /\ RowIsStored(v)

AppInv == AppTypeOK /\ \A v \in Convs : ConvOK(v)

LEMMA BoxLens ==
    ASSUME AppTypeOK
    PROVE  /\ Len(boxes) \in Nat /\ boxes \in [1 .. Len(boxes) -> BoxType]
           /\ DOMAIN boxes = 1 .. Len(boxes)
  <1>1. boxes \in Seq(BoxType)
    BY DEF AppTypeOK
  <1> QED
    BY <1>1, LenProperties

(* What a step on sandboxes may do to a conversation that it is not about. *)
BoxesKeep(v) ==
    /\ BoxIds \subseteq BoxIds'
    /\ \A b \in BoxIds' : v \in boxes'[b].held => b \in BoxIds /\ v \in boxes[b].held
    /\ \A b \in BoxIds : v \in boxes[b].held \/ boxes[b].status = "gone"
                         => v \in boxes'[b].held \/ boxes'[b].status = "gone"

Untouched(v) ==
    /\ infos'[v] = infos[v] /\ start'[v] = start[v] /\ saved'[v] = saved[v]
    /\ hook'[v] = hook[v] /\ del'[v] = del[v] /\ (Deleting(v)' <=> Deleting(v))
    /\ v \in half' <=> v \in half
    /\ v \in overtaken' <=> v \in overtaken

LEMMA OthersKept ==
    ASSUME AppInv, NEW v \in Convs, BoxesKeep(v), Untouched(v)
    PROVE  ConvOK(v)'
  <1>a. ConvOK(v) /\ AppTypeOK
    BY DEF AppInv
  <1>1. HasBox(v)' /\ ReadyIsLast(v)'
    BY <1>a DEF ConvOK, HasBox, ReadyIsLast, Deleting, Ready, Untouched
  <1>2. WhereStarted(v)'
    BY <1>a DEF ConvOK, WhereStarted, BoxesKeep, Untouched, Deleting, Posted, NoHook
  <1>3. AgentHas(v)'
    <2> SUFFICES ASSUME Kept(v)', Ready(v)' \/ start'[v].pc \in {"save", "callbacks", "pending"}
                 PROVE  v \in boxes'[start'[v].box].held \/ boxes'[start'[v].box].status = "gone"
      BY DEF AgentHas
    <2>1. Kept(v) /\ (Ready(v) \/ start[v].pc \in {"save", "callbacks", "pending"})
      BY DEF Kept, Deleting, Ready, Untouched
    <2>2. start[v] \in StartTaskType /\ start[v].box # 0
      BY <1>a, <2>1 DEF AppTypeOK, ConvOK, HasBox, ReadyIsLast, Deleting
    <2>3. start[v].box \in BoxIds
      BY <1>a, <2>2, BoxLens DEF StartTaskType, BoxIds
    <2> QED
      BY <1>a, <2>1, <2>3 DEF ConvOK, AgentHas, BoxesKeep, Untouched, Deleting
  <1>4. RowIsStored(v)'
    BY <1>a DEF ConvOK, RowIsStored, Kept, Deleting, Ready, Untouched, NoHook
  <1> QED
    BY <1>1, <1>2, <1>3, <1>4 DEF ConvOK

(* The sandboxes after pause_old_sandboxes. *)
LEMMA PauseKeeps ==
    ASSUME AppTypeOK
    PROVE  /\ AfterPauseOld \in Seq(BoxType) /\ Len(AfterPauseOld) = Len(boxes)
           /\ \A b \in BoxIds : /\ AfterPauseOld[b].held = boxes[b].held
                                /\ boxes[b].status = "gone" => AfterPauseOld[b].status = "gone"
  <1>a. Len(boxes) \in Nat /\ \A b \in BoxIds : boxes[b] \in BoxType
    BY BoxLens DEF BoxIds
  <1>1. PICK old : /\ old \in SUBSET RunningBoxes
                   /\ AfterPauseOld = [b \in BoxIds |-> IF b \in old
                                                       THEN [boxes[b] EXCEPT !.status = "paused"]
                                                       ELSE boxes[b]]
    BY DEF AfterPauseOld
  <1>2. \A b \in BoxIds : /\ AfterPauseOld[b] \in BoxType
                          /\ AfterPauseOld[b].held = boxes[b].held
                          /\ boxes[b].status = "gone" => AfterPauseOld[b].status = "gone"
    BY <1>a, <1>1 DEF BoxType, RunningBoxes
  <1>3. AfterPauseOld = [b \in 1 .. Len(boxes) |-> AfterPauseOld[b]]
    BY <1>1 DEF BoxIds
  <1>4. /\ [b \in 1 .. Len(boxes) |-> AfterPauseOld[b]] \in Seq(BoxType)
        /\ Len([b \in 1 .. Len(boxes) |-> AfterPauseOld[b]]) = Len(boxes)
    BY <1>a, <1>2, IsASeq, LenProperties DEF BoxIds
  <1> QED
    BY <1>2, <1>3, <1>4

LEMMA BoxStatus ==
    ASSUME AppTypeOK, NEW base \in Seq(BoxType), Len(base) = Len(boxes),
           \A b \in BoxIds : /\ base[b].held = boxes[b].held
                             /\ boxes[b].status = "gone" => base[b].status = "gone",
           NEW c \in BoxIds, NEW q \in {"booting", "running", "paused", "gone"},
           boxes[c].status # "gone", boxes' = [base EXCEPT ![c].status = q]
    PROVE  /\ boxes' \in Seq(BoxType) /\ Len(boxes') = Len(boxes) /\ BoxIds' = BoxIds
           /\ \A v : BoxesKeep(v)
  <1>a. Len(boxes) \in Nat /\ base \in [1 .. Len(boxes) -> BoxType]
    BY BoxLens, LenProperties
  <1>1. PICK x : x = [base[c] EXCEPT !.status = q]
    OBVIOUS
  <1>2. x \in BoxType /\ x.held = boxes[c].held
    BY <1>a, <1>1 DEF BoxType, BoxIds
  <1>3. boxes' = [base EXCEPT ![c] = x]
    BY <1>a, <1>1 DEF BoxIds
  <1>4. /\ boxes' \in Seq(BoxType) /\ Len(boxes') = Len(boxes)
        /\ \A b \in BoxIds : boxes'[b] = IF b = c THEN x ELSE base[b]
    BY <1>2, <1>3, ExceptSeq, SMTT(60) DEF BoxIds
  <1>5. BoxIds' = BoxIds
    BY <1>4 DEF BoxIds
  <1> QED
    BY <1>2, <1>4, <1>5 DEF BoxesKeep

(* Sandboxes come up, are paused and are resumed. *)
LEMMA BoxesMove ==
    ASSUME AppInv, UNCHANGED <<infos, start, saved, hook, del, half, overtaken, parent>>,
           ops' \in 0 .. MaxOps, boxes' \in Seq(BoxType), Len(boxes') = Len(boxes),
           \A v : BoxesKeep(v)
    PROVE  AppInv'
  <1>1. AppTypeOK'
    BY DEF AppInv, AppTypeOK, InfoType, StartTaskType, SavedType, DeleteType
  <1>2. \A v \in Convs : Untouched(v)
    BY DEF Untouched, Deleting
  <1> QED
    BY <1>1, <1>2, OthersKept DEF AppInv

LEMMA BoxStep ==
    ASSUME AppInv, NEW b \in BoxIds, BoxBoots(b) \/ PauseBox(b) \/ ResumeBox(b)
    PROVE  AppInv'
  <1>a. AppTypeOK /\ boxes \in Seq(BoxType) /\ ops \in 0 .. MaxOps
    BY DEF AppInv, AppTypeOK
  <1>b. ops' \in 0 .. MaxOps /\ UNCHANGED <<infos, start, saved, hook, del, half, overtaken, parent>>
    BY <1>a, AppAssumption DEF BoxBoots, PauseBox, ResumeBox
  <1>1. CASE BoxBoots(b) \/ PauseBox(b)
    <2>1. PICK q \in {"running", "paused"} : boxes' = [boxes EXCEPT ![b].status = q]
      BY <1>1 DEF BoxBoots, PauseBox
    <2>2. boxes[b].status # "gone"
      BY <1>1 DEF BoxBoots, PauseBox
    <2>3. boxes' \in Seq(BoxType) /\ Len(boxes') = Len(boxes) /\ \A v : BoxesKeep(v)
      BY <1>a, <2>1, <2>2, BoxStatus
    <2> QED
      BY <1>b, <2>3, BoxesMove
  <1>2. CASE ResumeBox(b)
    <2>1. boxes' = [AfterPauseOld EXCEPT ![b].status = "running"] /\ boxes[b].status # "gone"
      BY <1>2 DEF ResumeBox
    <2>2. boxes' \in Seq(BoxType) /\ Len(boxes') = Len(boxes) /\ \A v : BoxesKeep(v)
      BY <1>a, <2>1, PauseKeeps, BoxStatus
    <2> QED
      BY <1>b, <2>2, BoxesMove
  <1> QED
    BY <1>1, <1>2

(* A step of one conversation. *)
LEMMA ConvStep ==
    ASSUME AppInv, NEW v \in Convs, AppTypeOK', ConvOK(v)',
           \A w \in Convs : w # v => Untouched(w) /\ BoxesKeep(w)
    PROVE  AppInv'
  BY OthersKept DEF AppInv

LEMMA SameBoxes ==
    ASSUME UNCHANGED boxes
    PROVE  BoxIds' = BoxIds /\ \A v : BoxesKeep(v)
  BY DEF BoxIds, BoxesKeep

(* The steps of a start before the conversation is posted. *)
LEMMA EarlyStart ==
    ASSUME AppInv, NEW v \in Convs, start[v].pc \in {"idle", "find", "create", "wait"},
           NEW x, x \in StartTaskType', x.pc \in {"find", "create", "wait", "post"},
           x.pc \in {"wait", "post"} => x.box # 0,
           start' = [start EXCEPT ![v] = x],
           NEW y \in SavedType, y.status # "READY", saved' = [saved EXCEPT ![v] = y],
           boxes' \in Seq(BoxType), Len(boxes') \in Nat, Len(boxes') >= Len(boxes),
           \A w : BoxesKeep(w),
           UNCHANGED <<infos, hook, del, half, overtaken, ops>>, parent' \in [Convs -> Convs]
    PROVE  AppInv'
  <1>a. AppTypeOK /\ ConvOK(v) /\ Len(boxes) \in Nat
    BY BoxLens DEF AppInv
  <1>1. AppTypeOK'
    <2>1. \A r \in InfoType : r \in InfoType'
      BY <1>a DEF InfoType
    <2>2. \A r \in StartTaskType : r \in StartTaskType'
      BY <1>a DEF StartTaskType
    <2>3. \A r \in DeleteType : r \in DeleteType'
      BY <1>a DEF DeleteType
    <2>4. infos' \in [Convs -> InfoType'] /\ hook' \in [Convs -> InfoType']
      BY <1>a, <2>1 DEF AppTypeOK
    <2>5. start' \in [Convs -> StartTaskType']
      BY <1>a, <2>2 DEF AppTypeOK
    <2>6. del' \in [Convs -> DeleteType']
      BY <1>a, <2>3 DEF AppTypeOK
    <2>7. saved' \in [Convs -> SavedType']
      BY <1>a DEF AppTypeOK, SavedType
    <2> QED
      BY <1>a, <2>4, <2>5, <2>6, <2>7 DEF AppTypeOK
  <1>2. start'[v] = x /\ saved'[v] = y
    BY <1>a DEF AppTypeOK
  <1>3. \A w \in Convs : w # v => Untouched(w)
    BY <1>a DEF Untouched, Deleting, AppTypeOK
  <1>4. ConvOK(v)'
    <2>1. HasBox(v)' /\ ReadyIsLast(v)'
      BY <1>a, <1>2 DEF ConvOK, HasBox, ReadyIsLast, Deleting, Ready
    <2>2. WhereStarted(v)'
      BY <1>a, <1>2 DEF ConvOK, WhereStarted, BoxesKeep, Posted, NoHook
    <2>3. AgentHas(v)' /\ RowIsStored(v)'
      BY <1>a, <1>2 DEF ConvOK, AgentHas, RowIsStored, Ready
    <2> QED
      BY <2>1, <2>2, <2>3 DEF ConvOK
  <1> QED
    BY <1>1, <1>3, <1>4, ConvStep

LEMMA StartBegins ==
    ASSUME AppInv, NEW v \in Convs,
           \/ StartRequested(v) \/ MakeRoom(v) \/ CreateBox(v) \/ Prepare(v)
           \/ \E b \in BoxIds : PickBox(v, b) \/ TakeBox(v, b)
    PROVE  AppInv'
  <1>a. AppTypeOK /\ ConvOK(v) /\ boxes \in Seq(BoxType)
    BY DEF AppInv, AppTypeOK
  <1>b. Len(boxes) \in Nat /\ boxes \in [1 .. Len(boxes) -> BoxType]
    BY <1>a, BoxLens
  <1>c. start[v] \in StartTaskType /\ saved[v] \in SavedType
        /\ start \in [Convs -> StartTaskType] /\ saved \in [Convs -> SavedType]
        /\ parent \in [Convs -> Convs]
    BY <1>a DEF AppTypeOK
  <1>d. start[v].pc \in {"idle", "find", "create", "wait"} => ~Ready(v)
    BY <1>a DEF ConvOK, ReadyIsLast, Deleting
  <1>e. \A q \in Statuses : SavedTask(q, saved[v].linked) \in SavedType
    BY <1>c DEF SavedTask, SavedType
  <1>1. ASSUME NEW p \in {"find", "wait", "post"}, NEW b \in 0 .. Len(boxes), p # "find" => b # 0,
               NEW q \in {"WORKING", "WAITING_FOR_SANDBOX", "PREPARING"}, AdvanceStart(v, p, b, q),
               start[v].pc \in {"idle", "find", "create", "wait"},
               boxes' \in Seq(BoxType), Len(boxes') = Len(boxes), \A w : BoxesKeep(w),
               UNCHANGED <<infos, hook, del, half, overtaken, ops>>, parent' \in [Convs -> Convs]
        PROVE  AppInv'
    <2>1. PICK x, y : x = [pc |-> p, box |-> b] /\ y = SavedTask(q, saved[v].linked)
      OBVIOUS
    <2>2. x \in StartTaskType' /\ x.pc = p /\ x.box = b
      BY <1>1, <2>1 DEF StartTaskType
    <2>3. y \in SavedType /\ y.status # "READY"
      BY <1>e, <2>1 DEF SavedTask, Statuses
    <2>4. start' = [start EXCEPT ![v] = x] /\ saved' = [saved EXCEPT ![v] = y]
      BY <1>1, <2>1 DEF AdvanceStart
    <2>5. Len(boxes') \in Nat /\ Len(boxes') >= Len(boxes)
      BY <1>1, <1>b
    <2>6. /\ x.pc \in {"find", "create", "wait", "post"}
          /\ x.pc \in {"wait", "post"} => x.box # 0
      BY <1>1, <2>2
    <2> QED
      BY <1>1, <2>2, <2>3, <2>4, <2>5, <2>6, EarlyStart
  <1>2. CASE StartRequested(v)
    BY <1>2, <1>a, <1>b, <1>c, <1>1, SameBoxes DEF StartRequested
  <1>3. CASE MakeRoom(v)
    <2>1. PICK x : x = [start[v] EXCEPT !.pc = "create"]
      OBVIOUS
    <2>2. boxes' \in Seq(BoxType) /\ Len(boxes') = Len(boxes) /\ BoxIds' = BoxIds
      BY <1>a, <1>3, PauseKeeps DEF MakeRoom, BoxIds
    <2>3. \A w : BoxesKeep(w)
      BY <1>a, <1>3, <2>2, PauseKeeps DEF MakeRoom, BoxesKeep
    <2>4. x \in StartTaskType' /\ x.pc = "create"
      BY <1>c, <2>1, <2>2 DEF StartTaskType
    <2>5. start' = [start EXCEPT ![v] = x] /\ saved' = [saved EXCEPT ![v] = saved[v]]
      BY <1>c, <1>3, <2>1 DEF MakeRoom
    <2>6. Len(boxes') \in Nat /\ Len(boxes') >= Len(boxes)
      BY <1>b, <2>2
    <2>7. /\ x.pc \in {"find", "create", "wait", "post"}
          /\ x.pc \in {"wait", "post"} => x.box # 0
      BY <2>4
    <2>8. /\ start[v].pc \in {"idle", "find", "create", "wait"} /\ saved[v].status # "READY"
          /\ UNCHANGED <<infos, hook, del, half, overtaken, ops, parent>>
      BY <1>3, <1>d DEF MakeRoom, Ready
    <2> QED
      BY <1>c, <2>2, <2>3, <2>4, <2>5, <2>6, <2>7, <2>8, EarlyStart
  <1>4. CASE CreateBox(v)
    <2>1. PICK x, y : /\ x = [pc |-> "wait", box |-> Len(boxes) + 1]
                      /\ y = SavedTask("WAITING_FOR_SANDBOX", saved[v].linked)
      OBVIOUS
    <2>2. [status |-> "booting", held |-> {}] \in BoxType
      BY DEF BoxType
    <2>3. /\ boxes' \in Seq(BoxType) /\ Len(boxes') = Len(boxes) + 1
          /\ \A b \in 1 .. Len(boxes) : boxes'[b] = boxes[b]
          /\ boxes'[Len(boxes) + 1] = [status |-> "booting", held |-> {}]
      BY <1>a, <1>4, <2>2, AppendProperties DEF CreateBox
    <2>4. BoxIds' = BoxIds \cup {Len(boxes) + 1}
      BY <1>b, <2>3 DEF BoxIds
    <2>5. \A w : BoxesKeep(w)
      BY <2>3, <2>4 DEF BoxesKeep, BoxIds
    <2>6. x \in StartTaskType' /\ x.pc = "wait" /\ x.box # 0
      BY <1>b, <2>1, <2>3 DEF StartTaskType
    <2>7. y \in SavedType /\ y.status # "READY"
      BY <1>e, <2>1 DEF SavedTask, Statuses
    <2>8. start' = [start EXCEPT ![v] = x] /\ saved' = [saved EXCEPT ![v] = y]
      BY <1>4, <2>1 DEF AdvanceStart, CreateBox
    <2>9. Len(boxes') \in Nat /\ Len(boxes') >= Len(boxes)
      BY <1>b, <2>3
    <2>10. /\ x.pc \in {"find", "create", "wait", "post"}
           /\ x.pc \in {"wait", "post"} => x.box # 0
      BY <2>6
    <2>11. /\ start[v].pc \in {"idle", "find", "create", "wait"}
           /\ UNCHANGED <<infos, hook, del, half, overtaken, ops, parent>>
      BY <1>4 DEF CreateBox
    <2> QED
      BY <1>c, <2>3, <2>5, <2>6, <2>7, <2>8, <2>9, <2>10, <2>11, EarlyStart
  <1>5. CASE Prepare(v)
    <2>1. start[v].box \in 0 .. Len(boxes) /\ start[v].box # 0
      BY <1>5, <1>a, <1>c DEF Prepare, StartTaskType, ConvOK, HasBox
    <2> QED
      BY <1>5, <1>a, <1>b, <1>c, <1>1, <2>1, SameBoxes DEF Prepare
  <1>6. ASSUME NEW b \in BoxIds, PickBox(v, b) PROVE AppInv'
    <2>1. b \in 0 .. Len(boxes) /\ b # 0
      BY <1>b DEF BoxIds
    <2> QED
      BY <1>6, <1>a, <1>b, <1>c, <1>1, <2>1, SameBoxes DEF PickBox
  <1>7. ASSUME NEW b \in BoxIds, TakeBox(v, b) PROVE AppInv'
    <2>1. b \in 0 .. Len(boxes) /\ b # 0
      BY <1>b DEF BoxIds
    <2>2. boxes' \in Seq(BoxType) /\ Len(boxes') = Len(boxes) /\ \A w : BoxesKeep(w)
      <3>1. CASE UNCHANGED boxes
        BY <1>a, <3>1, SameBoxes
      <3>2. CASE boxes' = [AfterPauseOld EXCEPT ![b].status = "running"]
        BY <1>7, <1>a, <3>2, PauseKeeps, BoxStatus DEF TakeBox
      <3> QED
        BY <1>7, <3>1, <3>2 DEF TakeBox
    <2> QED
      BY <1>7, <1>c, <1>1, <2>1, <2>2 DEF TakeBox
  <1> QED
    BY <1>2, <1>3, <1>4, <1>5, <1>6, <1>7

(* The types when no sandbox is created. *)
LEMMA TypesKept ==
    ASSUME AppTypeOK, boxes' \in Seq(BoxType), Len(boxes') = Len(boxes),
           infos' \in [Convs -> InfoType], hook' \in [Convs -> InfoType],
           start' \in [Convs -> StartTaskType], saved' \in [Convs -> SavedType],
           del' \in [Convs -> DeleteType], half' \subseteq Convs, overtaken' \subseteq Convs,
           parent' \in [Convs -> Convs], ops' \in 0 .. MaxOps
    PROVE  AppTypeOK'
  BY DEF AppTypeOK, InfoType, StartTaskType, SavedType, DeleteType

LEMMA StartEnds ==
    ASSUME AppInv, NEW v \in Convs,
           Post(v) \/ SaveInfo(v) \/ BecomeReady(v) \/ EndStart(v) \/ ConversationFails(v)
    PROVE  AppInv'
  <1>a. AppTypeOK /\ ConvOK(v) /\ boxes \in Seq(BoxType)
    BY DEF AppInv, AppTypeOK
  <1>b. Len(boxes) \in Nat /\ boxes \in [1 .. Len(boxes) -> BoxType]
    BY <1>a, BoxLens
  <1>c. /\ start \in [Convs -> StartTaskType] /\ saved \in [Convs -> SavedType]
        /\ infos \in [Convs -> InfoType] /\ hook \in [Convs -> InfoType]
        /\ del \in [Convs -> DeleteType] /\ half \subseteq Convs /\ overtaken \subseteq Convs
        /\ ops \in 0 .. MaxOps /\ parent \in [Convs -> Convs]
    BY <1>a DEF AppTypeOK
  <1>1. CASE Post(v)
    <2>0. PICK b : b = start[v].box
      OBVIOUS
    <2>1. b \in BoxIds /\ start[v].pc = "post" /\ boxes[b].status = "running"
      BY <1>1, <1>a, <1>b, <1>c, <2>0 DEF Post, StartTaskType, ConvOK, HasBox, BoxIds
    <2>2. PICK x : x = [boxes[b] EXCEPT !.held = @ \cup {v}]
      OBVIOUS
    <2>3. x \in BoxType /\ x.held = boxes[b].held \cup {v} /\ x.status = boxes[b].status
      BY <1>b, <2>1, <2>2 DEF BoxType, BoxIds
    <2>4. boxes' = [boxes EXCEPT ![b] = x] /\ UNCHANGED <<infos, hook, del, half, overtaken, ops, parent>>
      BY <1>1, <2>0, <2>2 DEF Post
    <2>5. /\ boxes' \in Seq(BoxType) /\ Len(boxes') = Len(boxes)
          /\ \A c \in BoxIds : boxes'[c] = IF c = b THEN x ELSE boxes[c]
      BY <1>a, <2>1, <2>3, <2>4, ExceptSeq DEF BoxIds
    <2>6. BoxIds' = BoxIds
      BY <2>5 DEF BoxIds
    <2>7. \A w \in Convs : w # v => BoxesKeep(w)
      BY <2>3, <2>5, <2>6 DEF BoxesKeep
    <2>8. PICK p \in {"save", "done"}, q \in {"STARTING_CONVERSATION", "ERROR"} : AdvanceStart(v, p, b, q)
      BY <1>1, <2>0 DEF Post
    <2>9. [pc |-> p, box |-> b] \in StartTaskType /\ SavedTask(q, saved[v].linked) \in SavedType
      BY <1>b, <1>c, <2>1 DEF StartTaskType, SavedTask, SavedType, Statuses, BoxIds
    <2>10. AppTypeOK'
      BY <1>a, <1>c, <2>4, <2>5, <2>8, <2>9, TypesKept DEF AdvanceStart
    <2>11. /\ start'[v].pc = p /\ start'[v].box = b /\ saved'[v].status = q
           /\ \A w \in Convs : w # v => Untouched(w)
      BY <1>c, <2>4, <2>8 DEF AdvanceStart, SavedTask, Untouched, Deleting
    <2>12. HasBox(v)' /\ ReadyIsLast(v)'
      BY <1>a, <1>b, <2>0, <2>1, <2>4, <2>11 DEF ConvOK, HasBox, ReadyIsLast, Deleting, Ready, BoxIds
    <2>13. WhereStarted(v)'
      BY <1>a, <2>0, <2>1, <2>3, <2>4, <2>5, <2>6, <2>11 DEF ConvOK, WhereStarted, Posted, NoHook
    <2>14. AgentHas(v)' /\ RowIsStored(v)'
      BY <2>1, <2>3, <2>5, <2>11 DEF AgentHas, RowIsStored, Ready
    <2> QED
      BY <2>7, <2>10, <2>11, <2>12, <2>13, <2>14, ConvStep DEF ConvOK
  <1>2. CASE SaveInfo(v)
    <2>1. PICK x, y : x = [start[v] EXCEPT !.pc = "callbacks"] /\ y = [box |-> start[v].box, full |-> TRUE]
      OBVIOUS
    <2>2. x \in StartTaskType /\ x.pc = "callbacks" /\ x.box = start[v].box
      BY <1>c, <2>1 DEF StartTaskType
    <2>3. y \in InfoType /\ y.box = start[v].box /\ y.full
      BY <1>c, <2>1 DEF StartTaskType, InfoType
    <2>4. /\ start' = [start EXCEPT ![v] = x] /\ infos' = [infos EXCEPT ![v] = y]
          /\ UNCHANGED <<boxes, saved, hook, del, half, ops, parent>> /\ start[v].pc = "save"
          /\ overtaken' = IF hook[v] = NoHook THEN overtaken ELSE overtaken \cup {v}
      BY <1>2, <2>1 DEF SaveInfo
    <2>5. AppTypeOK'
      BY <1>a, <1>c, <2>2, <2>3, <2>4, TypesKept
    <2>6. start'[v] = x /\ infos'[v] = y /\ \A w \in Convs : w # v => Untouched(w)
      BY <1>c, <2>4 DEF Untouched, Deleting
    <2>7. BoxIds' = BoxIds /\ \A w : BoxesKeep(w)
      BY <2>4, SameBoxes
    <2>8. HasBox(v)' /\ ReadyIsLast(v)'
      BY <1>a, <2>2, <2>4, <2>6 DEF ConvOK, HasBox, ReadyIsLast, Deleting, Ready
    <2>9. WhereStarted(v)'
      BY <1>a, <2>2, <2>4, <2>6, <2>7 DEF ConvOK, WhereStarted, Posted, NoHook
    <2>10. AgentHas(v)' /\ RowIsStored(v)'
      BY <1>a, <2>2, <2>3, <2>4, <2>6 DEF ConvOK, AgentHas, RowIsStored, Ready, Kept, Deleting
    <2> QED
      BY <2>5, <2>6, <2>7, <2>8, <2>9, <2>10, ConvStep DEF ConvOK
  <1>3. CASE BecomeReady(v)
    <2>1. PICK x, y : x = [start[v] EXCEPT !.pc = "pending"] /\ y = SavedTask("READY", TRUE)
      OBVIOUS
    <2>2. x \in StartTaskType /\ x.pc = "pending" /\ x.box = start[v].box
      BY <1>c, <2>1 DEF StartTaskType
    <2>3. y \in SavedType /\ y.status = "READY" /\ y.linked
      BY <2>1 DEF SavedTask, SavedType, Statuses
    <2>4. /\ start' = [start EXCEPT ![v] = x] /\ saved' = [saved EXCEPT ![v] = y]
          /\ UNCHANGED <<boxes, infos, hook, del, half, overtaken, ops, parent>> /\ start[v].pc = "callbacks"
      BY <1>3, <2>1 DEF BecomeReady
    <2>5. AppTypeOK'
      BY <1>a, <1>c, <2>2, <2>3, <2>4, TypesKept
    <2>6. start'[v] = x /\ saved'[v] = y /\ \A w \in Convs : w # v => Untouched(w)
      BY <1>c, <2>4 DEF Untouched, Deleting
    <2>7. BoxIds' = BoxIds /\ \A w : BoxesKeep(w)
      BY <2>4, SameBoxes
    <2>8. HasBox(v)' /\ ReadyIsLast(v)'
      BY <1>a, <2>2, <2>3, <2>4, <2>6 DEF ConvOK, HasBox, ReadyIsLast, Deleting, Ready
    <2>9. WhereStarted(v)'
      BY <1>a, <2>2, <2>4, <2>6, <2>7 DEF ConvOK, WhereStarted, Posted, NoHook
    <2>10. AgentHas(v)' /\ RowIsStored(v)'
      BY <1>a, <2>2, <2>4, <2>6 DEF ConvOK, AgentHas, RowIsStored, Ready, Kept, Deleting, NoHook
    <2> QED
      BY <2>5, <2>6, <2>7, <2>8, <2>9, <2>10, ConvStep DEF ConvOK
  <1>4. CASE EndStart(v) \/ ConversationFails(v)
    <2>1. PICK x, y : x = [start[v] EXCEPT !.pc = "done"] /\ y = saved'[v]
      OBVIOUS
    <2>2. x \in StartTaskType /\ x.pc = "done" /\ x.box = start[v].box
      BY <1>c, <2>1 DEF StartTaskType
    <2>3. /\ start' = [start EXCEPT ![v] = x] /\ saved' = [saved EXCEPT ![v] = y]
          /\ UNCHANGED <<boxes, infos, hook, del, half, overtaken, ops, parent>>
          /\ y \in SavedType /\ \/ y = saved[v] /\ start[v].pc = "pending"
                                \/ y.status # "READY"
      <3>1. CASE EndStart(v)
        BY <1>c, <2>1, <3>1 DEF EndStart
      <3>2. CASE ConversationFails(v)
        <4>1. PICK k \in BOOLEAN : k = (start[v].pc = "pending")
          BY Zenon
        <4>2. saved' = [saved EXCEPT ![v] = SavedTask("ERROR", k)]
          BY <3>2, <4>1 DEF ConversationFails
        <4>3. SavedTask("ERROR", k) \in SavedType /\ SavedTask("ERROR", k).status # "READY"
          BY DEF SavedTask, SavedType, Statuses
        <4> QED
          BY <1>c, <2>1, <3>2, <4>2, <4>3 DEF ConversationFails
      <3> QED
        BY <1>4, <3>1, <3>2
    <2>5. AppTypeOK'
      BY <1>a, <1>c, <2>2, <2>3, TypesKept
    <2>6. start'[v] = x /\ saved'[v] = y /\ \A w \in Convs : w # v => Untouched(w)
      BY <1>c, <2>3 DEF Untouched, Deleting
    <2>7. BoxIds' = BoxIds /\ \A w : BoxesKeep(w)
      BY <2>3, SameBoxes
    <2>8. HasBox(v)' /\ ReadyIsLast(v)'
      BY <1>a, <2>2, <2>3, <2>6 DEF ConvOK, HasBox, ReadyIsLast, Deleting, Ready
    <2>9. WhereStarted(v)'
      BY <1>a, <2>2, <2>3, <2>6, <2>7 DEF ConvOK, WhereStarted, Posted, NoHook
    <2>10. AgentHas(v)' /\ RowIsStored(v)'
      BY <1>a, <2>2, <2>3, <2>6 DEF ConvOK, AgentHas, RowIsStored, Ready, Kept, Deleting, NoHook
    <2> QED
      BY <2>5, <2>6, <2>7, <2>8, <2>9, <2>10, ConvStep DEF ConvOK
  <1> QED
    BY <1>1, <1>2, <1>3, <1>4

LEMMA HookStep ==
    ASSUME AppInv, NEW v \in Convs, HookSaves(v) \/ \E b \in BoxIds : HookReads(v, b)
    PROVE  AppInv'
  <1>a. AppTypeOK /\ ConvOK(v) /\ boxes \in Seq(BoxType)
    BY DEF AppInv, AppTypeOK
  <1>b. Len(boxes) \in Nat /\ boxes \in [1 .. Len(boxes) -> BoxType]
    BY <1>a, BoxLens
  <1>c. /\ start \in [Convs -> StartTaskType] /\ saved \in [Convs -> SavedType]
        /\ infos \in [Convs -> InfoType] /\ hook \in [Convs -> InfoType]
        /\ del \in [Convs -> DeleteType] /\ half \subseteq Convs /\ overtaken \subseteq Convs
        /\ ops \in 0 .. MaxOps /\ parent \in [Convs -> Convs]
    BY <1>a DEF AppTypeOK
  <1>0. NoHook \in InfoType
    BY <1>b DEF NoHook, InfoType
  <1>1. ASSUME NEW b \in BoxIds, HookReads(v, b) PROVE AppInv'
    <2>1. PICK x : x = [box |-> b, full |-> infos[v].full]
      OBVIOUS
    <2>2. x \in InfoType /\ x.box = b /\ x.full = infos[v].full
      BY <1>b, <1>c, <2>1 DEF InfoType, BoxIds
    <2>3. /\ hook' = [hook EXCEPT ![v] = x]
          /\ UNCHANGED <<boxes, infos, start, saved, del, half, overtaken, ops, parent>>
      BY <1>1, <2>1 DEF HookReads
    <2>4. b # 0 /\ b = start[v].box /\ Posted(v)
      BY <1>1, <1>a, <1>b DEF HookReads, ConvOK, WhereStarted, BoxIds
    <2>5. AppTypeOK'
      BY <1>a, <1>c, <2>2, <2>3, TypesKept
    <2>6. hook'[v] = x /\ \A w \in Convs : w # v => Untouched(w)
      BY <1>c, <2>3 DEF Untouched, Deleting
    <2>7. BoxIds' = BoxIds /\ \A w : BoxesKeep(w)
      BY <2>3, SameBoxes
    <2>8. HasBox(v)' /\ ReadyIsLast(v)'
      BY <1>a, <2>3 DEF ConvOK, HasBox, ReadyIsLast, Deleting, Ready
    <2>9. WhereStarted(v)'
      BY <1>a, <2>2, <2>3, <2>4, <2>6, <2>7 DEF ConvOK, WhereStarted, Posted
    <2>10. AgentHas(v)' /\ RowIsStored(v)'
      BY <1>a, <2>2, <2>3, <2>6 DEF ConvOK, AgentHas, RowIsStored, Ready, Kept, Deleting
    <2> QED
      BY <2>5, <2>6, <2>7, <2>8, <2>9, <2>10, ConvStep DEF ConvOK
  <1>2. CASE HookSaves(v)
    <2>3. /\ hook' = [hook EXCEPT ![v] = NoHook] /\ infos' = [infos EXCEPT ![v] = hook[v]]
          /\ UNCHANGED <<boxes, start, saved, del, half, overtaken, ops, parent>> /\ hook[v] # NoHook
      BY <1>2 DEF HookSaves
    <2>4. hook[v] \in InfoType /\ hook[v].box = start[v].box /\ Posted(v)
      BY <1>a, <1>c, <2>3 DEF ConvOK, WhereStarted
    <2>5. AppTypeOK'
      BY <1>0, <1>a, <1>c, <2>3, TypesKept
    <2>6. hook'[v] = NoHook /\ infos'[v] = hook[v] /\ \A w \in Convs : w # v => Untouched(w)
      BY <1>c, <2>3 DEF Untouched, Deleting
    <2>7. BoxIds' = BoxIds /\ \A w : BoxesKeep(w)
      BY <2>3, SameBoxes
    <2>8. HasBox(v)' /\ ReadyIsLast(v)'
      BY <1>a, <2>3 DEF ConvOK, HasBox, ReadyIsLast, Deleting, Ready
    <2>9. WhereStarted(v)'
      BY <1>a, <2>3, <2>6, <2>7 DEF ConvOK, WhereStarted, Posted, NoHook
    <2>10. AgentHas(v)' /\ RowIsStored(v)'
      BY <1>a, <2>3, <2>4, <2>6 DEF ConvOK, AgentHas, RowIsStored, Ready, Kept, Deleting, NoHook
    <2> QED
      BY <2>5, <2>6, <2>7, <2>8, <2>9, <2>10, ConvStep DEF ConvOK
  <1> QED
    BY <1>1, <1>2

LEMMA DeleteKeeps ==
    ASSUME AppInv, NEW v \in Convs, DeleteBegins(v) \/ DeleteStep(v)
    PROVE  AppInv'
  <1>a. AppTypeOK /\ ConvOK(v) /\ boxes \in Seq(BoxType)
    BY DEF AppInv, AppTypeOK
  <1>b. Len(boxes) \in Nat /\ boxes \in [1 .. Len(boxes) -> BoxType]
    BY <1>a, BoxLens
  <1>c. /\ start \in [Convs -> StartTaskType] /\ saved \in [Convs -> SavedType]
        /\ infos \in [Convs -> InfoType] /\ hook \in [Convs -> InfoType]
        /\ del \in [Convs -> DeleteType] /\ half \subseteq Convs /\ overtaken \subseteq Convs
        /\ ops \in 0 .. MaxOps /\ parent \in [Convs -> Convs]
    BY <1>a DEF AppTypeOK
  <1>d. NoDelete \in DeleteType /\ NoInfo \in InfoType /\ NoTask \in SavedType
    BY <1>b DEF NoDelete, DeleteType, NoInfo, InfoType, NoTask, SavedType
  (* The rows of a deletion stay, its sandbox too: a step of v alone. *)
  <1>e. ASSUME NEW x \in DeleteType, del' = [del EXCEPT ![v] = x], x.rows = del[v].rows
        PROVE  /\ del'[v] = x /\ \A w \in Convs : w # v => del'[w] = del[w] /\ (Deleting(w)' <=> Deleting(w))
    <2>1. \A w \in Convs : del'[w] = IF w = v THEN x ELSE del[w]
      BY <1>c, <1>e
    <2>2. \A w \in Convs : del'[w].rows = del[w].rows
      BY <1>e, <2>1
    <2> QED
      BY <2>1, <2>2 DEF Deleting
  <1>f. ASSUME NEW w, NEW b \in 0 .. Len(boxes), LeavesAgentServer(w, b)
        PROVE  /\ boxes' \in Seq(BoxType) /\ Len(boxes') = Len(boxes) /\ BoxIds' = BoxIds
               /\ \A c \in BoxIds : boxes'[c].held \subseteq boxes[c].held
               /\ \A u \in Convs : u # w => BoxesKeep(u)
    <2>1. CASE UNCHANGED boxes
      BY <1>a, <2>1, SameBoxes
    <2>2. CASE b \in RunningBoxes /\ boxes' = [boxes EXCEPT ![b].held = @ \ {w}]
      <3>0. b \in BoxIds
        BY <2>2 DEF RunningBoxes
      <3>1. PICK y : y = [boxes[b] EXCEPT !.held = @ \ {w}]
        OBVIOUS
      <3>2. y \in BoxType /\ y.held = boxes[b].held \ {w} /\ y.status = boxes[b].status
        BY <1>b, <3>0, <3>1 DEF BoxType, BoxIds
      <3>3. boxes' = [boxes EXCEPT ![b] = y]
        BY <2>2, <3>1
      <3>4. /\ boxes' \in Seq(BoxType) /\ Len(boxes') = Len(boxes)
            /\ \A c \in BoxIds : boxes'[c] = IF c = b THEN y ELSE boxes[c]
        BY <1>a, <3>0, <3>2, <3>3, ExceptSeq DEF BoxIds
      <3>5. BoxIds' = BoxIds
        BY <3>4 DEF BoxIds
      <3> QED
        BY <3>2, <3>4, <3>5 DEF BoxesKeep
    <2> QED
      BY <1>f, <2>1, <2>2 DEF LeavesAgentServer
  <1>1. CASE DeleteBegins(v)
    <2>0. PICK k \in BOOLEAN : k = (Cardinality(InBox(infos[v].box)) > 1)
      <3>1. (Cardinality(InBox(infos[v].box)) > 1) \in BOOLEAN
        OBVIOUS
      <3> QED
        BY <3>1, Zenon
    <2>1. PICK x : /\ x \in DeleteType /\ x.pc \in {"subs", "count"} /\ x.box = infos[v].box /\ x.rows = {}
                   /\ del' = [del EXCEPT ![v] = x]
                   /\ \/ x.pc = "subs" /\ half' = IF start[v].pc = "done" THEN half ELSE half \cup {v}
                      \/ half' = half \cup {v}
      <3>0. PICK S : S = SubsOf(v) /\ S \in SUBSET Convs
        BY DEF SubsOf
      <3>1. PICK y : y = [pc |-> "subs", box |-> infos[v].box, shared |-> k, subs |-> S, rows |-> {}]
        OBVIOUS
      <3>2. PICK z : z = [y EXCEPT !.pc = "count", !.subs = {}]
        OBVIOUS
      <3>3. y \in DeleteType /\ y.pc = "subs" /\ y.box = infos[v].box /\ y.rows = {}
        BY <1>c, <3>0, <3>1 DEF DeleteType, InfoType
      <3>4. z \in DeleteType /\ z.pc = "count" /\ z.box = infos[v].box /\ z.rows = {}
        BY <3>2, <3>3 DEF DeleteType
      <3>5. \/ del' = [del EXCEPT ![v] = y] /\ half' = IF start[v].pc = "done" THEN half ELSE half \cup {v}
            \/ del' = [del EXCEPT ![v] = z] /\ half' = half \cup {v}
        BY <1>1, <2>0, <3>0, <3>1, <3>2 DEF DeleteBegins
      <3> QED
        BY <3>3, <3>4, <3>5
    <2>3. /\ ops' \in 0 .. MaxOps
          /\ UNCHANGED <<boxes, infos, start, saved, hook, overtaken, parent>>
          /\ del[v].pc = "idle" /\ infos[v].box # 0 /\ del[v].rows = {}
      BY <1>1, <1>a, <1>c, AppAssumption DEF DeleteBegins, ConvOK, HasBox
    <2>4. half' \subseteq Convs /\ half \subseteq half' /\ \A w \in Convs : w # v => (w \in half' <=> w \in half)
      BY <1>c, <2>1
    <2>5. AppTypeOK'
      <3>1. del' \in [Convs -> DeleteType]
        BY <1>c, <2>1
      <3> QED
        BY <1>a, <1>c, <2>3, <2>4, <3>1, TypesKept
    <2>6. del'[v] = x /\ \A w \in Convs : w # v => Untouched(w)
      BY <1>e, <2>1, <2>3, <2>4 DEF Untouched
    <2>7. BoxIds' = BoxIds /\ \A w : BoxesKeep(w)
      BY <2>3, SameBoxes
    <2>8. HasBox(v)'
      BY <1>a, <2>1, <2>3, <2>6 DEF ConvOK, HasBox
    <2>r. ReadyIsLast(v)'
      BY <1>a, <2>1, <2>3, <2>4, <2>6 DEF ConvOK, ReadyIsLast, Ready
    <2>9. WhereStarted(v)'
      BY <1>a, <2>3, <2>7 DEF ConvOK, WhereStarted, Posted, NoHook
    <2>10. AgentHas(v)' /\ RowIsStored(v)'
      BY <2>1, <2>6 DEF AgentHas, RowIsStored, Kept, Deleting
    <2> QED
      BY <2>5, <2>6, <2>7, <2>8, <2>r, <2>9, <2>10, ConvStep DEF ConvOK
  <1>2. CASE DeleteFromAgentServer(v)
    <2>1. PICK x : x = [del[v] EXCEPT !.pc = "rows"]
      OBVIOUS
    <2>2. x \in DeleteType /\ x.pc = "rows" /\ x.box = del[v].box /\ x.rows = del[v].rows
      <3>1. del[v] \in DeleteType
        BY <1>c
      <3> QED
        BY <2>1, <3>1 DEF DeleteType
    <2>3. /\ del' = [del EXCEPT ![v] = x]
          /\ UNCHANGED <<infos, start, saved, hook, half, overtaken, ops, parent>>
          /\ del[v].pc = "subs"
      BY <1>2, <2>1 DEF DeleteFromAgentServer
    <2>4. /\ boxes' \in Seq(BoxType) /\ Len(boxes') = Len(boxes) /\ BoxIds' = BoxIds
          /\ \A c \in BoxIds : boxes'[c].held \subseteq boxes[c].held
          /\ \A w \in Convs : w # v => BoxesKeep(w)
      <3>1. LeavesAgentServer(v, del[v].box)
        BY <1>2 DEF DeleteFromAgentServer, LeavesAgentServer
      <3>2. del[v].box \in 0 .. Len(boxes)
        BY <1>c DEF DeleteType
      <3> QED
        BY <1>f, <3>1, <3>2
    <2>5. AppTypeOK'
      BY <1>a, <1>c, <2>2, <2>3, <2>4, TypesKept
    <2>6. del'[v] = x /\ \A w \in Convs : w # v => Untouched(w)
      BY <1>e, <2>2, <2>3 DEF Untouched
    <2>8. HasBox(v)'
      BY <1>a, <2>2, <2>3, <2>6 DEF ConvOK, HasBox
    <2>r. ReadyIsLast(v)'
      BY <1>a, <2>2, <2>3, <2>6 DEF ConvOK, ReadyIsLast, Ready, Deleting
    <2>9. WhereStarted(v)'
      BY <1>a, <2>3, <2>4 DEF ConvOK, WhereStarted, Posted, NoHook
    <2>10. AgentHas(v)' /\ RowIsStored(v)'
      BY <2>2, <2>6 DEF AgentHas, RowIsStored, Kept, Deleting
    <2> QED
      BY <2>4, <2>5, <2>6, <2>8, <2>r, <2>9, <2>10, ConvStep DEF ConvOK
  (* What a deletion that is under way does to the others. *)
  <1>g. ASSUME NEW x \in DeleteType, del' = [del EXCEPT ![v] = x], x.box = del[v].box \/ x.pc = "idle",
               x.pc \notin {"subs", "rows"} => x.rows = {}, del[v].pc # "idle",
               boxes' \in Seq(BoxType), Len(boxes') = Len(boxes), BoxIds' = BoxIds,
               \A c \in BoxIds : boxes'[c].held \subseteq boxes[c].held,
               infos' \in [Convs -> InfoType], saved' \in [Convs -> SavedType],
               half' \subseteq Convs, half \subseteq half',
               UNCHANGED <<start, hook, overtaken, ops, parent>>,
               \A w \in Convs : saved'[w] = saved[w] \/ saved'[w].status # "READY",
               \A w \in Convs : w \notin half' /\ Deleting(w)' => start[w].pc = "done",
               v \notin half' /\ x.pc \in {"count", "remove"} => saved'[v].status # "READY",
               \A w \in Convs : w \notin half' /\ ~Deleting(w)' =>
                   \/ saved'[w].status # "READY" /\ start[w].pc = "done"
                   \/ ~Deleting(w) /\ BoxesKeep(w) /\ infos'[w] = infos[w] /\ saved'[w] = saved[w]
        PROVE  AppInv'
    <2>1. AppTypeOK'
      <3>1. del' \in [Convs -> DeleteType]
        BY <1>c, <1>g
      <3> QED
        BY <1>g, <1>a, <1>c, <3>1, TypesKept
    <2>2. \A w \in Convs : del'[w] = IF w = v THEN x ELSE del[w]
      BY <1>g, <1>c
    <2> SUFFICES ASSUME NEW w \in Convs PROVE ConvOK(w)'
      BY <2>1 DEF AppInv
    <2>a. ConvOK(w)
      BY DEF AppInv
    <2>3. HasBox(w)'
      BY <1>g, <2>a, <2>2 DEF ConvOK, HasBox
    <2>4. WhereStarted(w)'
      BY <1>g, <2>a DEF ConvOK, WhereStarted, Posted, NoHook
    <2>5. ReadyIsLast(w)'
      <3>1. saved'[w].status = "READY" => Ready(w) /\ saved'[w] = saved[w]
        BY <1>g DEF Ready
      <3>2. w # v => del'[w] = del[w]
        BY <2>2
      <3>3. w \notin half' => w \notin half
        BY <1>g
      <3>4. Ready(w)' => saved'[w].linked /\ start'[w].pc \in {"pending", "done"} /\ start'[w].box # 0
        BY <1>g, <2>a, <3>1 DEF ConvOK, ReadyIsLast, Ready
      <3>5. w \notin half' /\ Deleting(w)' => start'[w].pc = "done"
        BY <1>g
      <3>6. w \notin half' /\ del'[w].pc \in {"count", "remove"} => ~Ready(w)'
        <4>1. CASE w = v
          BY <1>g, <2>2, <4>1 DEF Ready
        <4>2. CASE w # v
          BY <2>a, <3>1, <3>2, <3>3, <4>2 DEF ConvOK, ReadyIsLast, Ready
        <4> QED
          BY <4>1, <4>2
      <3> QED
        BY <3>4, <3>5, <3>6 DEF ReadyIsLast
    <2>6. AgentHas(w)' /\ RowIsStored(w)'
      <3> SUFFICES ASSUME Kept(w)' PROVE AgentHas(w)' /\ RowIsStored(w)'
        BY DEF AgentHas, RowIsStored
      <3>1. CASE saved'[w].status # "READY" /\ start[w].pc = "done"
        BY <1>g, <3>1 DEF AgentHas, RowIsStored, Ready
      <3>2. CASE ~Deleting(w) /\ BoxesKeep(w) /\ infos'[w] = infos[w] /\ saved'[w] = saved[w]
        <4>1. Kept(w)
          BY <1>g, <3>2 DEF Kept
        <4>2. RowIsStored(w)'
          BY <1>g, <2>a, <3>2, <4>1 DEF ConvOK, RowIsStored, Ready, NoHook
        <4>3. AgentHas(w)'
          <5> SUFFICES ASSUME Ready(w) \/ start[w].pc \in {"save", "callbacks", "pending"}
                       PROVE  v \in Convs /\ (w \in boxes'[start[w].box].held \/ boxes'[start[w].box].status = "gone")
            BY <1>g, <3>2 DEF AgentHas, Ready
          <5>1. start[w] \in StartTaskType /\ start[w].box # 0
            BY <1>c, <2>a DEF ConvOK, HasBox, ReadyIsLast
          <5>2. start[w].box \in BoxIds
            BY <1>b, <5>1 DEF StartTaskType, BoxIds
          <5> QED
            BY <2>a, <3>2, <4>1, <5>2 DEF ConvOK, AgentHas, BoxesKeep
        <4> QED
          BY <4>2, <4>3
      <3> QED
        BY <1>g, <3>1, <3>2 DEF Kept
    <2> QED
      BY <2>3, <2>4, <2>5, <2>6 DEF ConvOK
  <1>s. ASSUME NEW u \in del[v].subs, DeleteSub(v, u) PROVE AppInv'
    <2>0. del[v] \in DeleteType /\ u \in Convs /\ del[v].pc = "subs"
      BY <1>c, <1>s DEF DeleteType, DeleteSub
    <2>1. PICK x : /\ x \in DeleteType /\ x.pc = "subs" /\ x.box = del[v].box
                   /\ del' = [del EXCEPT ![v] = x]
                   /\ \/ /\ x.rows = del[v].rows \cup {u}
                         /\ half' = IF start[u].pc = "done" THEN half ELSE half \cup {u}
                      \/ x.rows = del[v].rows /\ half' = half \cup {u}
      <3>1. PICK y : y = [del[v] EXCEPT !.subs = @ \ {u}, !.rows = @ \cup {u}]
        OBVIOUS
      <3>2. PICK z : z = [del[v] EXCEPT !.subs = @ \ {u}]
        OBVIOUS
      <3>3. y \in DeleteType /\ y.pc = "subs" /\ y.box = del[v].box /\ y.rows = del[v].rows \cup {u}
        BY <2>0, <3>1 DEF DeleteType
      <3>4. z \in DeleteType /\ z.pc = "subs" /\ z.box = del[v].box /\ z.rows = del[v].rows
        BY <2>0, <3>2 DEF DeleteType
      <3>5. \/ del' = [del EXCEPT ![v] = y] /\ half' = IF start[u].pc = "done" THEN half ELSE half \cup {u}
            \/ del' = [del EXCEPT ![v] = z] /\ half' = half \cup {u}
        BY <1>c, <1>s, <3>1, <3>2 DEF DeleteSub
      <3> QED
        BY <3>3, <3>4, <3>5
    <2>2. UNCHANGED <<infos, start, saved, hook, overtaken, ops, parent>>
      BY <1>s DEF DeleteSub
    <2>3. /\ boxes' \in Seq(BoxType) /\ Len(boxes') = Len(boxes) /\ BoxIds' = BoxIds
          /\ \A c \in BoxIds : boxes'[c].held \subseteq boxes[c].held
          /\ \A w \in Convs : w # u => BoxesKeep(w)
      <3>1. LeavesAgentServer(u, infos[u].box) /\ infos[u].box \in 0 .. Len(boxes)
        BY <1>c, <1>s, <2>0 DEF DeleteSub, InfoType
      <3> QED
        BY <1>f, <3>1
    <2>4. \A w \in Convs : del'[w] = IF w = v THEN x ELSE del[w]
      BY <1>c, <2>1
    <2>5. \A w \in Convs : w # u => (Deleting(w)' <=> Deleting(w))
      <3>1. \A w, p \in Convs : w # u => (w \in del'[p].rows <=> w \in del[p].rows)
        BY <2>1, <2>4
      <3>2. \A w \in Convs : del'[w].pc = del[w].pc
        BY <2>0, <2>1, <2>4
      <3> QED
        BY <3>1, <3>2 DEF Deleting
    <2>6. half' \subseteq Convs /\ half \subseteq half'
      BY <1>c, <2>0, <2>1
    <2>7. u \notin half' => Deleting(u)' /\ start[u].pc = "done"
      <3>1. u \notin half' => u \in del'[v].rows /\ start[u].pc = "done"
        BY <2>1, <2>4
      <3> QED
        BY <3>1 DEF Deleting
    <2>8. \A w \in Convs : w \notin half' /\ Deleting(w)' => start[w].pc = "done"
      BY <2>5, <2>6, <2>7 DEF AppInv, ConvOK, ReadyIsLast
    <2>9. \A w \in Convs : w \notin half' /\ ~Deleting(w)' => ~Deleting(w) /\ BoxesKeep(w)
      BY <2>3, <2>5, <2>7
    <2> QED
      BY <1>c, <1>g, <2>0, <2>1, <2>2, <2>3, <2>6, <2>8, <2>9
  <1>h. ASSUME NEW x \in DeleteType, del' = [del EXCEPT ![v] = x], x.rows = {}, del[v].pc # "idle"
        PROVE  /\ \A w \in Convs : w # v /\ w \notin del[v].rows => (Deleting(w)' <=> Deleting(w))
               /\ \A w \in Convs : Deleting(w)' => Deleting(w)
    <2>1. \A w \in Convs : del'[w] = IF w = v THEN x ELSE del[w]
      BY <1>c, <1>h
    <2> QED
      BY <1>h, <2>1 DEF Deleting
  <1>i. \A w \in Convs : w = v \/ w \in del[v].rows =>
           (del[v].pc # "idle" => Deleting(w)) /\ (w \notin half /\ del[v].pc # "idle" => start[w].pc = "done")
    BY DEF Deleting, AppInv, ConvOK, ReadyIsLast
  <1>3. CASE DeleteRows(v)
    <2>1. PICK x : x = [del[v] EXCEPT !.pc = "count", !.rows = {}]
      OBVIOUS
    <2>2. x \in DeleteType /\ x.pc = "count" /\ x.box = del[v].box /\ x.rows = {}
      <3>1. del[v] \in DeleteType
        BY <1>c
      <3> QED
        BY <2>1, <3>1 DEF DeleteType
    <2>3. del' = [del EXCEPT ![v] = x] /\ del[v].pc = "rows"
          /\ UNCHANGED <<boxes, start, hook, overtaken, ops, parent>>
      BY <1>3, <2>1 DEF DeleteRows
    <2>4. PICK I, T \in SUBSET Convs :
             /\ RowsGone(I, T) /\ del[v].rows \subseteq I /\ I \subseteq del[v].rows \cup {v}
             /\ del[v].rows \subseteq T /\ T \subseteq del[v].rows \cup {v}
             /\ \/ v \in T /\ half' = half
                \/ half' = half \cup {v}
      <3>1. del[v].rows \in SUBSET Convs
        BY <1>c DEF DeleteType
      <3> QED
        BY <1>3, <3>1 DEF DeleteRows
    <2>5. /\ infos' \in [Convs -> InfoType] /\ saved' \in [Convs -> SavedType]
          /\ \A w \in Convs : infos'[w] = IF w \in I THEN NoInfo ELSE infos[w]
          /\ \A w \in Convs : saved'[w] = IF w \in T /\ saved[w].linked THEN NoTask ELSE saved[w]
      BY <1>c, <1>d, <2>4 DEF RowsGone
    <2>6. BoxIds' = BoxIds /\ \A w : BoxesKeep(w)
      BY <2>3, SameBoxes
    <2>7. /\ boxes' \in Seq(BoxType) /\ Len(boxes') = Len(boxes)
          /\ \A c \in BoxIds : boxes'[c].held \subseteq boxes[c].held
      BY <1>a, <2>3
    <2>8. \A w \in Convs : saved'[w] = saved[w] \/ saved'[w].status # "READY"
      BY <2>5 DEF NoTask
    <2>9. \A w \in T : saved'[w].status # "READY"
      BY <2>5 DEF NoTask, AppInv, ConvOK, ReadyIsLast, Ready
    <2>10. half' \subseteq Convs /\ half \subseteq half' /\ (v \notin half' => v \in T)
      BY <1>c, <2>4
    <2>11. \A w \in Convs : w \notin half' /\ Deleting(w)' => start[w].pc = "done"
      BY <1>h, <2>2, <2>3, <2>10 DEF AppInv, ConvOK, ReadyIsLast
    <2>12. \A w \in Convs : w \notin half' /\ ~Deleting(w)' =>
               \/ saved'[w].status # "READY" /\ start[w].pc = "done"
               \/ ~Deleting(w) /\ BoxesKeep(w) /\ infos'[w] = infos[w] /\ saved'[w] = saved[w]
      <3> SUFFICES ASSUME NEW w \in Convs, w \notin half', ~Deleting(w)'
                   PROVE  \/ saved'[w].status # "READY" /\ start[w].pc = "done"
                          \/ ~Deleting(w) /\ BoxesKeep(w) /\ infos'[w] = infos[w] /\ saved'[w] = saved[w]
        OBVIOUS
      <3>1. CASE w = v \/ w \in del[v].rows
        BY <3>1, <1>i, <2>3, <2>4, <2>9, <2>10
      <3>2. CASE w # v /\ w \notin del[v].rows
        BY <3>2, <1>h, <2>2, <2>3, <2>4, <2>5, <2>6
      <3> QED
        BY <3>1, <3>2
    <2>13. v \notin half' => saved'[v].status # "READY"
      BY <2>9, <2>10
    <2> QED
      BY <1>g, <2>2, <2>3, <2>5, <2>6, <2>7, <2>8, <2>10, <2>11, <2>12, <2>13
  <1>j. CASE DeleteAborted(v)
    <2>1. /\ del' = [del EXCEPT ![v] = NoDelete] /\ del[v].pc \in {"subs", "rows"}
          /\ half' = half \cup del[v].rows \cup {v}
          /\ UNCHANGED <<boxes, infos, start, saved, hook, overtaken, ops, parent>>
      BY <1>j DEF DeleteAborted
    <2>2. NoDelete.pc = "idle" /\ NoDelete.rows = {}
      BY DEF NoDelete
    <2>3. BoxIds' = BoxIds /\ \A w : BoxesKeep(w)
      BY <2>1, SameBoxes
    <2>4. half' \subseteq Convs /\ half \subseteq half'
      BY <1>c, <2>1 DEF DeleteType
    <2>5. \A w \in Convs : w \notin half' /\ Deleting(w)' => start[w].pc = "done"
      BY <1>d, <1>h, <2>1, <2>2, <2>4 DEF AppInv, ConvOK, ReadyIsLast
    <2>6. \A w \in Convs : w \notin half' /\ ~Deleting(w)' => ~Deleting(w)
      BY <1>d, <1>h, <2>1, <2>2
    <2>7. /\ boxes' \in Seq(BoxType) /\ Len(boxes') = Len(boxes)
          /\ \A c \in BoxIds : boxes'[c].held \subseteq boxes[c].held
      BY <1>a, <2>1
    <2> QED
      BY <1>c, <1>d, <1>g, <2>1, <2>2, <2>3, <2>4, <2>5, <2>6, <2>7
  <1>4. ASSUME NEW x \in DeleteType, x.pc \in {"idle", "remove"}, x.pc = "remove" => x.box = del[v].box,
               x.rows = {},
               del' = [del EXCEPT ![v] = x], del[v].pc \in {"count", "remove"},
               UNCHANGED <<infos, start, saved, hook, half, overtaken, ops, parent>>,
               boxes' \in Seq(BoxType), Len(boxes') = Len(boxes), BoxIds' = BoxIds,
               \A w : BoxesKeep(w)
        PROVE  AppInv'
    <2>1. AppTypeOK'
      BY <1>4, <1>a, <1>c, TypesKept
    <2>0. del[v].rows = {}
      BY <1>4, <1>a DEF ConvOK, HasBox
    <2>2. del'[v] = x /\ \A w \in Convs : w # v => Untouched(w)
      BY <1>4, <1>e, <2>0 DEF Untouched
    <2>d. (Deleting(v)' => Deleting(v)) /\ Deleting(v)
      BY <1>4, <1>h DEF Deleting
    <2>3. HasBox(v)' /\ ReadyIsLast(v)'
      BY <1>4, <1>a, <2>2, <2>d DEF ConvOK, HasBox, ReadyIsLast, Ready
    <2>4. WhereStarted(v)'
      BY <1>4, <1>a DEF ConvOK, WhereStarted, Posted, NoHook, BoxesKeep
    <2>5. AgentHas(v)' /\ RowIsStored(v)'
      BY <1>4, <1>a, <2>d DEF ConvOK, ReadyIsLast, AgentHas, RowIsStored, Kept, Ready
    <2> QED
      BY <1>4, <2>1, <2>2, <2>3, <2>4, <2>5, ConvStep DEF ConvOK
  <1>5. CASE CountRemaining(v)
    <2>1. PICK x : x = [del[v] EXCEPT !.pc = "remove"]
      OBVIOUS
    <2>2. x \in DeleteType /\ x.pc = "remove" /\ x.box = del[v].box /\ x.rows = {} /\ NoDelete.rows = {}
      <3>1. del[v] \in DeleteType /\ del[v].rows = {} /\ NoDelete.rows = {}
        BY <1>5, <1>a, <1>c DEF CountRemaining, ConvOK, HasBox, NoDelete
      <3> QED
        BY <2>1, <3>1 DEF DeleteType
    <2>3. /\ del' = [del EXCEPT ![v] = x] \/ del' = [del EXCEPT ![v] = NoDelete]
          /\ UNCHANGED <<boxes, infos, start, saved, hook, half, overtaken, ops, parent>>
          /\ del[v].pc = "count" /\ NoDelete.pc = "idle"
      BY <1>5, <2>1 DEF CountRemaining, NoDelete
    <2>4. BoxIds' = BoxIds /\ boxes' \in Seq(BoxType) /\ Len(boxes') = Len(boxes) /\ \A w : BoxesKeep(w)
      BY <1>a, <2>3, SameBoxes
    <2> QED
      BY <1>4, <1>d, <2>2, <2>3, <2>4
  <1>6. CASE RemoveBox(v)
    <2>1. PICK b, y : b = del[v].box /\ y = [status |-> "gone", held |-> {}]
      OBVIOUS
    <2>2. b \in BoxIds
      BY <1>6, <1>a, <1>b, <1>c, <2>1 DEF DeleteType, RemoveBox, ConvOK, HasBox, BoxIds
    <2>3. y \in BoxType /\ y.status = "gone" /\ y.held = {}
      BY <2>1 DEF BoxType
    <2>4. /\ boxes' = [boxes EXCEPT ![b] = y] /\ del' = [del EXCEPT ![v] = NoDelete]
          /\ UNCHANGED <<infos, start, saved, hook, half, overtaken, ops, parent>>
          /\ del[v].pc = "remove" /\ NoDelete.pc = "idle" /\ NoDelete.rows = {}
      BY <1>6, <2>1 DEF RemoveBox, NoDelete
    <2>5. /\ boxes' \in Seq(BoxType) /\ Len(boxes') = Len(boxes)
          /\ \A c \in BoxIds : boxes'[c] = IF c = b THEN y ELSE boxes[c]
      BY <1>a, <2>2, <2>3, <2>4, ExceptSeq DEF BoxIds
    <2>6. BoxIds' = BoxIds
      BY <2>5 DEF BoxIds
    <2>7. \A w : BoxesKeep(w)
      BY <2>3, <2>5, <2>6 DEF BoxesKeep
    <2> QED
      BY <1>4, <1>d, <2>4, <2>5, <2>6, <2>7
  <1> QED
    BY <1>1, <1>2, <1>3, <1>5, <1>6, <1>j, <1>s DEF DeleteStep

LEMMA AppInvStep ==
    ASSUME AppInv, [AppNext]_appVars
    PROVE  AppInv'
  <1>1. CASE UNCHANGED appVars
    <2>1. boxes' \in Seq(BoxType) /\ Len(boxes') = Len(boxes) /\ \A v : BoxesKeep(v)
      BY <1>1, SameBoxes DEF appVars, AppInv, AppTypeOK
    <2> QED
      BY <1>1, <2>1, BoxesMove DEF appVars, AppInv, AppTypeOK
  <1>2. CASE AppNext
    BY <1>2, StartBegins, StartEnds, HookStep, DeleteKeeps, BoxStep DEF AppNext, StartStep
  <1> QED
    BY <1>1, <1>2

LEMMA AppInvInit == AppInit => AppInv
  <1> SUFFICES ASSUME AppInit PROVE AppInv
    OBVIOUS
  <1>1. PICK x : x = [status |-> "running", held |-> {}]
    OBVIOUS
  <1>2. x \in BoxType /\ x.held = {} /\ boxes = <<x>>
    BY <1>1 DEF BoxType, AppInit
  <1>3. boxes \in Seq(BoxType) /\ Len(boxes) = 1 /\ boxes[1] = x /\ BoxIds = {1}
    BY <1>2 DEF BoxIds
  <1>4. AppTypeOK
    <2>1. NoInfo \in InfoType /\ NoHook \in InfoType /\ NoTask \in SavedType /\ NoDelete \in DeleteType
          /\ [pc |-> "idle", box |-> 0] \in StartTaskType
      BY <1>3 DEF NoInfo, NoHook, NoTask, NoDelete, InfoType, SavedType, DeleteType, StartTaskType
    <2> QED
      BY <1>3, <2>1, AppAssumption DEF AppInit, AppTypeOK
  <1>5. \A v \in Convs : ConvOK(v)
    BY <1>2, <1>3 DEF AppInit, ConvOK, HasBox, WhereStarted, ReadyIsLast, Deleting, AgentHas, RowIsStored, Ready,
                      NoTask, NoDelete, NoHook
  <1> QED
    BY <1>4, <1>5 DEF AppInv

(* However starts, web hooks, deletions and what happens to sandboxes      *)
(* interleave, a READY task's conversation is stored, with the metadata it *)
(* was started with and the sandbox whose agent server has it, with the    *)
(* exceptions ReadyKeepsPromise names (_start_app_conversation,            *)
(* on_conversation_update, _delete_from_database).                         *)
THEOREM AppCorrect == AppSpec => []AppTypeOK /\ []ReadyKeepsPromise
  <1>1. AppInv => AppTypeOK
    BY DEF AppInv
  <1>2. AppInv => ReadyKeepsPromise
    <2> SUFFICES ASSUME AppInv, NEW v \in Convs, Ready(v), Kept(v)
                 PROVE  /\ infos[v].box = start[v].box
                        /\ \/ v \in boxes[start[v].box].held
                           \/ boxes[start[v].box].status = "gone"
                        /\ v \notin overtaken => infos[v].full
      BY DEF ReadyKeepsPromise, ReadyIsStored, MetadataPreserved, Ready, Kept, Deleting
    <2> QED
      BY DEF AppInv, ConvOK, AgentHas, RowIsStored
  <1> QED
    BY <1>1, <1>2, AppInvInit, AppInvStep, PTL DEF AppSpec

-----------------------------------------------------------------------------
(* Pending messages: the queue is faithful.                                *)

Waiting(id) == {c \in Senders : sender[c] = id}
Disposed(m) == m \in failed \/ \E i \in 1 .. Len(posted) : posted[i] = m

(* Rows and requests under way together: a request is let in below the     *)
(* limit, whoever else is on the way.                                      *)
Limited ==
    /\ IsFiniteSet(rows)
    /\ \A id \in {"task", "hex"} :
          Cardinality(Under(id)) + Cardinality(Waiting(id)) < MaxQueued + Cardinality(Senders)

(* Each message has one row, and was accepted. *)
RowsDistinct ==
    /\ \A r \in rows : r.msg <= queued
    /\ \A r, q \in rows : r.msg = q.msg => r = q

(* The renaming is the only way to the conversation's id. *)
Renamed == proc.pc \in {"idle", "rename", "over"} => Under("conversation") = {}

(* What the renaming does not find is late. *)
OthersLate ==
    \A r \in rows : \/ r.id = "conversation" \/ r.msg \in late
                    \/ r.id = "task" /\ proc.pc \in {"idle", "rename"}

(* What is read is worked off: it is to be posted, or settled. *)
WorkedOff ==
    /\ proc.pc # "post" => proc.batch = {}
    /\ proc.pc \in {"idle", "rename", "read"} => posted = <<>>
    /\ proc.batch \subseteq Under("conversation")
    /\ proc.pc = "post" =>
          \A r \in Under("conversation") : r \in proc.batch \/ Disposed(r.msg)
    /\ \A i \in 1 .. Len(posted) : \A r \in proc.batch : posted[i] < r.msg

PendingInv ==
    /\ PendingTypeOK /\ Limited /\ RowsDistinct /\ Renamed /\ OthersLate /\ WorkedOff
    /\ QueueIsFaithful

LEMMA PendingInitInv == PendingInit => PendingInv
  <1> SUFFICES ASSUME PendingInit PROVE PendingInv
    OBVIOUS
  <1> USE PendingAssumption
  <1>1. \A id : Under(id) = {}
    BY DEF PendingInit, Under
  <1>2. \A id \in {"task", "hex"} : Waiting(id) = {}
    BY DEF PendingInit, Waiting
  <1>3. Cardinality({}) = 0 /\ IsFiniteSet({}) /\ Cardinality(Senders) \in Nat
    BY FS_EmptySet, FS_CardinalityType
  <1>4. Limited
    <2>1. IsFiniteSet(rows)
      BY <1>3 DEF PendingInit
    <2>2. \A id \in {"task", "hex"} : Cardinality(Under(id)) = 0 /\ Cardinality(Waiting(id)) = 0
      BY <1>1, <1>2, <1>3
    <2>3. 0 + 0 < MaxQueued + Cardinality(Senders)
      BY <1>3
    <2> QED
      BY <2>1, <2>2, <2>3 DEF Limited
  <1>5. PendingTypeOK
    <2>1. ready \in BOOLEAN /\ seen \in BOOLEAN
      BY Zenon DEF PendingInit
    <2>2. \A id \in {"task", "hex"} : Cardinality(Under(id)) < MaxQueued + Cardinality(Senders)
      BY <1>1, <1>3
    <2>3. /\ rows \subseteq RowType /\ sender \in [Senders -> {"idle", "task", "hex"}]
          /\ queued \in 0 .. MaxMessages /\ posted \in Seq(1 .. MaxMessages)
          /\ proc \in [pc : {"idle", "rename", "read", "post", "over"}, batch : SUBSET RowType]
          /\ failed \subseteq 1 .. MaxMessages /\ late \subseteq 1 .. MaxMessages
      BY DEF PendingInit
    <2> QED
      BY <2>1, <2>2, <2>3 DEF PendingTypeOK
  <1>6. RowsDistinct /\ Renamed /\ OthersLate /\ WorkedOff
    BY <1>1 DEF RowsDistinct, Renamed, OthersLate, WorkedOff, PendingInit
  <1>7. QueueIsFaithful
    BY DEF QueueIsFaithful, NoMessageVanishes, PostedInOrder, LeftIsLate, PendingInit
  <1> QED
    BY <1>4, <1>5, <1>6, <1>7 DEF PendingInv

LEMMA Counts ==
    ASSUME PendingInv, NEW id
    PROVE  /\ IsFiniteSet(Under(id)) /\ Cardinality(Under(id)) \in Nat
           /\ IsFiniteSet(Waiting(id)) /\ Cardinality(Waiting(id)) \in Nat
           /\ Cardinality(Waiting(id)) <= Cardinality(Senders)
           /\ Cardinality(Senders) \in Nat
  <1>1. Under(id) \in SUBSET rows /\ Waiting(id) \in SUBSET Senders
    BY DEF Under, Waiting
  <1>2. IsFiniteSet(rows) /\ IsFiniteSet(Senders)
    BY PendingAssumption DEF PendingInv, Limited
  <1> QED
    BY <1>1, <1>2, FS_Subset, FS_CardinalityType

(* Steps that change neither the table nor what was posted. *)
LEMMA CheckLimitStep ==
    ASSUME PendingInv, NEW c \in Senders, CheckLimit(c)
    PROVE  PendingInv'
  <1> USE PendingAssumption
  <1>1. PICK id \in {"task", "hex"} :
           sender' = [sender EXCEPT ![c] = id] /\ Cardinality(Under(id)) < MaxQueued
    BY DEF CheckLimit
  <1>2. sender[c] = "idle" /\ UNCHANGED <<rows, queued, ready, seen, proc, posted, failed, late>>
    BY DEF CheckLimit
  <1>3. \A d : Under(d)' = Under(d)
    BY <1>2 DEF Under
  <1>4. sender' \in [Senders -> {"idle", "task", "hex"}]
    BY <1>1 DEF PendingInv, PendingTypeOK
  <1>5. Limited'
    <2>1. \A d \in {"task", "hex"} : d # id => Waiting(d)' = Waiting(d)
      BY <1>1, <1>2 DEF Waiting, PendingInv, PendingTypeOK
    <2>2. Waiting(id)' \in SUBSET Senders
      BY DEF Waiting
    <2>3. Cardinality(Waiting(id)') <= Cardinality(Senders) /\ Cardinality(Waiting(id)') \in Nat
      BY <2>2, FS_Subset, FS_CardinalityType
    <2>4. Cardinality(Under(id)) + Cardinality(Waiting(id)') < MaxQueued + Cardinality(Senders)
      BY <1>1, <2>3, Counts
    <2> QED
      BY <1>2, <1>3, <2>1, <2>4 DEF PendingInv, Limited
  <1>6. PendingTypeOK'
    BY <1>2, <1>3, <1>4 DEF PendingInv, PendingTypeOK
  <1>7. (RowsDistinct /\ Renamed /\ OthersLate /\ WorkedOff /\ QueueIsFaithful)'
    BY <1>2 DEF PendingInv, RowsDistinct, Renamed, OthersLate, WorkedOff, Under, Disposed,
                QueueIsFaithful, NoMessageVanishes, PostedInOrder, LeftIsLate, Messages
  <1> QED
    BY <1>5, <1>6, <1>7 DEF PendingInv

LEMMA ReadyStep ==
    ASSUME PendingInv, SeeReady \/ BecomesReady
    PROVE  PendingInv'
  <1>1. UNCHANGED <<rows, sender, queued, posted, failed, late>>
    BY DEF SeeReady, BecomesReady
  <1>2. /\ proc'.batch = proc.batch /\ (proc' = proc \/ (proc.pc = "idle" /\ proc'.pc = "rename"))
        /\ proc' \in [pc : {"idle", "rename", "read", "post", "over"}, batch : SUBSET RowType]
    BY DEF SeeReady, BecomesReady, PendingInv, PendingTypeOK
  <1>3. ready' \in BOOLEAN /\ seen' \in BOOLEAN
    BY Zenon DEF SeeReady, BecomesReady, PendingInv, PendingTypeOK
  <1>4. \A d : Under(d)' = Under(d) /\ Waiting(d)' = Waiting(d)
    BY <1>1 DEF Under, Waiting
  <1>5. PendingTypeOK' /\ Limited'
    BY <1>1, <1>2, <1>3, <1>4 DEF PendingInv, PendingTypeOK, Limited
  <1>6. (RowsDistinct /\ Renamed /\ OthersLate /\ WorkedOff)'
    BY <1>1, <1>2, <1>4 DEF PendingInv, RowsDistinct, Renamed, OthersLate, WorkedOff, Disposed
  <1>7. QueueIsFaithful'
    BY <1>1, <1>2 DEF PendingInv, QueueIsFaithful, NoMessageVanishes, PostedInOrder, LeftIsLate,
                      Messages
  <1> QED
    BY <1>5, <1>6, <1>7 DEF PendingInv

LEMMA AddMessageStep ==
    ASSUME PendingInv, NEW c \in Senders, AddMessage(c)
    PROVE  PendingInv'
  <1> USE PendingAssumption
  <1> DEFINE new == [msg |-> queued + 1, id |-> sender[c]]
  <1>1. /\ sender[c] \in {"task", "hex"} /\ queued < MaxMessages /\ queued' = queued + 1
        /\ rows' = rows \cup {new} /\ sender' = [sender EXCEPT ![c] = "idle"]
        /\ UNCHANGED <<ready, seen, proc, posted, failed>>
    BY DEF AddMessage, PendingInv, PendingTypeOK
  <1>2. /\ late \subseteq late' /\ late' \subseteq late \cup {queued + 1}
        /\ new.msg \in late' \/ (new.id = "task" /\ proc.pc \in {"idle", "rename"})
    BY DEF AddMessage
  <1>3. queued \in Nat /\ new \in RowType /\ new \notin rows
    BY <1>1 DEF PendingInv, PendingTypeOK, RowsDistinct, RowType
  <1>4. \A d : Under(d)' = IF d = sender[c] THEN Under(d) \cup {new} ELSE Under(d)
    BY <1>1 DEF Under
  <1>5. \A d \in {"task", "hex"} :
           Waiting(d)' = IF d = sender[c] THEN Waiting(d) \ {c} ELSE Waiting(d)
    BY <1>1 DEF Waiting, PendingInv, PendingTypeOK
  <1>6. \A d \in {"task", "hex"} :
           Cardinality(Under(d)') + Cardinality(Waiting(d)') =
           Cardinality(Under(d)) + Cardinality(Waiting(d))
    <2> TAKE d \in {"task", "hex"}
    <2>1. CASE d = sender[c]
      <3>1. new \notin Under(d) /\ c \in Waiting(d)
        BY <1>3, <2>1 DEF Under, Waiting
      <3>2. Cardinality(Under(d)') = Cardinality(Under(d)) + 1
        BY <1>4, <2>1, <3>1, Counts, FS_AddElement
      <3>3. Cardinality(Waiting(d)') = Cardinality(Waiting(d)) - 1
        BY <1>5, <2>1, <3>1, Counts, FS_RemoveElement
      <3> QED
        BY <3>2, <3>3, Counts
    <2>2. CASE d # sender[c]
      BY <1>4, <1>5, <2>2
    <2> QED
      BY <2>1, <2>2
  <1>7. Limited'
    <2>1. IsFiniteSet(rows')
      BY <1>1, FS_AddElement DEF PendingInv, Limited
    <2> QED
      BY <1>6, <2>1 DEF PendingInv, Limited
  <1>8. PendingTypeOK'
    <2>1. \A d \in {"task", "hex"} : Cardinality(Under(d)') < MaxQueued + Cardinality(Senders)
      <3> TAKE d \in {"task", "hex"}
      <3>1. Cardinality(Waiting(d)') \in Nat
        BY <1>5, Counts, FS_RemoveElement, FS_CardinalityType
      <3>2. IsFiniteSet(Under(d)')
        BY <1>4, Counts, FS_AddElement
      <3>3. Cardinality(Under(d)') \in Nat /\ Cardinality(Senders) \in Nat
        BY <3>2, FS_CardinalityType
      <3>4. Cardinality(Under(d)') + Cardinality(Waiting(d)') < MaxQueued + Cardinality(Senders)
        BY <1>7 DEF Limited
      <3> QED
        BY <3>1, <3>3, <3>4
    <2>2. /\ rows' \subseteq RowType /\ queued' \in 0 .. MaxMessages
          /\ late' \subseteq 1 .. MaxMessages
      BY <1>1, <1>2, <1>3 DEF PendingInv, PendingTypeOK
    <2>3. sender' \in [Senders -> {"idle", "task", "hex"}]
      BY <1>1 DEF PendingInv, PendingTypeOK
    <2> QED
      BY <1>1, <2>1, <2>2, <2>3 DEF PendingInv, PendingTypeOK
  <1>9. RowsDistinct'
    <2>1. \A r \in rows : r.msg <= queued /\ r.msg \in Nat
      BY DEF PendingInv, RowsDistinct, PendingTypeOK, RowType
    <2>2. new.msg = queued + 1
      OBVIOUS
    <2>3. \A r \in rows' : r = new \/ r \in rows
      BY <1>1
    <2> HIDE DEF new
    <2> QED
      BY <1>1, <1>3, <2>1, <2>2, <2>3 DEF PendingInv, RowsDistinct
  <1>10. (Renamed /\ OthersLate /\ WorkedOff)'
    <2>1. Under("conversation")' = Under("conversation")
      BY <1>1, <1>4
    <2>2. Renamed' /\ WorkedOff'
      BY <1>1, <2>1 DEF PendingInv, Renamed, WorkedOff, Disposed
    <2>3. OthersLate'
      BY <1>1, <1>2 DEF PendingInv, OthersLate
    <2> QED
      BY <2>2, <2>3
  <1>11. QueueIsFaithful'
    <2>1. Messages(rows') = Messages(rows) \cup {queued + 1}
      <3>1. new.msg = queued + 1 /\ rows' = rows \cup {new}
        BY <1>1
      <3> HIDE DEF new
      <3> QED
        BY <3>1 DEF Messages
    <2>2. NoMessageVanishes'
      <3>1. \A m \in 1 .. queued' : m \in 1 .. queued \/ m = queued + 1
        BY <1>1, <1>3
      <3>2. Messages(rows)' = Messages(rows') /\ Messages(proc.batch)' = Messages(proc.batch)
        BY <1>1 DEF Messages
      <3>3. NoMessageVanishes
        BY DEF PendingInv, QueueIsFaithful
      <3> QED
        BY <1>1, <2>1, <3>1, <3>2, <3>3 DEF NoMessageVanishes
    <2>3. PostedInOrder'
      BY <1>1 DEF PendingInv, QueueIsFaithful, PostedInOrder
    <2>4. LeftIsLate'
      BY <1>1, <1>2, <2>1 DEF PendingInv, QueueIsFaithful, LeftIsLate
    <2> QED
      BY <2>2, <2>3, <2>4 DEF QueueIsFaithful
  <1> QED
    BY <1>7, <1>8, <1>9, <1>10, <1>11 DEF PendingInv

LEMMA RenameStep ==
    ASSUME PendingInv, RenameQueued
    PROVE  PendingInv'
  <1> DEFINE new(r) == IF r.id = "task" THEN [r EXCEPT !.id = "conversation"] ELSE r
  <1>1. /\ proc.pc = "rename" /\ rows' = {new(r) : r \in rows}
        /\ proc' = [proc EXCEPT !.pc = "read"]
        /\ UNCHANGED <<sender, queued, ready, seen, posted, failed, late>>
    BY DEF RenameQueued
  <1>2. /\ proc'.pc = "read" /\ proc'.batch = proc.batch
        /\ proc' \in [pc : {"idle", "rename", "read", "post", "over"}, batch : SUBSET RowType]
    BY <1>1 DEF PendingInv, PendingTypeOK
  <1>3. proc.batch = {} /\ posted = <<>>
    BY <1>1 DEF PendingInv, WorkedOff
  <1>4. \A r \in rows : /\ new(r) \in RowType /\ new(r).msg = r.msg /\ new(r).id # "task"
                        /\ new(r).id = "hex" => r.id = "hex" /\ new(r) = r
                        /\ r.id = "hex" => new(r) = r
                        /\ r.id \in {"task", "hex", "conversation"}
    BY DEF PendingInv, PendingTypeOK, RowType
  <1>5. \A q \in rows' : \E r \in rows : q = new(r)
    BY <1>1
  <1>6. \A r \in rows : new(r) \in rows'
    BY <1>1
  <1> HIDE DEF new
  <1>7. Under("task")' = {} /\ Under("hex")' = Under("hex")
    BY <1>4, <1>5, <1>6 DEF Under
  <1>8. Messages(rows') = Messages(rows)
    BY <1>4, <1>5, <1>6 DEF Messages
  <1>9. IsFiniteSet(rows')
    <2> DEFINE f == [r \in rows |-> new(r)]
    <2>1. f \in Surjection(rows, rows')
      BY <1>5, <1>6 DEF Surjection
    <2> QED
      BY <2>1, FS_Surjection DEF PendingInv, Limited
  <1>10. /\ Waiting("task")' = Waiting("task") /\ Waiting("hex")' = Waiting("hex")
         /\ Cardinality({}) = 0
    BY <1>1, FS_EmptySet DEF Waiting
  <1>11. Limited'
    <2>1. /\ 0 + Cardinality(Waiting("task")) < MaxQueued + Cardinality(Senders)
          /\ Cardinality(Under("hex")) + Cardinality(Waiting("hex")) <
             MaxQueued + Cardinality(Senders)
      BY Counts, PendingAssumption DEF PendingInv, Limited
    <2> QED
      BY <1>7, <1>9, <1>10, <2>1 DEF Limited
  <1>12. PendingTypeOK'
    <2>1. rows' \subseteq RowType
      BY <1>4, <1>5
    <2>2. \A d \in {"task", "hex"} : Cardinality(Under(d)') < MaxQueued + Cardinality(Senders)
      <3>1. Cardinality(Senders) \in Nat
        BY FS_CardinalityType, PendingAssumption
      <3>2. 0 < MaxQueued + Cardinality(Senders)
        BY <3>1, PendingAssumption
      <3>3. Cardinality(Under("hex")) < MaxQueued + Cardinality(Senders)
        BY DEF PendingInv, PendingTypeOK
      <3> QED
        BY <1>7, <1>10, <3>2, <3>3
    <2> QED
      BY <1>1, <1>2, <2>1, <2>2 DEF PendingInv, PendingTypeOK
  <1>13. RowsDistinct'
    BY <1>1, <1>4, <1>5 DEF PendingInv, RowsDistinct
  <1>14. Renamed' /\ OthersLate'
    <2>1. Renamed'
      BY <1>2 DEF Renamed
    <2>2. ASSUME NEW q \in rows'
          PROVE  q.id = "conversation" \/ q.msg \in late
      <3>1. PICK r \in rows : q = new(r)
        BY <1>5
      <3>2. q.id # "hex" => q.id = "conversation"
        BY <3>1, <1>4 DEF RowType
      <3>3. q.id = "hex" => r = q /\ r.msg \in late
        BY <3>1, <1>4 DEF PendingInv, OthersLate
      <3> QED
        BY <3>2, <3>3
    <2> QED
      BY <1>1, <2>1, <2>2 DEF OthersLate
  <1>15. WorkedOff'
    BY <1>1, <1>2, <1>3 DEF WorkedOff, Disposed
  <1>16. QueueIsFaithful'
    <2>1. Messages(rows)' = Messages(rows) /\ Messages(proc.batch)' = Messages(proc.batch)
      BY <1>2, <1>8 DEF Messages
    <2> QED
      BY <1>1, <1>2, <2>1 DEF PendingInv, QueueIsFaithful, NoMessageVanishes, PostedInOrder,
                              LeftIsLate
  <1> QED
    BY <1>11, <1>12, <1>13, <1>14, <1>15, <1>16 DEF PendingInv

LEMMA ReadQueuedStep ==
    ASSUME PendingInv, ReadQueued
    PROVE  PendingInv'
  <1>1. /\ proc.pc = "read"
        /\ UNCHANGED <<rows, sender, queued, ready, seen, posted, failed, late>>
    BY DEF ReadQueued
  <1>2. /\ proc'.pc = IF Under("conversation") = {} THEN "over" ELSE "post"
        /\ proc'.batch = Under("conversation")
        /\ proc' \in [pc : {"idle", "rename", "read", "post", "over"}, batch : SUBSET RowType]
    BY DEF ReadQueued, PendingInv, PendingTypeOK, Under
  <1>3. proc.batch = {} /\ posted = <<>>
    BY <1>1 DEF PendingInv, WorkedOff
  <1>4. \A d : Under(d)' = Under(d) /\ Waiting(d)' = Waiting(d)
    BY <1>1 DEF Under, Waiting
  <1>5. PendingTypeOK' /\ Limited'
    BY <1>1, <1>2, <1>4 DEF PendingInv, PendingTypeOK, Limited
  <1>6. RowsDistinct' /\ Renamed'
    BY <1>1, <1>2, <1>4 DEF PendingInv, RowsDistinct, Renamed
  <1>7. OthersLate'
    BY <1>1 DEF PendingInv, OthersLate
  <1>8. WorkedOff'
    BY <1>1, <1>2, <1>3, <1>4 DEF WorkedOff, Disposed
  <1>9. QueueIsFaithful'
    <2>1. Messages(rows)' = Messages(rows) /\ Messages({}) = {}
      BY <1>1 DEF Messages
    <2>2. NoMessageVanishes'
      BY <1>1, <1>3, <2>1 DEF PendingInv, QueueIsFaithful, NoMessageVanishes
    <2>3. PostedInOrder'
      BY <1>1 DEF PendingInv, QueueIsFaithful, PostedInOrder
    <2>4. LeftIsLate'
      <3>1. proc'.pc = "over" => Under("conversation") = {}
        BY <1>2
      <3>2. proc'.pc = "over" => \A r \in rows : r.msg \in late
        BY <1>1, <3>1 DEF PendingInv, OthersLate, Under
      <3> QED
        BY <1>1, <3>2 DEF LeftIsLate, Messages
    <2> QED
      BY <2>2, <2>3, <2>4 DEF QueueIsFaithful
  <1> QED
    BY <1>5, <1>6, <1>7, <1>8, <1>9 DEF PendingInv

LEMMA PostNextStep ==
    ASSUME PendingInv, PostNext
    PROVE  PendingInv'
  <1>1. PICK r \in proc.batch :
           /\ \A q \in proc.batch : r.msg <= q.msg
           /\ proc' = [proc EXCEPT !.batch = @ \ {r}]
           /\ \/ posted' = Append(posted, r.msg) /\ failed' = failed
              \/ posted' = posted /\ failed' = failed \cup {r.msg}
              \/ posted' = Append(posted, r.msg) /\ failed' = failed \cup {r.msg}
    BY DEF PostNext
  <1>2. proc.pc = "post" /\ UNCHANGED <<rows, sender, queued, ready, seen, late>>
    BY DEF PostNext
  <1>3. /\ proc'.pc = "post" /\ proc'.batch = proc.batch \ {r}
        /\ proc' \in [pc : {"idle", "rename", "read", "post", "over"}, batch : SUBSET RowType]
    BY <1>1, <1>2 DEF PendingInv, PendingTypeOK
  <1>4. /\ r \in rows /\ r.msg \in 1 .. MaxMessages
        /\ \A q \in proc.batch : q \in rows /\ q.msg \in Nat
    BY PendingAssumption DEF PendingInv, PendingTypeOK, WorkedOff, Under, RowType
  <1>5. /\ posted \in Seq(1 .. MaxMessages) /\ Len(posted) \in Nat
        /\ \A i \in 1 .. Len(posted) : posted[i] \in 1 .. MaxMessages
    <2>1. posted \in Seq(1 .. MaxMessages)
      BY DEF PendingInv, PendingTypeOK
    <2> QED
      BY <2>1, LenProperties, ElementOfSeq
  <1>6. /\ posted' \in Seq(1 .. MaxMessages) /\ failed' \subseteq 1 .. MaxMessages
        /\ Len(posted') \in {Len(posted), Len(posted) + 1}
        /\ \A i \in 1 .. Len(posted) : posted'[i] = posted[i]
        /\ Len(posted') = Len(posted) + 1 => posted'[Len(posted) + 1] = r.msg
        /\ failed \subseteq failed'
        /\ Len(posted') = Len(posted) => r.msg \in failed'
    <2>1. /\ Append(posted, r.msg) \in Seq(1 .. MaxMessages)
          /\ Len(Append(posted, r.msg)) = Len(posted) + 1
          /\ \A i \in 1 .. Len(posted) : Append(posted, r.msg)[i] = posted[i]
          /\ Append(posted, r.msg)[Len(posted) + 1] = r.msg
      BY <1>4, <1>5
    <2>2. failed \subseteq 1 .. MaxMessages
      BY DEF PendingInv, PendingTypeOK
    <2>3. CASE posted' = posted /\ failed' = failed \cup {r.msg}
      <3>1. Len(posted) # Len(posted) + 1 /\ r.msg \in failed' /\ failed \subseteq failed'
        BY <1>5, <2>3
      <3>2. failed' \subseteq 1 .. MaxMessages
        BY <1>4, <2>2, <2>3
      <3> QED
        BY <1>5, <2>3, <3>1, <3>2
    <2>4. CASE posted' = Append(posted, r.msg) /\ failed' \in {failed, failed \cup {r.msg}}
      <3>1. Len(posted') = Len(posted) + 1 /\ Len(posted) # Len(posted) + 1
        BY <1>5, <2>1, <2>4
      <3>2. failed \subseteq failed' /\ failed' \subseteq 1 .. MaxMessages
        BY <1>4, <2>2, <2>4
      <3>3. Len(posted') # Len(posted)
        BY <3>1
      <3> QED
        BY <1>5, <2>1, <2>4, <3>1, <3>2, <3>3
    <2> QED
      BY <1>1, <2>3, <2>4
  <1>7. \A m : Disposed(m) => Disposed(m)'
    <2>1. ASSUME NEW m, Disposed(m) PROVE Disposed(m)'
      <3>1. \A i \in 1 .. Len(posted) : i \in 1 .. Len(posted')
        BY <1>5, <1>6
      <3> QED
        BY <1>6, <2>1, <3>1 DEF Disposed
    <2> QED
      BY <2>1
  <1>8. Disposed(r.msg)'
    BY <1>5, <1>6 DEF Disposed
  <1>9. \A d : Under(d)' = Under(d) /\ Waiting(d)' = Waiting(d)
    BY <1>2 DEF Under, Waiting
  <1>10. PendingTypeOK' /\ Limited'
    BY <1>2, <1>3, <1>6, <1>9 DEF PendingInv, PendingTypeOK, Limited
  <1>11. (RowsDistinct /\ Renamed /\ OthersLate)'
    BY <1>2, <1>3, <1>9 DEF PendingInv, RowsDistinct, Renamed, OthersLate
  <1>12. \A q \in proc'.batch : r.msg < q.msg
    BY <1>1, <1>3, <1>4 DEF PendingInv, RowsDistinct, RowType
  <1>13. WorkedOff'
    <2>1. \A i \in 1 .. Len(posted') : \A q \in proc'.batch : posted'[i] < q.msg
      <3> TAKE i \in 1 .. Len(posted')
      <3> TAKE q \in proc'.batch
      <3>1. CASE i \in 1 .. Len(posted)
        BY <1>3, <1>6, <3>1 DEF PendingInv, WorkedOff
      <3>2. CASE i = Len(posted) + 1
        BY <1>5, <1>6, <1>12, <3>2
      <3> QED
        BY <1>5, <1>6, <3>1, <3>2
    <2>2. \A q \in Under("conversation") : q \in proc'.batch \/ Disposed(q.msg)'
      BY <1>2, <1>3, <1>7, <1>8 DEF PendingInv, WorkedOff
    <2> QED
      BY <1>3, <1>9, <2>1, <2>2 DEF PendingInv, WorkedOff
  <1>14. NoMessageVanishes'
    <2>1. Messages(rows)' = Messages(rows)
      BY <1>2 DEF Messages
    <2>2. \A q \in proc.batch : q \in rows
      BY <1>4
    <2>3. \A m \in Messages(proc.batch) : m \in Messages(rows)
      BY <2>2 DEF Messages
    <2> QED
      BY <1>2, <1>7, <2>1, <2>3 DEF PendingInv, QueueIsFaithful, NoMessageVanishes, Disposed
  <1>15. PostedInOrder'
    <2> SUFFICES ASSUME NEW m \in 1 .. Len(posted'), NEW n \in 1 .. Len(posted'), m < n
                 PROVE  posted'[m] < posted'[n]
      BY DEF PostedInOrder
    <2>1. m \in 1 .. Len(posted)
      BY <1>5, <1>6
    <2>2. CASE n \in 1 .. Len(posted)
      BY <1>6, <2>1, <2>2 DEF PendingInv, QueueIsFaithful, PostedInOrder
    <2>3. CASE n = Len(posted) + 1
      <3>1. posted[m] < r.msg
        BY <1>1, <2>1 DEF PendingInv, WorkedOff
      <3> QED
        BY <1>5, <1>6, <2>1, <2>3, <3>1
    <2> QED
      BY <1>5, <1>6, <2>2, <2>3
  <1>16. LeftIsLate'
    BY <1>3 DEF LeftIsLate
  <1> QED
    BY <1>10, <1>11, <1>13, <1>14, <1>15, <1>16 DEF PendingInv, QueueIsFaithful

LEMMA DeleteQueuedStep ==
    ASSUME PendingInv, DeleteQueued
    PROVE  PendingInv'
  <1>1. /\ proc.pc = "post" /\ proc.batch = {} /\ rows' = rows \ Under("conversation")
        /\ proc' = [proc EXCEPT !.pc = "over"]
        /\ UNCHANGED <<sender, queued, ready, seen, posted, failed, late>>
    BY DEF DeleteQueued
  <1>2. /\ proc'.pc = "over" /\ proc'.batch = {}
        /\ proc' \in [pc : {"idle", "rename", "read", "post", "over"}, batch : SUBSET RowType]
    BY <1>1 DEF PendingInv, PendingTypeOK
  <1>3. /\ \A d \in {"task", "hex"} : Under(d)' = Under(d) /\ Waiting(d)' = Waiting(d)
        /\ Under("conversation")' = {}
    BY <1>1 DEF Under, Waiting
  <1>4. rows' \subseteq rows /\ IsFiniteSet(rows')
    BY <1>1, FS_Difference DEF PendingInv, Limited
  <1>5. PendingTypeOK' /\ Limited'
    BY <1>1, <1>2, <1>3, <1>4 DEF PendingInv, PendingTypeOK, Limited
  <1>6. RowsDistinct' /\ Renamed'
    BY <1>1, <1>3, <1>4 DEF PendingInv, RowsDistinct, Renamed
  <1>7. \A r \in rows' : r.msg \in late
    BY <1>1 DEF PendingInv, OthersLate, Under
  <1>8. OthersLate' /\ WorkedOff'
    BY <1>1, <1>2, <1>3, <1>7 DEF OthersLate, WorkedOff
  <1>9. QueueIsFaithful'
    <2>1. \A m \in Messages(rows) : m \in Messages(rows') \/ Disposed(m)
      BY <1>1 DEF Messages, PendingInv, WorkedOff
    <2>2. Messages({}) = {} /\ Messages(rows)' = Messages(rows') /\ Messages(proc.batch)' = {}
      BY <1>2 DEF Messages
    <2>3. NoMessageVanishes'
      BY <1>1, <2>1, <2>2 DEF PendingInv, QueueIsFaithful, NoMessageVanishes, Disposed
    <2>4. PostedInOrder'
      BY <1>1 DEF PendingInv, QueueIsFaithful, PostedInOrder
    <2>5. LeftIsLate'
      BY <1>1, <1>7 DEF LeftIsLate, Messages
    <2> QED
      BY <2>3, <2>4, <2>5 DEF QueueIsFaithful
  <1> QED
    BY <1>5, <1>6, <1>8, <1>9 DEF PendingInv

LEMMA PendingStep == PendingInv /\ [PendingNext]_pendingVars => PendingInv'
  <1> SUFFICES ASSUME PendingInv, [PendingNext]_pendingVars PROVE PendingInv'
    OBVIOUS
  <1>1. ASSUME NEW c \in Senders, CheckLimit(c) \/ AddMessage(c) PROVE PendingInv'
    BY <1>1, CheckLimitStep, AddMessageStep
  <1>2. CASE SeeReady \/ BecomesReady
    BY <1>2, ReadyStep
  <1>3. CASE ProcStep
    BY <1>3, RenameStep, ReadQueuedStep, PostNextStep, DeleteQueuedStep DEF ProcStep
  <1>4. CASE UNCHANGED pendingVars
    BY <1>4 DEF pendingVars, PendingInv, PendingTypeOK, Limited, RowsDistinct, Renamed, OthersLate,
                WorkedOff, Disposed, Under, Waiting, Messages, QueueIsFaithful, NoMessageVanishes,
                PostedInOrder, LeftIsLate
  <1> QED
    BY <1>1, <1>2, <1>3, <1>4 DEF PendingNext

(* The queue of a conversation that is being started is faithful           *)
(* (_process_pending_messages): it loses no message that was accepted,     *)
(* posts them in order and once, and what is left in the end came late.    *)
THEOREM TheQueueIsFaithful == PendingSpec => []QueueIsFaithful
  <1>1. PendingInv => QueueIsFaithful
    BY DEF PendingInv
  <1> QED
    BY <1>1, PendingInitInv, PendingStep, PTL DEF PendingSpec

(* The state is well typed, and concurrent requests exceed the limit of    *)
(* queued messages by less than their number (queue_pending_message).      *)
THEOREM PendingTypes == PendingSpec => []PendingTypeOK
  <1>1. PendingInv => PendingTypeOK
    BY DEF PendingInv
  <1> QED
    BY <1>1, PendingInitInv, PendingStep, PTL DEF PendingSpec
=============================================================================
