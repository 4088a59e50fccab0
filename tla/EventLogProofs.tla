--------------------------- MODULE EventLogProofs ---------------------------
(***************************************************************************)
(* EventStream implements EventLog: the writers, the queue, the queue      *)
(* thread, the pools, close, failing writes and crashes together are one   *)
(* durable log that subscribers read in one order.                         *)
(***************************************************************************)
EXTENDS EventStreamProofs

-----------------------------------------------------------------------------
(* Moving an entry along a concatenation                                   *)

LEMMA HeadThenTail ==
    ASSUME NEW S, NEW s \in Seq(S), s # << >>
    PROVE  Head(s) \in S /\ Tail(s) \in Seq(S) /\ <<Head(s)>> \o Tail(s) = s
  <1>1. Head(s) \in S /\ Tail(s) \in Seq(S) /\ <<Head(s)>> \in Seq(S)
    BY HeadTailInSeq
  <1>2. PICK h, t : h = <<Head(s)>> /\ t = Tail(s)
    OBVIOUS
  <1>3. Len(h) = 1 /\ h[1] = s[1] /\ Len(t) = Len(s) - 1 /\ Len(s) \in Nat \ {0}
    BY <1>2, EmptySeq
  <1>4. \A i \in 1 .. Len(t) : t[i] = s[i + 1]
    BY <1>2, TailElements
  <1>5. /\ h \o t \in Seq(S) /\ Len(h \o t) = Len(h) + Len(t)
        /\ \A i \in 1 .. Len(h) + Len(t) : (h \o t)[i] = IF i <= Len(h) THEN h[i] ELSE t[i - Len(h)]
    BY <1>1, <1>2, ConcatProperties
  <1>6. Len(h \o t) = Len(s)
    BY <1>3, <1>5
  <1>7. ASSUME NEW i \in 1 .. Len(h \o t) PROVE (h \o t)[i] = s[i]
    <2>1. CASE i = 1
      BY <1>3, <1>5, <1>7, <2>1
    <2>2. CASE i > 1
      <3>1. (h \o t)[i] = t[i - 1] /\ i - 1 \in 1 .. Len(t)
        BY <1>3, <1>5, <1>7, <2>2
      <3>2. t[i - 1] = s[(i - 1) + 1] /\ (i - 1) + 1 = i
        BY <1>4, <1>7, <3>1
      <3> QED
        BY <3>1, <3>2
    <2> QED
      BY <1>3, <1>5, <2>1, <2>2
  <1> QED
    BY <1>1, <1>2, <1>5, <1>6, <1>7, SeqEqual

(* A callback runs. *)
LEMMA MoveHead ==
    ASSUME NEW S, NEW d \in Seq(S), NEW i \in Seq(S), i # << >>
    PROVE  Append(d, Head(i)) \o Tail(i) = d \o i
  <1>1. Head(i) \in S /\ Tail(i) \in Seq(S) /\ <<Head(i)>> \o Tail(i) = i /\ <<Head(i)>> \in Seq(S)
    BY HeadThenTail
  <1>2. Append(d, Head(i)) = d \o <<Head(i)>>
    BY <1>1, AppendIsConcat
  <1>3. (d \o <<Head(i)>>) \o Tail(i) = d \o (<<Head(i)>> \o Tail(i))
    BY <1>1, ConcatAssociative
  <1> QED
    BY <1>1, <1>2, <1>3

(* An entry is added at the end. *)
LEMMA AppendLast ==
    ASSUME NEW S, NEW d \in Seq(S), NEW i \in Seq(S), NEW x \in S
    PROVE  d \o Append(i, x) = Append(d \o i, x)
  <1>1. <<x>> \in Seq(S) /\ d \o i \in Seq(S)
    BY ConcatProperties
  <1>2. Append(i, x) = i \o <<x>> /\ Append(d \o i, x) = (d \o i) \o <<x>>
    BY <1>1, AppendIsConcat
  <1>3. (d \o i) \o <<x>> = d \o (i \o <<x>>)
    BY <1>1, ConcatAssociative
  <1> QED
    BY <1>2, <1>3

(* The head of the queue is taken in hand. *)
LEMMA TakeHead ==
    ASSUME NEW S, NEW g \in Seq(S), NEW q \in Seq(S), q # << >>
    PROVE  (g \o <<Head(q)>>) \o Tail(q) = (g \o << >>) \o q
  <1>1. Head(q) \in S /\ Tail(q) \in Seq(S) /\ <<Head(q)>> \o Tail(q) = q /\ <<Head(q)>> \in Seq(S)
    BY HeadThenTail
  <1>2. (g \o <<Head(q)>>) \o Tail(q) = g \o (<<Head(q)>> \o Tail(q))
    BY <1>1, ConcatAssociative
  <1>3. g \o << >> = g
    BY ConcatEmptySeq
  <1> QED
    BY <1>1, <1>2, <1>3

(* What is in hand goes to the first subscriber. *)
LEMMA HandOver ==
    ASSUME NEW S, NEW g \in Seq(S), NEW q \in Seq(S), NEW x \in S
    PROVE  (Append(g, x) \o << >>) \o q = (g \o <<x>>) \o q
  <1>1. Append(g, x) = g \o <<x>> /\ Append(g, x) \in Seq(S)
    BY AppendIsConcat
  <1>2. Append(g, x) \o << >> = Append(g, x)
    BY <1>1, ConcatEmptySeq
  <1> QED
    BY <1>1, <1>2

(* The queue is cleared. *)
LEMMA ClearRest ==
    ASSUME NEW S, NEW g \in Seq(S), NEW q \in Seq(S)
    PROVE  (g \o << >>) \o << >> = SubSeq((g \o << >>) \o q, 1, Len(g))
  <1>1. g \o << >> = g /\ Len(g) \in Nat
    BY ConcatEmptySeq
  <1>2. /\ g \o q \in Seq(S) /\ Len(g \o q) = Len(g) + Len(q)
        /\ \A i \in 1 .. Len(g) + Len(q) : (g \o q)[i] = IF i <= Len(g) THEN g[i] ELSE q[i - Len(g)]
    BY ConcatProperties
  <1>3. PICK l : l = g \o q
    OBVIOUS
  <1>4. \A i \in 1 .. Len(g) : l[i] = g[i] /\ g[i] \in S
    BY <1>2, <1>3
  <1>5. PICK m, n : m = 1 /\ n = Len(g)
    OBVIOUS
  <1>6. m \in Int /\ n \in Int /\ \A i \in m .. n : l[i] \in S
    BY <1>1, <1>4, <1>5
  <1>7. /\ SubSeq(l, m, n) \in Seq(S)
        /\ Len(SubSeq(l, m, n)) = IF m <= n THEN n - m + 1 ELSE 0
        /\ \A i \in 1 .. n - m + 1 : SubSeq(l, m, n)[i] = l[m + i - 1]
    BY <1>6, SubSeqProperties
  <1>8. PICK t : t = SubSeq(l, m, n)
    OBVIOUS
  <1>9. Len(t) = Len(g) /\ t \in Seq(S)
    BY <1>1, <1>5, <1>7, <1>8
  <1>10. \A i \in 1 .. Len(g) : t[i] = l[i]
    BY <1>1, <1>5, <1>7, <1>8
  <1>11. t = g
    BY <1>4, <1>9, <1>10, SeqEqual
  <1> QED
    BY <1>1, <1>3, <1>5, <1>8, <1>11

(* The beginning of the log is what was handed to the first subscriber. *)
LEMMA LogBegins ==
    ASSUME NEW S, NEW g \in Seq(S), NEW h \in Seq(S), NEW q \in Seq(S)
    PROVE  /\ (g \o h) \o q \in Seq(S)
           /\ Len((g \o h) \o q) = Len(g) + Len(h) + Len(q)
           /\ \A i \in 1 .. Len(g) : ((g \o h) \o q)[i] = g[i] /\ i \in 1 .. Len((g \o h) \o q)
  <1>1. Len(g) \in Nat /\ Len(h) \in Nat /\ Len(q) \in Nat
    OBVIOUS
  <1>2. PICK l : l = g \o h
    OBVIOUS
  <1>3. /\ l \in Seq(S) /\ Len(l) = Len(g) + Len(h)
        /\ \A i \in 1 .. Len(g) + Len(h) : l[i] = IF i <= Len(g) THEN g[i] ELSE h[i - Len(g)]
    BY <1>2, ConcatProperties
  <1>4. /\ l \o q \in Seq(S) /\ Len(l \o q) = Len(l) + Len(q)
        /\ \A i \in 1 .. Len(l) + Len(q) : (l \o q)[i] = IF i <= Len(l) THEN l[i] ELSE q[i - Len(l)]
    <2>1. l \in Seq(S)
      BY <1>3
    <2> QED
      BY <2>1, ConcatProperties
  <1>5. ASSUME NEW i \in 1 .. Len(g) PROVE (l \o q)[i] = g[i] /\ i \in 1 .. Len(l \o q)
    <2>1. PICK a \in Nat, b \in Nat, c \in Nat : a = Len(g) /\ b = Len(h) /\ c = Len(q)
      BY <1>1
    <2>2. i \in Nat /\ 1 <= i /\ i <= a
      BY <1>5, <2>1
    <2>3. i <= a + b /\ i \in 1 .. (a + b) + c /\ i \in 1 .. a + b
      BY <2>1, <2>2
    <2>4. i <= Len(l) /\ i \in 1 .. Len(l) + Len(q) /\ i \in 1 .. Len(g) + Len(h)
      BY <1>3, <2>1, <2>3
    <2> QED
      BY <1>3, <1>4, <1>5, <2>4
  <1> QED
    BY <1>2, <1>3, <1>4, <1>5

-----------------------------------------------------------------------------
(* The invariant                                                           *)

(* The order lists every subscriber that stays, nobody twice, and the one  *)
(* it begins with stays.                                                   *)
OrderIsComplete ==
    /\ SubOrder # << >> /\ SubOrder[1] \in Permanent
    /\ \A s \in Permanent : \E k \in 1 .. Len(SubOrder) : SubOrder[k] = s
    /\ \A j, k \in 1 .. Len(SubOrder) : SubOrder[j] = SubOrder[k] => j = k

First     == SubOrder[1]
Given(s)  == delivered[s] \o inbox[s]
Shared    == Given(First)
StreamLog == (Shared \o InHand(First)) \o queue

InTodo(s)  == \E k \in 1 .. Len(disp.todo) : disp.todo[k] = s
Pending(s) == disp.pc = "dispatching" /\ InTodo(s) /\ ~InTodo(First)
DispEntry  == [id |-> disp.id, ev |-> disp.ev]

(* The queue thread meets those that stay subscribed, once per event, the  *)
(* first one first, until close() has joined it.                           *)
DispOK ==
    /\ disp.pc = "dispatching" =>
          /\ Permanent \subseteq disp.known
          /\ \A j, k \in 1 .. Len(disp.todo) : disp.todo[j] = disp.todo[k] => j = k
          /\ InTodo(First) => disp.todo = SubOrder
    /\ Permanent \subseteq keys
    /\ closer.pc \in {"open", "join"} => \A s \in Permanent : status[s] = "active"
    /\ closer.pc \in {"clean", "closed"} => disp.pc \in {"exited", "dead"}
    /\ closer.pc = "open" => ~closer.stop
    /\ closer.pc # "open" => closer.stop

(* What is in the log is on disk, has left add_event, and is there once. *)
LogFresh ==
    /\ \A k \in 1 .. Len(StreamLog) : OnDisk(StreamLog[k])
    /\ \A k \in 1 .. Len(StreamLog) : \A w \in Writers :
           InFlight(w) => StreamLog[k].id # writer[w].id
    /\ \A j, k \in 1 .. Len(StreamLog) : StreamLog[j].id = StreamLog[k].id => j = k

(* An event object has one identifier, on disk and in add_event. *)
EventOnce ==
    /\ \A i, j \in Ids : Durable(i) /\ files[i] = files[j] => i = j
    /\ \A i \in Ids : Durable(i) => files[i] \in added
    /\ \A w \in Writers : InFlight(w) =>
          /\ writer[w].ev \in added
          /\ \A i \in Ids : files[i] = writer[w].ev => i = writer[w].id
    /\ \A v, w \in Writers :
          v # w /\ InFlight(v) /\ InFlight(w) => writer[v].ev # writer[w].ev

(* One that comes and goes gets entries the first one gets, in its order,  *)
(* and not yet the one it is still to be handed.                           *)
Follows(s) ==
    /\ \A i \in 1 .. Len(Given(s)) : \E a \in 1 .. Len(Shared) :
           Given(s)[i] = Shared[a] /\ (Pending(s) => a < Len(Shared))
    /\ \A i, j \in 1 .. Len(Given(s)) : \A a, b \in 1 .. Len(Shared) :
           i < j /\ Given(s)[i] = Shared[a] /\ Given(s)[j] = Shared[b] => a < b

(* One that stays gets the same, except for the one it is to be handed. *)
KeepsUp(s) ==
    /\ Len(Given(s)) <= Len(Shared)
    /\ \A i \in 1 .. Len(Given(s)) : Given(s)[i] = Shared[i]
    /\ disp.pc \in {"idle", "dispatching"} =>
           Len(Shared) = IF Pending(s) THEN Len(Given(s)) + 1 ELSE Len(Given(s))

Handed ==
    /\ \A s \in Permanent : KeepsUp(s)
    /\ \A s \in Subs \ Permanent : Follows(s)
    /\ disp.pc = "dispatching" /\ ~InTodo(First) =>
           Shared # << >> /\ Shared[Len(Shared)] = DispEntry

LogInv == DispOK /\ LogFresh /\ EventOnce /\ Handed

LEMMA LogIsStreamLog == LogOf(SubOrder[1]) = StreamLog
  BY DEF LogOf, StreamLog, Shared, Given, First

LEMMA LogTypes ==
    ASSUME TypeInv, OrderIsComplete
    PROVE  /\ First \in Subs /\ First \in Permanent
           /\ \A s \in Subs : Given(s) \in Seq(Entry) /\ Len(Given(s)) \in Nat
           /\ Shared \in Seq(Entry) /\ queue \in Seq(Entry)
           /\ disp.pc = "dispatching" => DispEntry \in Entry
           /\ InHand(First) \in Seq(Entry)
           /\ StreamLog \in Seq(Entry) /\ Len(StreamLog) \in Nat
           /\ \A i \in 1 .. Len(Shared) : i \in 1 .. Len(StreamLog) /\ StreamLog[i] = Shared[i]
  <1>1. First \in Subs /\ First \in Permanent
    BY DEF OrderIsComplete, First, Permanent
  <1>2. ASSUME NEW s \in Subs PROVE Given(s) \in Seq(Entry) /\ Len(Given(s)) \in Nat
    <2>1. delivered[s] \in Seq(Entry) /\ inbox[s] \in Seq(Entry)
      BY DEF TypeInv, TypeOK, DeliveryTypeOK
    <2>2. Given(s) \in Seq(Entry)
      BY <2>1, ConcatProperties DEF Given
    <2> QED
      BY <2>2, LenProperties
  <1>3. Shared \in Seq(Entry) /\ queue \in Seq(Entry)
    BY <1>1, <1>2 DEF Shared, TypeInv, TypeOK, DeliveryTypeOK
  <1>4. disp.pc = "dispatching" => DispEntry \in Entry
    BY DEF TypeInv, TypeOK, DeliveryTypeOK, DispType, Entry, DispEntry
  <1>5. InHand(First) \in Seq(Entry)
    <2>1. CASE disp.pc = "dispatching" /\ \E k \in 1 .. Len(disp.todo) : disp.todo[k] = First
      <3>1. InHand(First) = <<DispEntry>>
        BY <2>1 DEF InHand, DispEntry
      <3> QED
        BY <1>4, <2>1, <3>1
    <2>2. CASE ~(disp.pc = "dispatching" /\ \E k \in 1 .. Len(disp.todo) : disp.todo[k] = First)
      <3>1. InHand(First) = << >>
        BY <2>2 DEF InHand
      <3> QED
        BY <3>1
    <2> QED
      BY <2>1, <2>2
  <1>6. /\ StreamLog \in Seq(Entry)
        /\ \A i \in 1 .. Len(Shared) : i \in 1 .. Len(StreamLog) /\ StreamLog[i] = Shared[i]
    BY <1>3, <1>5, LogBegins DEF StreamLog
  <1>7. Len(StreamLog) \in Nat
    BY <1>6, LenProperties
  <1> QED
    BY <1>1, <1>2, <1>3, <1>4, <1>5, <1>6, <1>7

(* Nothing was handed to the first subscriber twice. *)
LEMMA SharedOnce ==
    ASSUME TypeInv, OrderIsComplete, LogFresh
    PROVE  \A j, k \in 1 .. Len(Shared) : Shared[j] = Shared[k] => j = k
  BY LogTypes DEF LogFresh

LEMMA LogInvInit ==
    ASSUME OrderIsComplete, Init
    PROVE  LogInv
  <1>1. TypeInv
    BY TypeInit
  <1>2. \A s \in Subs : delivered[s] = << >> /\ inbox[s] = << >>
    BY DEF Init
  <1>3. \A s \in Subs : Given(s) = << >> /\ Len(Given(s)) = 0
    <2>1. << >> \in Seq(Entry) /\ Len(<< >>) = 0
      OBVIOUS
    <2>2. << >> \o << >> = << >>
      BY <2>1, ConcatEmptySeq
    <2> QED
      BY <1>2, <2>1, <2>2 DEF Given
  <1>4. Shared = << >> /\ Len(Shared) = 0
    BY <1>1, <1>3, LogTypes DEF Shared
  <1>5. InHand(First) = << >> /\ queue = << >> /\ disp.pc = "idle"
    BY DEF Init, InHand, DispAt
  <1>6. Len(StreamLog) = 0
    BY <1>4, <1>5 DEF StreamLog
  <1>7. \A w \in Writers : ~InFlight(w)
    BY DEF Init, InFlight, IdleWriter
  <1>8. \A i \in Ids : ~Durable(i)
    BY DEF Init, Durable
  <1>9. DispOK
    <2>1. /\ keys = Subs \ Joiners /\ closer.pc = "open" /\ closer.stop = FALSE
          /\ status = [s \in Subs |-> IF s \in Joiners THEN "absent" ELSE "active"]
      BY DEF Init, OpenCloser, InitialStatus
    <2> QED
      BY <1>5, <2>1 DEF DispOK, Permanent
  <1>10. LogFresh
    BY <1>6 DEF LogFresh
  <1>11. EventOnce
    BY <1>7, <1>8 DEF EventOnce
  <1>12. Handed
    <2>1. \A s \in Subs : Len(Given(s)) = 0 /\ ~Pending(s)
      BY <1>3, <1>5 DEF Pending
    <2> QED
      BY <1>4, <1>5, <2>1 DEF Handed, Follows, KeepsUp, Permanent
  <1> QED
    BY <1>9, <1>10, <1>11, <1>12 DEF LogInv

-----------------------------------------------------------------------------
(* Steps of add_event                                                      *)

(* The delivery side does not move. *)
LEMMA DeliveryStays ==
    ASSUME DispOK, Handed, UNCHANGED <<queue, disp, status, keys, inbox, delivered, closer>>
    PROVE  StreamLog' = StreamLog /\ DispOK' /\ Handed'
  <1>1. \A s : Given(s)' = Given(s)
    BY DEF Given
  <1>2. Shared' = Shared
    BY DEF Given, Shared
  <1>3. InHand(First)' = InHand(First)
    BY DEF InHand
  <1>4. \A s : InTodo(s)' = InTodo(s) /\ Pending(s)' = Pending(s)
    BY DEF InTodo, Pending
  <1>5. DispEntry' = DispEntry /\ InTodo(First)' = InTodo(First)
    BY DEF DispEntry, InTodo
  <1>6. StreamLog' = StreamLog
    BY <1>2, <1>3 DEF StreamLog
  <1>7. DispOK'
    BY <1>5 DEF DispOK
  <1>8. Handed'
    BY <1>1, <1>2, <1>4, <1>5 DEF Handed, KeepsUp, Follows
  <1> QED
    BY <1>6, <1>7, <1>8

(* The log stays fresh while writers go on, give up, or begin with a new   *)
(* identifier.                                                             *)
LEMMA FreshKept ==
    ASSUME TypeInv, OrderIsComplete, LogFresh, KeepsFiles, StreamLog' = StreamLog,
           \A w \in Writers : InFlight(w)' =>
              \/ InFlight(w) /\ writer'[w].id = writer[w].id
              \/ ~Durable(writer'[w].id)
    PROVE  LogFresh'
  <1>1. \A k \in 1 .. Len(StreamLog) : /\ StreamLog[k].id \in Ids /\ StreamLog[k].ev \in Events
                                       /\ files[StreamLog[k].id] = StreamLog[k].ev
    <2>1. \A k \in 1 .. Len(StreamLog) : StreamLog[k] \in Entry
      BY LogTypes
    <2> QED
      BY <2>1 DEF Entry, LogFresh, OnDisk
  <1>2. \A k \in 1 .. Len(StreamLog) : Durable(StreamLog[k].id)
    BY <1>1, EventsAssumption DEF Durable
  <1>3. \A k \in 1 .. Len(StreamLog) : files'[StreamLog[k].id] = StreamLog[k].ev
    BY <1>1, <1>2 DEF KeepsFiles
  <1>4. \A k \in 1 .. Len(StreamLog) : \A w \in Writers : InFlight(w)' => StreamLog[k].id # writer'[w].id
    BY <1>2 DEF LogFresh
  <1> QED
    BY <1>3, <1>4 DEF LogFresh, OnDisk

LEMMA EventAssign ==
    ASSUME TypeInv, EventOnce, NEW w \in Writers, NEW e \in Events, AssignId(w, e)
    PROVE  EventOnce'
  <1>1. PICK id, k : writer' = [writer EXCEPT ![w] = [pc |-> "assigned", ev |-> e, id |-> id, page |-> k]]
    BY DEF AssignId
  <1>2. writer \in [Writers -> [pc : WriterPc, ev : MaybeEv, id : Ids, page : Nat]]
    BY DEF TypeInv, TypeOK, AddTypeOK
  <1>3. writer'[w].ev = e /\ \A v \in Writers : v # w => writer'[v] = writer[v]
    BY <1>1, <1>2
  <1>4. e \notin added /\ added' = added \cup {e} /\ files' = files
    BY DEF AssignId, HasNoId, storeVars
  <1>5. \A i \in Ids : files[i] # e
    BY <1>4, EventsAssumption DEF EventOnce, Durable
  <1>6. \A v \in Writers : v # w /\ InFlight(v)' => writer'[v].ev # e /\ InFlight(v)
    BY <1>3, <1>4 DEF EventOnce, InFlight
  <1>7. \A i \in Ids : (Durable(i)' <=> Durable(i))
    BY <1>4 DEF Durable
  <1>8. \A i, j \in Ids : Durable(i)' /\ files'[i] = files'[j] => i = j
    BY <1>4, <1>7 DEF EventOnce
  <1>9. \A i \in Ids : Durable(i)' => files'[i] \in added'
    BY <1>4, <1>7 DEF EventOnce
  <1>10. ASSUME NEW v \in Writers, InFlight(v)'
         PROVE  writer'[v].ev \in added' /\ \A i \in Ids : files'[i] = writer'[v].ev => i = writer'[v].id
    <2>1. CASE v = w
      BY <1>3, <1>4, <1>5, <2>1
    <2>2. CASE v # w
      BY <1>3, <1>4, <1>6, <1>10, <2>2 DEF EventOnce
    <2> QED
      BY <2>1, <2>2
  <1>11. ASSUME NEW u \in Writers, NEW v \in Writers, u # v, InFlight(u)', InFlight(v)'
         PROVE  writer'[u].ev # writer'[v].ev
    <2>1. CASE u # w /\ v # w
      BY <1>3, <1>6, <1>11, <2>1 DEF EventOnce
    <2>2. CASE u = w
      BY <1>3, <1>6, <1>11, <2>2
    <2>3. CASE v = w
      BY <1>3, <1>6, <1>11, <2>3
    <2> QED
      BY <2>1, <2>2, <2>3
  <1> QED
    BY <1>8, <1>9, <1>10, <1>11 DEF EventOnce

(* Writers go on with their event or give it up. *)
LEMMA EventKept ==
    ASSUME EventOnce, UNCHANGED <<files, added>>,
           \A w \in Writers : InFlight(w)' =>
              InFlight(w) /\ writer'[w].ev = writer[w].ev /\ writer'[w].id = writer[w].id
    PROVE  EventOnce'
  BY DEF EventOnce, Durable

LEMMA EventWrite ==
    ASSUME TypeInv, DurabilityInv, EventOnce, NEW w \in Writers, FinishWrite(w)
    PROVE  EventOnce'
  <1>1. /\ writer[w].pc = "writing"
        /\ files' = [files EXCEPT ![writer[w].id] = writer[w].ev]
        /\ writer' = [writer EXCEPT ![w].pc = "written"] /\ added' = added
    BY DEF FinishWrite
  <1>2. /\ writer \in [Writers -> [pc : WriterPc, ev : MaybeEv, id : Ids, page : Nat]]
        /\ files \in [Ids -> MaybeEv]
    BY DEF TypeInv, TypeOK, AddTypeOK, StoreTypeOK
  <1>3. \A v \in Writers : /\ InFlight(v)' <=> InFlight(v)
                           /\ writer'[v].id = writer[v].id /\ writer'[v].ev = writer[v].ev
    BY <1>1, <1>2 DEF InFlight
  <1>4. PICK n \in Ids, e \in MaybeEv : n = writer[w].id /\ e = writer[w].ev
    BY <1>2
  <1>5. InFlight(w) /\ e \in added /\ \A i \in Ids : files[i] = e => i = n
    BY <1>1, <1>4 DEF InFlight, EventOnce
  <1>6. files'[n] = e /\ \A i \in Ids : i # n => files'[i] = files[i]
    BY <1>1, <1>2, <1>4
  <1>7. \A i, j \in Ids : Durable(i)' /\ files'[i] = files'[j] => i = j
    BY <1>5, <1>6 DEF EventOnce, Durable
  <1>8. \A i \in Ids : Durable(i)' => files'[i] \in added'
    BY <1>1, <1>5, <1>6 DEF EventOnce, Durable
  <1>9. ASSUME NEW v \in Writers, InFlight(v)
        PROVE  writer[v].ev \in added /\ \A i \in Ids : files'[i] = writer[v].ev => i = writer[v].id
    <2>1. CASE v = w
      BY <1>4, <1>5, <1>6, <2>1
    <2>2. CASE v # w
      <3>1. writer[v].ev # e
        BY <1>4, <1>5, <1>9, <2>2 DEF EventOnce
      <3> QED
        BY <1>6, <1>9, <3>1 DEF EventOnce
    <2> QED
      BY <2>1, <2>2
  <1>10. \A u, v \in Writers : u # v /\ InFlight(u)' /\ InFlight(v)' => writer'[u].ev # writer'[v].ev
    BY <1>3 DEF EventOnce
  <1> QED
    BY <1>1, <1>3, <1>7, <1>8, <1>9, <1>10 DEF EventOnce

LEMMA LogWriters ==
    ASSUME TypeInv, DurabilityInv, OrderIsComplete, LogInv, NEW w \in Writers,
           \/ \E e \in Events : AssignId(w, e)
           \/ BeginWrite(w) \/ FinishWrite(w) \/ StoreCachePage(w) \/ WriteRaises(w)
    PROVE  LogInv' /\ [Log!LogNext]_(Log!logVars)
  <1> USE DEF LogInv
  <1>1. UNCHANGED <<queue, disp, status, keys, inbox, delivered, closer>>
    BY DEF AssignId, BeginWrite, FinishWrite, StoreCachePage, WriteRaises, subVars, histVars
  <1>2. StreamLog' = StreamLog /\ DispOK' /\ Handed'
    BY <1>1, DeliveryStays
  <1>3. KeepsFiles
    BY DurabilityAdd DEF AddStep
  <1>4. LogOf(SubOrder[1])' = LogOf(SubOrder[1])
    <2>1. LogOf(SubOrder[1])' = StreamLog'
      BY DEF LogOf, StreamLog, Shared, Given, First
    <2> QED
      BY <1>2, <2>1, LogIsStreamLog
  <1>5. writer \in [Writers -> [pc : WriterPc, ev : MaybeEv, id : Ids, page : Nat]]
    BY DEF TypeInv, TypeOK, AddTypeOK
  <1>6. ASSUME NEW e \in Events, AssignId(w, e) PROVE LogInv' /\ UNCHANGED files
    <2>1. PICK id, k :
             /\ id = CurId
             /\ writer' = [writer EXCEPT ![w] = [pc |-> "assigned", ev |-> e, id |-> id, page |-> k]]
      BY <1>6 DEF AssignId
    <2>2. id \in Ids
      BY <1>6, <2>1, CurIdInIds DEF AssignId, TypeInv
    <2>3. \A i \in Ids : Durable(i) => i < CurId
      BY CurIdFresh DEF DurabilityInv
    <2>4. ~(id < id)
      BY <2>2, IdsFacts
    <2>5. ~Durable(id)
      BY <2>1, <2>2, <2>3, <2>4
    <2>6. writer'[w].id = id /\ \A v \in Writers : v # w => writer'[v] = writer[v]
      BY <1>5, <2>1
    <2>7. LogFresh'
      BY <1>2, <1>3, <2>5, <2>6, FreshKept DEF InFlight
    <2> QED
      BY <1>2, <1>6, <2>7, EventAssign DEF AssignId, storeVars
  <1>7. ASSUME BeginWrite(w) \/ StoreCachePage(w) \/ WriteRaises(w) PROVE LogInv' /\ UNCHANGED files
    <2>1. UNCHANGED <<files, added>>
      BY <1>7 DEF BeginWrite, StoreCachePage, WriteRaises, storeVars
    <2>2. \/ writer' = [writer EXCEPT ![w] = IdleWriter]
          \/ writer' = [writer EXCEPT ![w].pc = "writing"] /\ writer[w].pc = "assigned"
          \/ writer' = [writer EXCEPT ![w].pc = "stored"] /\ writer[w].pc = "written"
      BY <1>7 DEF BeginWrite, StoreCachePage, WriteRaises
    <2>3. IdleWriter.pc = "idle"
      BY DEF IdleWriter
    <2>4. \A v \in Writers : InFlight(v)' =>
             InFlight(v) /\ writer'[v].ev = writer[v].ev /\ writer'[v].id = writer[v].id
      BY <1>5, <2>2, <2>3 DEF InFlight
    <2> QED
      BY <1>2, <1>3, <2>1, <2>4, FreshKept, EventKept
  <1>8. UNCHANGED files => UNCHANGED Log!logVars
    BY <1>1, <1>4 DEF Log!logVars, KeptEvents, Durable
  <1>9. ASSUME FinishWrite(w) PROVE LogInv' /\ Log!LogNext
    <2>1. /\ writer[w].pc = "writing"
          /\ files' = [files EXCEPT ![writer[w].id] = writer[w].ev]
          /\ writer' = [writer EXCEPT ![w].pc = "written"]
      BY <1>9 DEF FinishWrite
    <2>2. \A v \in Writers : InFlight(v)' => InFlight(v) /\ writer'[v].id = writer[v].id
      BY <1>5, <2>1 DEF InFlight
    <2>3. LogInv'
      BY <1>2, <1>3, <1>9, <2>2, FreshKept, EventWrite
    <2>4. PICK n \in Ids, e \in Events, x \in Entry :
              n = writer[w].id /\ e = writer[w].ev /\ x = [id |-> n, ev |-> e]
      <3>1. writer[w].ev \in Events /\ writer[w].id \in Ids
        BY <1>5, <2>1 DEF TypeInv, TypeOK, AddTypeOK
      <3>2. [id |-> writer[w].id, ev |-> writer[w].ev] \in Entry
        BY <3>1 DEF Entry
      <3> QED
        BY <3>1, <3>2
    <2>5. ~Durable(n) /\ \A i \in Ids : files[i] # e
      BY <2>1, <2>4, EventsAssumption DEF DurabilityInv, WriterState, EventOnce, InFlight, Durable
    <2>6. files'[n] = e /\ \A i \in Ids : i # n => files'[i] = files[i]
      BY <2>1, <2>4 DEF TypeInv, TypeOK, StoreTypeOK
    <2>7. x.id = n /\ x.ev = e
      BY <2>4
    <2>8. \A y \in KeptEvents : y.id # x.id /\ y.ev # x.ev
      BY <2>5, <2>7 DEF KeptEvents, Durable
    <2>9. KeptEvents' = KeptEvents \cup {x}
      <3>1. KeptEvents' = {[id |-> i, ev |-> files'[i]] : i \in {j \in Ids : files'[j] # NoEvent}}
        BY DEF KeptEvents, Durable
      <3>2. KeptEvents = {[id |-> i, ev |-> files[i]] : i \in {j \in Ids : files[j] # NoEvent}}
        BY DEF KeptEvents, Durable
      <3>3. files[n] = NoEvent /\ files'[n] # NoEvent
        BY <2>5, <2>6, EventsAssumption DEF Durable
      <3>4. ASSUME NEW y PROVE y \in KeptEvents' <=> y \in KeptEvents \cup {x}
        BY <2>4, <2>6, <3>1, <3>2, <3>3
      <3> QED
        BY <3>4
    <2>10. Log!Keep(x)
      BY <1>1, <1>4, <2>8, <2>9 DEF Log!Keep
    <2> QED
      BY <2>3, <2>9, <2>10 DEF Log!LogNext
  <1> QED
    BY <1>6, <1>7, <1>8, <1>9

(* The last step of add_event posts the entry. *)
LEMMA LogPosts ==
    ASSUME TypeInv, TypeInv', DurabilityInv, OrderIsComplete, LogInv, NEW w \in Writers, PutOnQueue(w)
    PROVE  LogInv' /\ Log!LogNext
  <1> USE DEF LogInv
  <1>1. PICK x : x = [id |-> writer[w].id, ev |-> writer[w].ev]
    OBVIOUS
  <1>2. /\ writer[w].pc = "stored" /\ queue' = Append(queue, x)
        /\ writer' = [writer EXCEPT ![w] = IdleWriter]
        /\ UNCHANGED <<files, added, disp, status, keys, inbox, delivered, closer>>
    BY <1>1 DEF PutOnQueue, storeVars, subVars, histVars
  <1>3. writer \in [Writers -> [pc : WriterPc, ev : MaybeEv, id : Ids, page : Nat]]
    BY DEF TypeInv, TypeOK, AddTypeOK
  <1>4. x \in Entry /\ x.id = writer[w].id /\ x.ev = writer[w].ev /\ InFlight(w) /\ OnDisk(x)
    <2>1. writer[w].ev \in Events /\ writer[w].id \in Ids /\ InFlight(w) /\ files[writer[w].id] = writer[w].ev
      BY <1>2, <1>3 DEF TypeInv, TypeOK, AddTypeOK, InFlight, DurabilityInv, WriterState
    <2> QED
      BY <1>1, <2>1 DEF Entry, OnDisk
  <1>5. Shared' = Shared /\ InHand(First)' = InHand(First)
    BY <1>2 DEF Shared, Given, InHand
  <1>6. PICK g, n : g = Shared \o InHand(First) /\ n = Len(StreamLog)
    OBVIOUS
  <1>7. StreamLog' = Append(StreamLog, x)
    <2>1. g \in Seq(Entry) /\ queue \in Seq(Entry)
      BY <1>6, LogTypes, ConcatProperties
    <2>2. g \o Append(queue, x) = Append(g \o queue, x)
      BY <1>4, <2>1, AppendLast
    <2>3. StreamLog = g \o queue /\ StreamLog' = g \o queue'
      BY <1>5, <1>6 DEF StreamLog
    <2> QED
      BY <1>2, <2>2, <2>3
  <1>8. /\ n \in Nat /\ Len(StreamLog') = n + 1 /\ StreamLog'[n + 1] = x
        /\ \A k \in 1 .. n : StreamLog'[k] = StreamLog[k]
    <2>1. StreamLog \in Seq(Entry)
      BY LogTypes
    <2> QED
      BY <1>4, <1>6, <1>7, <2>1, AppendProperties, LenProperties
  <1>9. \A k \in 1 .. n : StreamLog[k].id # x.id
    BY <1>4, <1>6 DEF LogFresh
  <1>10. \A v \in Writers : InFlight(v)' => v # w /\ InFlight(v) /\ writer'[v] = writer[v]
    <2>1. IdleWriter.pc = "idle"
      BY DEF IdleWriter
    <2> QED
      BY <1>2, <1>3, <2>1 DEF InFlight
  <1>11. \A k \in 1 .. n + 1 : k \in 1 .. n \/ k = n + 1
    BY <1>8
  <1>12. LogFresh'
    <2>1. ASSUME NEW k \in 1 .. Len(StreamLog') PROVE files'[StreamLog'[k].id] = StreamLog'[k].ev
      <3>1. CASE k \in 1 .. n
        BY <1>2, <1>6, <1>8, <3>1 DEF LogFresh, OnDisk
      <3>2. CASE k = n + 1
        BY <1>2, <1>4, <1>8, <3>2 DEF OnDisk
      <3> QED
        BY <1>8, <1>11, <3>1, <3>2
    <2>2. ASSUME NEW k \in 1 .. Len(StreamLog'), NEW v \in Writers, InFlight(v)'
          PROVE  StreamLog'[k].id # writer'[v].id
      <3>1. CASE k \in 1 .. n
        BY <1>6, <1>8, <1>10, <2>2, <3>1 DEF LogFresh
      <3>2. CASE k = n + 1
        BY <1>4, <1>8, <1>10, <2>2, <3>2 DEF DurabilityInv, InFlightDistinct
      <3> QED
        BY <1>8, <1>11, <3>1, <3>2
    <2>3. ASSUME NEW j \in 1 .. Len(StreamLog'), NEW k \in 1 .. Len(StreamLog'),
                 StreamLog'[j].id = StreamLog'[k].id
          PROVE  j = k
      <3>1. j \in 1 .. n \/ j = n + 1
        BY <1>8, <1>11
      <3>2. k \in 1 .. n \/ k = n + 1
        BY <1>8, <1>11
      <3>3. CASE j \in 1 .. n /\ k \in 1 .. n
        BY <1>6, <1>8, <2>3, <3>3 DEF LogFresh
      <3>4. CASE j = n + 1 /\ k \in 1 .. n
        BY <1>8, <1>9, <2>3, <3>4
      <3>5. CASE j \in 1 .. n /\ k = n + 1
        BY <1>8, <1>9, <2>3, <3>5
      <3> QED
        BY <3>1, <3>2, <3>3, <3>4, <3>5
    <2> QED
      BY <2>1, <2>2, <2>3 DEF LogFresh, OnDisk
  <1>13. EventOnce'
    BY <1>2, <1>10, EventKept
  <1>14. DispOK'
    BY <1>2 DEF DispOK, InTodo
  <1>15. Handed'
    <2>1. \A s : Given(s)' = Given(s) /\ Pending(s)' = Pending(s)
      BY <1>2 DEF Given, Pending, InTodo
    <2>2. DispEntry' = DispEntry /\ InTodo(First)' = InTodo(First)
      BY <1>2 DEF DispEntry, InTodo
    <2> QED
      BY <1>2, <1>5, <2>1, <2>2 DEF Handed, KeepsUp, Follows
  <1>16. Log!Post(x) /\ KeptEvents' = KeptEvents /\ x \in KeptEvents
    <2>1. KeptEvents' = KeptEvents
      BY <1>2 DEF KeptEvents, Durable
    <2>2. x \in KeptEvents
      <3>1. Durable(x.id) /\ x.id \in Ids /\ x = [id |-> x.id, ev |-> files[x.id]]
        BY <1>4, EventsAssumption DEF OnDisk, Durable, Entry
      <3> QED
        BY <3>1 DEF KeptEvents
    <2>3. ~Log!Occurs(x, LogOf(SubOrder[1]))
      BY <1>6, <1>9, LogIsStreamLog DEF Log!Occurs
    <2>4. LogOf(SubOrder[1])' = StreamLog'
      BY DEF LogOf, StreamLog, Shared, Given, First
    <2> QED
      BY <1>2, <1>7, <2>1, <2>2, <2>3, <2>4, LogIsStreamLog DEF Log!Post
  <1> QED
    BY <1>12, <1>13, <1>14, <1>15, <1>16 DEF Log!LogNext

-----------------------------------------------------------------------------
(* Steps of the queue thread, the callbacks and close                      *)

LEMMA LogEqualities ==
    /\ LogOf(SubOrder[1])' = StreamLog'
    /\ UNCHANGED <<files, StreamLog, delivered, closer>> => UNCHANGED Log!logVars
  <1>1. LogOf(SubOrder[1])' = StreamLog'
    BY DEF LogOf, StreamLog, Shared, Given, First
  <1> QED
    BY <1>1, LogIsStreamLog DEF Log!logVars, KeptEvents, Durable

(* Delivery goes on, add_event does not. *)
LEMMA WritersStay ==
    ASSUME TypeInv, OrderIsComplete, LogFresh, EventOnce, UNCHANGED <<files, added, writer>>
    PROVE  EventOnce' /\ (StreamLog' = StreamLog => LogFresh')
  <1>1. KeepsFiles
    BY DEF KeepsFiles
  <1>2. \A w \in Writers : InFlight(w)' =>
           InFlight(w) /\ writer'[w].ev = writer[w].ev /\ writer'[w].id = writer[w].id
    BY DEF InFlight
  <1> QED
    BY <1>1, <1>2, EventKept, FreshKept

LEMMA LogDequeue ==
    ASSUME TypeInv, OrderIsComplete, LogInv, Dequeue
    PROVE  LogInv' /\ UNCHANGED Log!logVars
  <1> USE DEF LogInv
  <1>1. /\ disp.pc = "idle" /\ ~closer.stop /\ queue # << >>
        /\ disp' = [pc |-> "dispatching", ev |-> Head(queue).ev, id |-> Head(queue).id,
                    todo |-> SubOrder, known |-> keys]
        /\ queue' = Tail(queue)
        /\ UNCHANGED <<files, added, writer, status, keys, inbox, delivered, closer>>
    BY DEF Dequeue, addVars, storeVars, subVars, histVars
  <1>2. disp'.pc = "dispatching" /\ disp'.todo = SubOrder /\ disp'.known = keys
    BY <1>1
  <1>3. queue \in Seq(Entry) /\ Shared \in Seq(Entry) /\ Head(queue) \in Entry
    BY <1>1, LogTypes, HeadThenTail
  <1>4. DispEntry' = Head(queue)
    BY <1>1, <1>3 DEF DispEntry, Entry
  <1>5. 1 \in 1 .. Len(SubOrder)
    BY OrderAssumption DEF OrderIsComplete
  <1>6. InTodo(First)'
    BY <1>2, <1>5 DEF InTodo, First
  <1>7. InHand(First)' = <<Head(queue)>> /\ InHand(First) = << >>
    <2>1. InHand(First)' = <<DispEntry'>>
      BY <1>2, <1>6 DEF InHand, InTodo, DispEntry
    <2> QED
      BY <1>1, <1>4, <2>1 DEF InHand
  <1>8. StreamLog' = StreamLog
    <2>1. Shared' = Shared
      BY <1>1 DEF Shared, Given
    <2>2. (Shared \o <<Head(queue)>>) \o Tail(queue) = (Shared \o << >>) \o queue
      BY <1>1, <1>3, TakeHead
    <2> QED
      BY <1>1, <1>7, <2>1, <2>2 DEF StreamLog
  <1>9. DispOK'
    <2>1. closer.pc \notin {"clean", "closed"}
      BY <1>1 DEF DispOK
    <2> QED
      BY <1>1, <1>2, <2>1 DEF DispOK, OrderIsComplete, First
  <1>10. Handed'
    <2>1. \A s : Given(s)' = Given(s) /\ ~Pending(s)' /\ ~Pending(s)
      BY <1>1, <1>6 DEF Given, Pending
    <2>2. Shared' = Shared
      BY <1>1 DEF Shared, Given
    <2>3. ASSUME NEW s \in Permanent PROVE KeepsUp(s)'
      BY <1>1, <2>1, <2>2 DEF Handed, KeepsUp
    <2>4. ASSUME NEW s \in Subs \ Permanent PROVE Follows(s)'
      BY <2>1, <2>2, SMTT(60) DEF Handed, Follows
    <2> QED
      BY <1>6, <2>3, <2>4 DEF Handed
  <1> QED
    BY <1>1, <1>8, <1>9, <1>10, WritersStay, LogEqualities

(* The queue thread has nothing in hand, before and after. *)
LEMMA LogThreadRests ==
    ASSUME TypeInv, OrderIsComplete, LogInv, DispatchDone \/ DispatcherStops
    PROVE  LogInv' /\ UNCHANGED Log!logVars
  <1> USE DEF LogInv
  <1>1. UNCHANGED <<files, added, writer, queue, status, keys, inbox, delivered, closer>>
    BY DEF DispatchDone, DispatcherStops, addVars, storeVars, subVars, histVars
  <1>2. /\ \/ disp.pc = "idle" /\ disp'.pc = "exited"
           \/ disp.pc = "dispatching" /\ disp.todo = << >> /\ disp'.pc = "idle"
    BY DEF DispatchDone, DispatcherStops, DispAt
  <1>3. /\ \A s : ~Pending(s) /\ ~Pending(s)'
        /\ InHand(First) = << >> /\ InHand(First)' = << >>
    BY <1>2 DEF Pending, InTodo, InHand
  <1>4. Shared' = Shared /\ \A s : Given(s)' = Given(s)
    BY <1>1 DEF Shared, Given
  <1>5. StreamLog' = StreamLog
    BY <1>1, <1>3, <1>4 DEF StreamLog
  <1>6. DispOK'
    BY <1>1, <1>2 DEF DispOK
  <1>7. Handed'
    <2>1. ASSUME NEW s \in Permanent PROVE KeepsUp(s)'
      BY <1>2, <1>3, <1>4 DEF Handed, KeepsUp
    <2>2. ASSUME NEW s \in Subs \ Permanent PROVE Follows(s)'
      BY <1>3, <1>4 DEF Handed, Follows
    <2> QED
      BY <1>2, <2>1, <2>2 DEF Handed
  <1> QED
    BY <1>1, <1>5, <1>6, <1>7, WritersStay, LogEqualities

(* A callback runs on the oldest entry of its pool: the subscriber reads   *)
(* the log.                                                                *)
LEMMA LogReads ==
    ASSUME TypeInv, OrderIsComplete, LogInv, NEW s \in Subs, RunCallback(s)
    PROVE  LogInv' /\ Log!LogNext
  <1> USE DEF LogInv
  <1>1. /\ inbox[s] # << >>
        /\ delivered' = [delivered EXCEPT ![s] = Append(delivered[s], Head(inbox[s]))]
        /\ inbox' = [inbox EXCEPT ![s] = Tail(inbox[s])]
        /\ UNCHANGED <<files, added, writer, queue, disp, status, keys, closer>>
    BY DEF RunCallback, addVars, storeVars
  <1>2. delivered \in [Subs -> Seq(Entry)] /\ inbox \in [Subs -> Seq(Entry)]
    BY DEF TypeInv, TypeOK, DeliveryTypeOK
  <1>3. delivered[s] \in Seq(Entry) /\ inbox[s] \in Seq(Entry)
    BY <1>2
  <1>4. \A t \in Subs : Given(t)' = Given(t)
    <2>1. Append(delivered[s], Head(inbox[s])) \o Tail(inbox[s]) = delivered[s] \o inbox[s]
      BY <1>1, <1>3, MoveHead
    <2> QED
      BY <1>1, <1>2, <2>1 DEF Given
  <1>5. First \in Subs
    BY LogTypes
  <1>6. Shared' = Shared
    BY <1>4, <1>5 DEF Shared
  <1>7. InHand(First)' = InHand(First) /\ (\A t : Pending(t)' = Pending(t)) /\ DispEntry' = DispEntry
        /\ InTodo(First)' = InTodo(First)
    BY <1>1 DEF InHand, Pending, InTodo, DispEntry
  <1>8. StreamLog' = StreamLog
    BY <1>1, <1>6, <1>7 DEF StreamLog
  <1>9. DispOK'
    BY <1>1, <1>7 DEF DispOK
  <1>10. Handed'
    <2>1. Permanent \subseteq Subs
      BY DEF Permanent
    <2> QED
      BY <1>1, <1>4, <1>6, <1>7, <2>1 DEF Handed, KeepsUp, Follows
  <1>11. PICK n : n = Len(delivered[s])
    OBVIOUS
  <1>12. /\ n \in Nat /\ n + 1 \in 1 .. Len(Given(s))
         /\ Given(s)[n + 1] = Head(inbox[s])
         /\ \A i \in 1 .. n : Given(s)[i] = delivered[s][i] /\ i \in 1 .. Len(Given(s))
    <2>1. PICK m \in Nat, l \in Nat : m = n /\ l = Len(inbox[s]) /\ l > 0 /\ inbox[s][1] = Head(inbox[s])
      BY <1>1, <1>3, <1>11
    <2>2. /\ Len(Given(s)) = n + l
          /\ \A i \in 1 .. n + l : Given(s)[i] = IF i <= n THEN delivered[s][i] ELSE inbox[s][i - n]
      BY <1>3, <1>11, <2>1, ConcatProperties DEF Given
    <2>3. n \in Nat /\ n + 1 \in 1 .. n + l /\ ~(n + 1 <= n) /\ (n + 1) - n = 1
      BY <2>1
    <2>4. \A i \in 1 .. n : i \in 1 .. n + l /\ i <= n
      BY <2>1
    <2> QED
      BY <2>1, <2>2, <2>3, <2>4
  <1>13. PICK k \in 1 .. Len(Shared) :
            /\ Given(s)[n + 1] = Shared[k]
            /\ s \in Permanent => k = n + 1
            /\ \A i \in 1 .. n : \E a \in 1 .. Len(Shared) : delivered[s][i] = Shared[a] /\ a < k
    <2>1. CASE s \in Permanent
      <3>1. /\ Len(Given(s)) <= Len(Shared) /\ Len(Given(s)) \in Nat /\ Len(Shared) \in Nat
            /\ \A i \in 1 .. Len(Given(s)) : Given(s)[i] = Shared[i]
        <4>1. KeepsUp(s)
          BY <2>1 DEF Handed
        <4> QED
          BY <4>1, <1>5, LogTypes DEF KeepsUp, Shared
      <3>2. \A i \in 1 .. Len(Given(s)) : i \in 1 .. Len(Shared)
        BY <3>1
      <3>3. \A i \in 1 .. n : i < n + 1
        BY <1>12
      <3>4. n + 1 \in 1 .. Len(Shared) /\ Given(s)[n + 1] = Shared[n + 1]
        BY <1>12, <3>1, <3>2
      <3>5. \A i \in 1 .. n : i \in 1 .. Len(Shared) /\ delivered[s][i] = Shared[i] /\ i < n + 1
        BY <1>12, <3>1, <3>2, <3>3
      <3> QED
        BY <3>4, <3>5
    <2>2. CASE s \notin Permanent
      <3>1. Follows(s)
        BY <2>2 DEF Handed
      <3>2. PICK k \in 1 .. Len(Shared) : Given(s)[n + 1] = Shared[k]
        BY <1>12, <3>1 DEF Follows
      <3>3. ASSUME NEW i \in 1 .. n PROVE \E a \in 1 .. Len(Shared) : delivered[s][i] = Shared[a] /\ a < k
        <4>1. i \in 1 .. Len(Given(s)) /\ Given(s)[i] = delivered[s][i] /\ i < n + 1
          BY <1>12, <3>3
        <4>2. PICK a \in 1 .. Len(Shared) : Given(s)[i] = Shared[a]
          BY <3>1, <4>1 DEF Follows
        <4>3. a < k
          BY <1>12, <3>1, <3>2, <4>1, <4>2 DEF Follows
        <4> QED
          BY <4>1, <4>2, <4>3
      <3> QED
        BY <2>2, <3>2, <3>3
    <2> QED
      BY <2>1, <2>2
  <1>14. PICK l : l = LogOf(SubOrder[1])
    OBVIOUS
  <1>15. /\ l = StreamLog /\ l \in Seq(Entry) /\ Len(l) \in Nat
         /\ \A i \in 1 .. Len(Shared) : i \in 1 .. Len(l) /\ l[i] = Shared[i]
    BY <1>14, LogIsStreamLog, LogTypes
  <1>16. \A i \in 1 .. n : Log!Occurs(delivered[s][i], SubSeq(l, 1, k - 1))
    <2> SUFFICES ASSUME NEW i \in 1 .. n PROVE Log!Occurs(delivered[s][i], SubSeq(l, 1, k - 1))
      OBVIOUS
    <2>1. PICK a \in 1 .. Len(Shared) : delivered[s][i] = Shared[a] /\ a < k
      BY <1>13
    <2>2. k \in Nat /\ k <= Len(l) /\ a \in Nat /\ 1 <= a /\ k \in 1 .. Len(l)
      BY <1>13, <1>15, <2>1
    <2>3. PICK c, m : c = 1 /\ m = k - 1
      OBVIOUS
    <2>4. c \in Int /\ m \in Int /\ \A j \in c .. m : l[j] \in Entry
      <3>1. \A j \in 1 .. k - 1 : j \in 1 .. Len(l)
        BY <1>15, <2>2
      <3> QED
        BY <1>15, <2>2, <2>3, <3>1
    <2>5. PICK t : t = SubSeq(l, c, m)
      OBVIOUS
    <2>6. /\ Len(t) = IF c <= m THEN m - c + 1 ELSE 0
          /\ \A j \in 1 .. m - c + 1 : t[j] = l[c + j - 1]
      BY <2>4, <2>5, SubSeqProperties
    <2>7. m - c + 1 = k - 1 /\ 1 + a - 1 = a /\ c <= m /\ a \in 1 .. k - 1
      BY <2>1, <2>2, <2>3
    <2>8. a \in 1 .. Len(t) /\ t[a] = l[a]
      BY <2>3, <2>6, <2>7
    <2> QED
      BY <1>15, <2>1, <2>3, <2>5, <2>8 DEF Log!Occurs
  <1>17. Log!ReadEntry(s, k)
    <2>1. LogOf(SubOrder[1])' = LogOf(SubOrder[1])
      BY <1>8, LogEqualities, LogIsStreamLog
    <2>2. KeptEvents' = KeptEvents
      BY <1>1 DEF KeptEvents, Durable
    <2>3. delivered' = [delivered EXCEPT ![s] = Append(delivered[s], l[k])]
      BY <1>1, <1>12, <1>13, <1>15
    <2> QED
      BY <1>1, <1>11, <1>13, <1>14, <1>16, <2>1, <2>2, <2>3 DEF Log!ReadEntry
  <1>18. k \in 1 .. Len(LogOf(SubOrder[1]))
    BY <1>13, <1>14, <1>15
  <1>19. LogInv'
    BY <1>1, <1>8, <1>9, <1>10, WritersStay
  <1> QED
    BY <1>17, <1>18, <1>19 DEF Log!LogNext

(* A callback that is gone is passed over, and the thread may end at one   *)
(* whose pool is missing: that is never one that stays.                    *)
LEMMA LogPassesOver ==
    ASSUME TypeInv, OrderIsComplete, LogInv, disp.pc = "dispatching", disp.todo # << >>,
           Head(disp.todo) \notin Permanent,
           \/ disp' = [disp EXCEPT !.todo = Tail(disp.todo)]
           \/ disp' = DispAt("dead"),
           UNCHANGED <<files, added, writer, queue, status, keys, inbox, delivered, closer>>
    PROVE  LogInv' /\ UNCHANGED Log!logVars
  <1> USE DEF LogInv
  <1>1. disp \in DispType /\ disp.todo \in Seq(Subs)
    BY DEF TypeInv, TypeOK, DeliveryTypeOK, DispType
  <1>2. PICK t : t = disp.todo
    OBVIOUS
  <1>3. t \in Seq(Subs) /\ t # << >> /\ Head(t) = t[1] /\ t[1] \notin Permanent
    BY <1>1, <1>2
  <1>4. ~InTodo(First)
    BY <1>2, <1>3, LogTypes DEF DispOK, First
  <1>5. \A k \in 1 .. Len(Tail(t)) : Tail(t)[k] = t[k + 1] /\ k + 1 \in 1 .. Len(t)
    BY <1>3, TailElements
  <1>6. \/ /\ disp'.pc = "dispatching" /\ disp'.todo = Tail(t) /\ disp'.known = disp.known
           /\ disp'.id = disp.id /\ disp'.ev = disp.ev
        \/ disp'.pc = "dead"
    BY <1>1, <1>2 DEF DispType, DispAt
  <1>7. disp'.pc = "dispatching" => ~InTodo(First)' /\ DispEntry' = DispEntry
    BY <1>2, <1>4, <1>5, <1>6, ZenonT(60) DEF InTodo, DispEntry
  <1>8. ASSUME NEW s, Pending(s)' PROVE Pending(s)
    <2>1. disp'.todo = Tail(t) /\ \E k \in 1 .. Len(disp'.todo) : disp'.todo[k] = s
      BY <1>6, <1>8 DEF Pending, InTodo
    <2>2. PICK k \in 1 .. Len(Tail(t)) : Tail(t)[k] = s
      BY <2>1
    <2>3. k + 1 \in 1 .. Len(t) /\ t[k + 1] = s
      BY <1>5, <2>2
    <2> QED
      BY <1>2, <1>4, <2>3 DEF Pending, InTodo
  <1>9. \A s \in Permanent : disp'.pc = "dispatching" => (Pending(s)' <=> Pending(s))
    <2> SUFFICES ASSUME NEW s \in Permanent, disp'.pc = "dispatching", Pending(s) PROVE Pending(s)'
      BY <1>8
    <2>1. PICK k \in 1 .. Len(t) : t[k] = s
      BY <1>2 DEF Pending, InTodo
    <2>2. k # 1 /\ Len(Tail(t)) = Len(t) - 1 /\ Len(t) \in Nat
      BY <1>3, <2>1
    <2>3. k - 1 \in 1 .. Len(Tail(t)) /\ (k - 1) + 1 = k
      BY <2>1, <2>2
    <2>4. Tail(t)[k - 1] = s
      BY <1>5, <2>1, <2>3
    <2> QED
      BY <1>6, <1>7, <2>3, <2>4 DEF Pending, InTodo
  <1>10. InHand(First) = << >> /\ InHand(First)' = << >>
    BY <1>4, <1>6, <1>7 DEF InHand, InTodo
  <1>11. Shared' = Shared /\ \A s : Given(s)' = Given(s)
    BY DEF Shared, Given
  <1>12. StreamLog' = StreamLog
    BY <1>10, <1>11 DEF StreamLog
  <1>13. DispOK'
    <2>1. disp'.pc = "dispatching" =>
             \A j, k \in 1 .. Len(disp'.todo) : disp'.todo[j] = disp'.todo[k] => j = k
      <3> SUFFICES ASSUME disp'.pc = "dispatching", NEW j \in 1 .. Len(Tail(t)), NEW k \in 1 .. Len(Tail(t)),
                          Tail(t)[j] = Tail(t)[k]
                   PROVE  j = k
        BY <1>6
      <3>1. j + 1 = k + 1 /\ j \in Int /\ k \in Int
        BY <1>2, <1>5 DEF DispOK
      <3> QED
        BY <3>1
    <2>2. closer.pc \notin {"clean", "closed"}
      BY DEF DispOK
    <2> QED
      BY <1>6, <1>7, <2>1, <2>2 DEF DispOK
  <1>14. Handed'
    <2>1. ASSUME NEW s \in Permanent PROVE KeepsUp(s)'
      BY <1>6, <1>9, <1>11 DEF Handed, KeepsUp
    <2>2. ASSUME NEW s \in Subs \ Permanent PROVE Follows(s)'
      BY <1>8, <1>11 DEF Handed, Follows
    <2> QED
      BY <1>4, <1>7, <1>11, <2>1, <2>2 DEF Handed
  <1> QED
    BY <1>12, <1>13, <1>14, WritersStay, LogEqualities

(* The queue thread is done with the callback it is at. *)
DispAdvances == disp' = [disp EXCEPT !.todo = Tail(disp.todo)]

(* The entry in hand goes to the pool of h. *)
LEMMA LogHands ==
    ASSUME TypeInv, OrderIsComplete, LogInv, disp.pc = "dispatching", disp.todo # << >>,
           NEW h \in Subs, h = Head(disp.todo),
           inbox' = [inbox EXCEPT ![h] = Append(inbox[h], DispEntry)],
           DispAdvances,
           UNCHANGED <<files, added, writer, queue, status, keys, delivered, closer>>
    PROVE  LogInv' /\ UNCHANGED Log!logVars
  <1> USE DEF LogInv
  <1>1. disp \in DispType /\ disp.todo \in Seq(Subs) /\ inbox \in [Subs -> Seq(Entry)]
        /\ delivered \in [Subs -> Seq(Entry)]
    BY DEF TypeInv, TypeOK, DeliveryTypeOK, DispType
  <1>2. PICK t, x : t = disp.todo /\ x = DispEntry
    OBVIOUS
  <1>3. t \in Seq(Subs) /\ t # << >> /\ t[1] = h /\ 1 \in 1 .. Len(t) /\ Len(t) \in Nat
        /\ Len(Tail(t)) = Len(t) - 1
    BY <1>1, <1>2
  <1>4. \A k \in 1 .. Len(Tail(t)) : Tail(t)[k] = t[k + 1] /\ k + 1 \in 1 .. Len(t)
    BY <1>3, TailElements
  <1>5. \A j, k \in 1 .. Len(t) : t[j] = t[k] => j = k
    BY <1>2 DEF DispOK
  <1>6. /\ disp'.pc = "dispatching" /\ disp'.todo = Tail(t) /\ disp'.known = disp.known
        /\ disp'.id = disp.id /\ disp'.ev = disp.ev /\ DispEntry' = DispEntry
    BY <1>1, <1>2 DEF DispType, DispEntry, DispAdvances
  <1>7. \A s : InTodo(s)' <=> InTodo(s) /\ s # h
    <2>1. ASSUME NEW s, InTodo(s)' PROVE InTodo(s) /\ s # h
      <3>1. PICK k \in 1 .. Len(Tail(t)) : Tail(t)[k] = s
        BY <1>6, <2>1 DEF InTodo
      <3>2. k + 1 \in 1 .. Len(t) /\ t[k + 1] = s /\ k + 1 # 1
        BY <1>4, <3>1
      <3> QED
        BY <1>2, <1>3, <1>5, <3>2 DEF InTodo
    <2>2. ASSUME NEW s, InTodo(s), s # h PROVE InTodo(s)'
      <3>1. PICK k \in 1 .. Len(t) : t[k] = s
        BY <1>2, <2>2 DEF InTodo
      <3>2. k # 1
        BY <1>3, <2>2, <3>1
      <3>3. k - 1 \in 1 .. Len(Tail(t)) /\ (k - 1) + 1 = k
        BY <1>3, <3>1, <3>2
      <3>4. Tail(t)[k - 1] = s
        BY <1>4, <3>1, <3>3
      <3> QED
        BY <1>6, <3>3, <3>4 DEF InTodo
    <2> QED
      BY <2>1, <2>2
  <1>8. ~InTodo(First)' /\ InTodo(h) /\ (h # First => ~InTodo(First))
    <2>1. InTodo(First) => h = First
      BY <1>2, <1>3 DEF DispOK, First
    <2>2. InTodo(h)
      BY <1>2, <1>3 DEF InTodo
    <2> QED
      BY <1>7, <2>1, <2>2 DEF InTodo, First
  <1>9. x \in Entry /\ First \in Subs /\ First \in Permanent
    BY <1>2, LogTypes
  <1>10. /\ \A s \in Subs : s # h => Given(s)' = Given(s)
         /\ Given(h)' = Append(Given(h), x)
    <2>1. delivered[h] \in Seq(Entry) /\ inbox[h] \in Seq(Entry)
      BY <1>1
    <2>2. delivered[h] \o Append(inbox[h], x) = Append(delivered[h] \o inbox[h], x)
      <3>1. x \in Entry
        BY <1>9
      <3>2. PICK d, i : d = delivered[h] /\ i = inbox[h]
        OBVIOUS
      <3>3. d \in Seq(Entry) /\ i \in Seq(Entry)
        BY <2>1, <3>2
      <3>4. d \o Append(i, x) = Append(d \o i, x)
        BY <3>1, <3>3, AppendLast
      <3> QED
        BY <3>2, <3>4
    <2>3. inbox'[h] = Append(inbox[h], x) /\ \A s \in Subs : s # h => inbox'[s] = inbox[s]
      BY <1>1, <1>2
    <2> QED
      BY <2>2, <2>3 DEF Given
  <1>11. PICK n : n = Len(Given(h))
    OBVIOUS
  <1>12. /\ n \in Nat /\ Len(Given(h)') = n + 1 /\ Given(h)'[n + 1] = x
         /\ \A i \in 1 .. n : Given(h)'[i] = Given(h)[i]
         /\ \A i \in 1 .. n + 1 : i \in 1 .. n \/ i = n + 1
    <2>1. Given(h) \in Seq(Entry)
      BY LogTypes
    <2>2. n \in Nat
      BY <1>11, <2>1, LenProperties
    <2>3. \A i \in 1 .. n + 1 : i \in 1 .. n \/ i = n + 1
      BY <2>2
    <2> QED
      BY <1>9, <1>10, <1>11, <2>1, <2>2, <2>3, AppendProperties
  <1>13. InHand(First)' = << >>
    BY <1>8 DEF InHand, InTodo
  <1>14. DispOK'
    <2>1. \A j, k \in 1 .. Len(disp'.todo) : disp'.todo[j] = disp'.todo[k] => j = k
      <3>1. PICK u : u = Tail(t) /\ disp'.todo = u
        BY <1>6
      <3>2. \A k \in 1 .. Len(u) : u[k] = t[k + 1] /\ k + 1 \in 1 .. Len(t) /\ k \in Int
        BY <1>4, <3>1
      <3>3. ASSUME NEW j \in 1 .. Len(u), NEW k \in 1 .. Len(u), u[j] = u[k]
            PROVE  j = k
        <4>1. j + 1 = k + 1
          BY <1>5, <3>2, <3>3
        <4> QED
          BY <3>2, <4>1
      <3>4. \A j, k \in 1 .. Len(u) : u[j] = u[k] => j = k
        BY <3>3
      <3> QED
        BY <3>1, <3>4
    <2>2. closer.pc \notin {"clean", "closed"}
      BY DEF DispOK
    <2> QED
      BY <1>6, <1>8, <2>1, <2>2 DEF DispOK
  <1>15. /\ StreamLog' = StreamLog
         /\ Shared' # << >> /\ Shared'[Len(Shared')] = x
         /\ h # First => Shared' = Shared
         /\ h = First => /\ Len(Shared') = Len(Shared) + 1 /\ Len(Shared) \in Nat
                        /\ \A i \in 1 .. Len(Shared) : Shared'[i] = Shared[i]
    <2>1. CASE h = First
      <3>1. Shared' = Append(Shared, x) /\ Shared \in Seq(Entry) /\ queue \in Seq(Entry)
        BY <1>10, <2>1, LogTypes DEF Shared
      <3>2. InHand(First) = <<x>>
        BY <1>2, <1>8, <2>1 DEF InHand, InTodo, DispEntry
      <3>3. (Append(Shared, x) \o << >>) \o queue = (Shared \o <<x>>) \o queue
        BY <1>9, <3>1, HandOver
      <3>4. StreamLog' = StreamLog
        BY <1>13, <3>1, <3>2, <3>3 DEF StreamLog
      <3>5. Shared' = Given(h)' /\ Shared = Given(h)
        BY <2>1 DEF Shared
      <3>6. Shared' # << >>
        BY <1>9, <3>1, AppendInSeq
      <3> QED
        BY <1>11, <1>12, <2>1, <3>4, <3>5, <3>6
    <2>2. CASE h # First
      <3>1. Shared' = Shared
        BY <1>9, <1>10, <2>2 DEF Shared
      <3>2. InHand(First) = << >>
        BY <1>8, <2>2 DEF InHand, InTodo
      <3>3. StreamLog' = StreamLog
        BY <1>13, <3>1, <3>2 DEF StreamLog
      <3> QED
        BY <1>2, <1>8, <2>2, <3>1, <3>3 DEF Handed
    <2> QED
      BY <2>1, <2>2
  <1>16. LogFresh' /\ EventOnce'
    BY <1>15, WritersStay
  <1>17. \A j, k \in 1 .. Len(Shared) : Shared[j] = Shared[k] => j = k
    BY SharedOnce
  <1>18. Len(Shared) \in Nat /\ \A s \in Subs : Len(Given(s)) \in Nat
    BY <1>9, LogTypes DEF Shared
  <1>19. h = First => \A a \in 1 .. Len(Shared) : Shared[a] # x
    <2> SUFFICES ASSUME h = First, NEW a \in 1 .. Len(Shared), Shared[a] = x PROVE FALSE
      OBVIOUS
    <2>1. Shared'[a] = x /\ Shared'[Len(Shared) + 1] = x /\ a # Len(Shared) + 1
      BY <1>15, <1>18
    <2>2. a \in 1 .. Len(Shared') /\ Len(Shared) + 1 \in 1 .. Len(Shared')
      BY <1>15, <1>18
    <2>3. Shared' \in Seq(Entry) /\ InHand(First)' \in Seq(Entry) /\ queue' \in Seq(Entry)
      <3>1. Shared \in Seq(Entry) /\ queue \in Seq(Entry)
        BY LogTypes
      <3>2. Shared' = Append(Shared, x)
        BY <1>10 DEF Shared
      <3> QED
        BY <1>9, <1>13, <3>1, <3>2, AppendInSeq
    <2>4. \A i \in 1 .. Len(Shared') : i \in 1 .. Len(StreamLog') /\ StreamLog'[i] = Shared'[i]
      BY <2>3, LogBegins DEF StreamLog
    <2> QED
      BY <1>16, <2>1, <2>2, <2>4 DEF LogFresh
  <1>20. ASSUME NEW s \in Permanent PROVE KeepsUp(s)'
    <2>1. s \in Subs /\ KeepsUp(s)
      BY DEF Permanent, Handed
    <2>2. CASE s = h /\ h # First
      <3>1. Pending(s) /\ ~Pending(s)'
        BY <1>7, <1>8, <2>2 DEF Pending
      <3>2. Len(Shared) = n + 1
        BY <1>11, <2>1, <2>2, <3>1 DEF KeepsUp
      <3>3. \A i \in 1 .. n : Given(h)[i] = Shared[i]
        BY <1>11, <2>1, <2>2 DEF KeepsUp
      <3>4. Len(Given(h)') <= Len(Shared) /\ Len(Given(h)') = Len(Shared)
        BY <1>12, <3>2
      <3>5. Shared[n + 1] = x /\ Shared' = Shared
        BY <1>15, <2>2, <3>2
      <3>6. \A i \in 1 .. Len(Given(h)') : Given(h)'[i] = Shared[i]
        BY <1>12, <3>3, <3>5
      <3> QED
        BY <2>2, <3>1, <3>4, <3>5, <3>6 DEF KeepsUp
    <2>3. CASE s = h /\ h = First
      <3>1. ~Pending(s)' /\ Given(s)' = Shared'
        BY <1>7, <2>3 DEF Pending, Shared
      <3>2. Len(Shared') \in Nat
        BY <1>15, <1>18, <2>3
      <3> QED
        BY <3>1, <3>2 DEF KeepsUp
    <2>4. CASE s # h /\ h # First
      <3>1. Given(s)' = Given(s) /\ Shared' = Shared /\ Pending(s)' = Pending(s)
        BY <1>6, <1>7, <1>8, <1>10, <1>15, <2>1, <2>4 DEF Pending
      <3> QED
        BY <2>1, <3>1 DEF KeepsUp
    <2>5. CASE s # h /\ h = First
      <3>1. Given(s)' = Given(s) /\ ~Pending(s)
        BY <1>8, <1>10, <2>1, <2>5 DEF Pending
      <3>2. Len(Given(s)) = Len(Shared) /\ \A i \in 1 .. Len(Given(s)) : Given(s)[i] = Shared[i]
        BY <2>1, <3>1 DEF KeepsUp
      <3>3. Pending(s)'
        <4>1. PICK k \in 1 .. Len(SubOrder) : SubOrder[k] = s
          BY DEF OrderIsComplete
        <4>2. InTodo(s)
          BY <1>8, <2>5, <4>1 DEF DispOK, InTodo
        <4> QED
          BY <1>6, <1>7, <1>8, <2>5, <4>2 DEF Pending
      <3>4. Len(Shared') = Len(Given(s)) + 1 /\ Len(Given(s)) <= Len(Shared')
        BY <1>15, <1>18, <2>5, <3>2
      <3>5. \A i \in 1 .. Len(Given(s)) : Given(s)[i] = Shared'[i]
        BY <1>15, <2>5, <3>2
      <3> QED
        BY <3>1, <3>3, <3>4, <3>5 DEF KeepsUp
    <2> QED
      BY <2>2, <2>3, <2>4, <2>5
  <1>21. ASSUME NEW s \in Subs \ Permanent PROVE Follows(s)'
    <2>1. Follows(s) /\ s # First
      BY <1>9 DEF Handed
    <2>2. CASE s = h
      <3>1. h # First /\ Shared' = Shared /\ Pending(s) /\ ~Pending(s)'
        BY <1>7, <1>8, <1>15, <2>1, <2>2 DEF Pending
      <3>2. Shared[Len(Shared)] = x /\ Len(Shared) \in 1 .. Len(Shared)
        <4>1. Shared \in Seq(Entry) /\ Shared # << >>
          BY <1>15, <3>1, LogTypes
        <4> QED
          BY <1>15, <3>1, <4>1
      <3>3. \A i \in 1 .. n : \E a \in 1 .. Len(Shared) : Given(h)[i] = Shared[a] /\ a < Len(Shared)
        BY <1>11, <2>1, <2>2, <3>1 DEF Follows
      <3>4. ASSUME NEW i \in 1 .. n + 1 PROVE \E a \in 1 .. Len(Shared) : Given(h)'[i] = Shared[a]
        <4>1. CASE i \in 1 .. n
          BY <1>12, <3>3, <4>1
        <4>2. CASE i = n + 1
          BY <1>12, <3>2, <4>2
        <4> QED
          BY <1>12, <4>1, <4>2
      <3>5. ASSUME NEW i \in 1 .. n + 1, NEW j \in 1 .. n + 1, NEW a \in 1 .. Len(Shared), NEW b \in 1 .. Len(Shared),
                   i < j, Given(h)'[i] = Shared[a], Given(h)'[j] = Shared[b]
            PROVE  a < b
        <4>1. i \in 1 .. n
          BY <1>12, <3>5
        <4>2. CASE j \in 1 .. n
          BY <1>11, <1>12, <2>1, <2>2, <3>5, <4>1, <4>2 DEF Follows
        <4>3. CASE j = n + 1
          <5>1. b = Len(Shared)
            BY <1>12, <1>17, <3>2, <3>5, <4>3
          <5>2. PICK c \in 1 .. Len(Shared) : Given(h)[i] = Shared[c] /\ c < Len(Shared)
            BY <3>3, <4>1
          <5>3. a = c
            BY <1>12, <1>17, <3>5, <4>1, <5>2
          <5> QED
            BY <5>1, <5>2, <5>3
        <4> QED
          BY <1>12, <4>2, <4>3
      <3> QED
        BY <1>12, <2>2, <3>1, <3>4, <3>5 DEF Follows
    <2>3. CASE s # h /\ h # First
      <3>1. Given(s)' = Given(s) /\ Shared' = Shared /\ Pending(s)' = Pending(s)
        BY <1>6, <1>7, <1>8, <1>10, <1>15, <2>3 DEF Pending
      <3> QED
        BY <2>1, <3>1 DEF Follows
    <2>4. CASE s # h /\ h = First
      <3>1. Given(s)' = Given(s)
        BY <1>10, <2>4
      <3>2. Len(Shared') = Len(Shared) + 1 /\ \A a \in 1 .. Len(Shared) : /\ a \in 1 .. Len(Shared')
                                                                          /\ a < Len(Shared')
                                                                          /\ Shared'[a] = Shared[a]
        BY <1>15, <1>18, <2>4
      <3>3. \A a \in 1 .. Len(Shared') : a \in 1 .. Len(Shared) \/ Shared'[a] = x
        BY <1>15, <1>18, <2>4
      <3>4. \A i \in 1 .. Len(Given(s)) : \E a \in 1 .. Len(Shared) : Given(s)[i] = Shared[a] /\ Given(s)[i] # x
        BY <1>19, <2>1, <2>4 DEF Follows
      <3>5. ASSUME NEW i \in 1 .. Len(Given(s)), NEW j \in 1 .. Len(Given(s)),
                   NEW a \in 1 .. Len(Shared'), NEW b \in 1 .. Len(Shared'),
                   i < j, Given(s)[i] = Shared'[a], Given(s)[j] = Shared'[b]
            PROVE  a < b
        <4>1. a \in 1 .. Len(Shared) /\ b \in 1 .. Len(Shared)
          BY <3>3, <3>4, <3>5
        <4> QED
          BY <2>1, <3>2, <3>5, <4>1 DEF Follows
      <3>6. \A i \in 1 .. Len(Given(s)) : \E a \in 1 .. Len(Shared') : Given(s)[i] = Shared'[a] /\ a < Len(Shared')
        BY <3>2, <3>4
      <3> QED
        BY <3>1, <3>5, <3>6 DEF Follows
    <2> QED
      BY <2>2, <2>3, <2>4
  <1>22. Handed'
    BY <1>2, <1>6, <1>15, <1>20, <1>21 DEF Handed
  <1> QED
    BY <1>14, <1>15, <1>16, <1>22, LogEqualities

LEMMA LogDispatch ==
    ASSUME TypeInv, OrderIsComplete, LogInv, Dispatch
    PROVE  LogInv' /\ UNCHANGED Log!logVars
  <1>1. PICK h : h = Head(disp.todo)
    OBVIOUS
  <1>2. /\ disp.pc = "dispatching" /\ disp.todo # << >>
        /\ UNCHANGED <<files, added, writer, queue, status, keys, delivered, closer>>
        /\ \/ /\ h \notin disp.known \/ status[h] = "absent"
              /\ DispAdvances /\ UNCHANGED inbox
           \/ /\ h \in disp.known /\ status[h] = "active" /\ DispAdvances
              /\ inbox' = [inbox EXCEPT ![h] = Append(inbox[h], DispEntry)]
           \/ /\ h \in disp.known /\ status[h] \in {"registered", "closing"}
              /\ disp' = DispAt("dead") /\ UNCHANGED inbox
    BY <1>1 DEF Dispatch, DispEntry, DispAdvances, addVars, storeVars, histVars
  <1>3. h \in Subs
    BY <1>1, <1>2, HeadTailInSeq DEF TypeInv, TypeOK, DeliveryTypeOK, DispType
  <1>4. \A s \in Permanent : s \in disp.known /\ status[s] = "active"
    <2>1. closer.pc \in {"open", "join"}
      <3>1. closer.pc \in {"open", "join", "clean", "closed"}
        BY DEF TypeInv, TypeOK, DeliveryTypeOK, CloserType
      <3> QED
        BY <1>2, <3>1 DEF LogInv, DispOK
    <2> QED
      BY <1>2, <2>1 DEF LogInv, DispOK
  <1>5. CASE h \in disp.known /\ status[h] = "active"
    <2>1. inbox' = [inbox EXCEPT ![h] = Append(inbox[h], DispEntry)] /\ DispAdvances
      BY <1>2, <1>5
    <2> QED
      BY <1>1, <1>2, <1>3, <2>1, LogHands
  <1>6. CASE ~(h \in disp.known /\ status[h] = "active")
    <2>1. h \notin Permanent /\ UNCHANGED inbox
      BY <1>2, <1>4, <1>6
    <2>2. \/ disp' = [disp EXCEPT !.todo = Tail(disp.todo)]
          \/ disp' = DispAt("dead")
      BY <1>2, <1>6 DEF DispAdvances
    <2> QED
      BY <1>1, <1>2, <2>1, <2>2, LogPassesOver
  <1> QED
    BY <1>5, <1>6

(* Subscribers come and go, and close() works through its list. *)
LEMMA LogStatus ==
    ASSUME TypeInv, OrderIsComplete, LogInv,
           UNCHANGED <<files, added, writer, queue, disp, inbox, delivered>>, DispOK'
    PROVE  LogInv' /\ (UNCHANGED closer => UNCHANGED Log!logVars) /\ StreamLog' = StreamLog
  <1> USE DEF LogInv
  <1>1. \A s : Given(s)' = Given(s)
    BY DEF Given
  <1>2. Shared' = Shared /\ InHand(First)' = InHand(First)
    BY DEF Given, Shared, InHand
  <1>3. \A s : InTodo(s)' = InTodo(s) /\ Pending(s)' = Pending(s)
    BY DEF InTodo, Pending
  <1>4. DispEntry' = DispEntry /\ InTodo(First)' = InTodo(First)
    BY DEF DispEntry, InTodo
  <1>5. StreamLog' = StreamLog
    BY <1>2 DEF StreamLog
  <1>6. Handed'
    BY <1>1, <1>2, <1>3, <1>4 DEF Handed, KeepsUp, Follows
  <1> QED
    BY <1>5, <1>6, WritersStay, LogEqualities

LEMMA LogSubscribers ==
    ASSUME TypeInv, OrderIsComplete, LogInv, NEW s \in Subs,
           \/ SubscribePool(s) \/ CleanUpSubscriber(s)
           \/ s \in Joiners /\ SubscribeCallback(s)
           \/ s \in Leavers /\ Unsubscribe(s)
    PROVE  LogInv' /\ UNCHANGED Log!logVars
  <1>1. UNCHANGED <<files, added, writer, queue, disp, inbox, delivered, closer>>
    BY DEF SubscribePool, CleanUpSubscriber, SubscribeCallback, Unsubscribe, addVars, storeVars, histVars
  <1>2. keys \subseteq keys'
    BY DEF SubscribePool, CleanUpSubscriber, SubscribeCallback, Unsubscribe
  <1>3. \A t \in Subs : t # s => status'[t] = status[t]
    BY DEF SubscribePool, CleanUpSubscriber, SubscribeCallback, Unsubscribe, TypeInv, TypeOK, DeliveryTypeOK
  <1>4. s \in Permanent => status[s] # "active"
    BY DEF SubscribePool, CleanUpSubscriber, SubscribeCallback, Unsubscribe, Permanent
  <1>5. DispOK'
    <2>1. InTodo(First)' = InTodo(First) /\ DispOK
      BY <1>1 DEF InTodo, LogInv
    <2>2. closer.pc \in {"open", "join"} => \A t \in Permanent : status'[t] = "active"
      BY <1>3, <1>4, <2>1 DEF DispOK, Permanent
    <2> QED
      BY <1>1, <1>2, <2>1, <2>2 DEF DispOK
  <1> QED
    BY <1>1, <1>5, LogStatus

LEMMA LogClose ==
    ASSUME TypeInv, OrderIsComplete, LogInv,
           Close \/ CloseJoined \/ \E s \in Subs : CloseCleanUp(s)
    PROVE  LogInv' /\ [Log!LogNext]_(Log!logVars)
  <1>1. UNCHANGED <<files, added, writer, queue, disp, inbox, delivered, keys>>
    BY DEF Close, CloseJoined, CloseCleanUp, addVars, storeVars, subVars, histVars
  <1>2. InTodo(First)' = InTodo(First) /\ DispOK
    BY <1>1 DEF InTodo, LogInv
  <1>3. closer \in CloserType
    BY DEF TypeInv, TypeOK, DeliveryTypeOK
  <1>4. KeptEvents' = KeptEvents
    BY <1>1 DEF KeptEvents, Durable
  <1>5. CASE Close
    <2>1. closer.pc = "open" /\ closer'.pc = "join" /\ closer'.stop = TRUE /\ status' = status
      BY <1>5 DEF Close, subVars
    <2>2. DispOK'
      BY <1>1, <1>2, <2>1 DEF DispOK
    <2>3. LogInv' /\ StreamLog' = StreamLog
      BY <1>1, <2>2, LogStatus
    <2>4. Log!CloseLog
      <3>1. ~closer.stop /\ (~closer'.stop) = FALSE
        BY <1>2, <2>1 DEF DispOK
      <3> QED
        BY <1>1, <1>4, <2>3, <3>1, LogEqualities, LogIsStreamLog DEF Log!CloseLog
    <2> QED
      BY <2>3, <2>4 DEF Log!LogNext
  <1>6. CASE CloseJoined
    <2>1. /\ closer.pc = "join" /\ disp.pc \in {"exited", "dead"} /\ status' = status
          /\ closer'.pc = "clean" /\ closer'.stop = closer.stop
      BY <1>3, <1>6 DEF CloseJoined, CloserType, subVars
    <2>2. DispOK'
      BY <1>1, <1>2, <2>1 DEF DispOK
    <2>3. LogInv' /\ StreamLog' = StreamLog
      BY <1>1, <2>2, LogStatus
    <2> QED
      BY <1>1, <1>4, <2>1, <2>3, LogEqualities, LogIsStreamLog DEF Log!logVars
  <1>7. CASE \E s \in Subs : CloseCleanUp(s)
    <2>1. closer.pc = "clean" /\ closer'.pc = "clean" /\ closer'.stop = closer.stop
      BY <1>3, <1>7 DEF CloseCleanUp, CloserType
    <2>2. DispOK'
      BY <1>1, <1>2, <2>1 DEF DispOK
    <2>3. LogInv' /\ StreamLog' = StreamLog
      BY <1>1, <2>2, LogStatus
    <2> QED
      BY <1>1, <1>4, <2>1, <2>3, LogEqualities, LogIsStreamLog DEF Log!logVars
  <1> QED
    BY <1>5, <1>6, <1>7

(* The end of close() drops what nobody was handed. *)
LEMMA LogDrops ==
    ASSUME TypeInv, OrderIsComplete, LogInv, CloseClearQueue
    PROVE  LogInv' /\ Log!LogNext
  <1> USE DEF LogInv
  <1>1. /\ closer.pc = "clean" /\ queue' = << >>
        /\ UNCHANGED <<files, added, writer, disp, status, keys, inbox, delivered>>
    BY DEF CloseClearQueue, addVars, storeVars, subVars, histVars
  <1>2. closer'.pc = "closed" /\ closer'.stop = closer.stop
    BY DEF CloseClearQueue, TypeInv, TypeOK, DeliveryTypeOK, CloserType
  <1>3. disp.pc \in {"exited", "dead"} /\ closer.stop
    BY <1>1 DEF DispOK
  <1>4. /\ \A s : Given(s)' = Given(s) /\ ~Pending(s) /\ ~Pending(s)'
        /\ Shared' = Shared /\ InHand(First) = << >> /\ InHand(First)' = << >>
    BY <1>1, <1>3 DEF Given, Shared, Pending, InHand
  <1>5. PICK n : n = Len(Shared)
    OBVIOUS
  <1>6. /\ Shared \in Seq(Entry) /\ queue \in Seq(Entry) /\ n \in Nat
        /\ StreamLog \in Seq(Entry) /\ Len(StreamLog) \in Nat
        /\ \A i \in 1 .. n : i \in 1 .. Len(StreamLog) /\ StreamLog[i] = Shared[i]
    <2>1. Shared \in Seq(Entry)
      BY LogTypes
    <2>2. n \in Nat
      BY <1>5, <2>1, LenProperties
    <2> QED
      BY <1>5, <2>2, LogTypes
  <1>7. StreamLog' = SubSeq(StreamLog, 1, n) /\ StreamLog' = Shared
    <2>1. (Shared \o << >>) \o << >> = SubSeq((Shared \o << >>) \o queue, 1, n)
      BY <1>5, <1>6, ClearRest
    <2>2. Shared \o << >> = Shared
      BY <1>6, ConcatEmptySeq
    <2>3. StreamLog' = (Shared \o << >>) \o << >> /\ StreamLog = (Shared \o << >>) \o queue
      BY <1>1, <1>4 DEF StreamLog
    <2> QED
      BY <2>1, <2>2, <2>3
  <1>8. n \in 0 .. Len(StreamLog)
    <2>1. CASE n = 0
      BY <1>6, <2>1
    <2>2. CASE n > 0
      <3>1. n \in 1 .. n
        BY <1>6, <2>2
      <3>2. n \in 1 .. Len(StreamLog)
        BY <1>6, <3>1
      <3> QED
        BY <1>6, <3>2
    <2> QED
      BY <1>6, <2>1, <2>2
  <1>9. LogFresh'
    <2>1. Len(StreamLog') = n /\ \A k \in 1 .. n : k \in 1 .. Len(StreamLog) /\ StreamLog'[k] = StreamLog[k]
      BY <1>5, <1>6, <1>7
    <2> QED
      BY <1>1, <2>1 DEF LogFresh, OnDisk, InFlight
  <1>10. EventOnce'
    BY <1>1, WritersStay
  <1>11. DispOK'
    BY <1>1, <1>2, <1>3 DEF DispOK
  <1>12. Handed'
    <2>1. ASSUME NEW s \in Permanent PROVE KeepsUp(s)'
      BY <1>1, <1>3, <1>4 DEF Handed, KeepsUp
    <2>2. ASSUME NEW s \in Subs \ Permanent PROVE Follows(s)'
      BY <1>4 DEF Handed, Follows
    <2> QED
      BY <1>1, <1>3, <2>1, <2>2 DEF Handed
  <1>13. ASSUME NEW s \in Subs, NEW i \in 1 .. Len(delivered[s])
         PROVE  Log!Occurs(delivered[s][i], Shared)
    <2>1. delivered[s] \in Seq(Entry) /\ inbox[s] \in Seq(Entry)
      BY DEF TypeInv, TypeOK, DeliveryTypeOK
    <2>2. Given(s)[i] = delivered[s][i] /\ i \in 1 .. Len(Given(s))
      <3>1. PICK d, q : d = delivered[s] /\ q = inbox[s]
        OBVIOUS
      <3>2. d \in Seq(Entry) /\ q \in Seq(Entry)
        BY <2>1, <3>1
      <3>3. << >> \in Seq(Entry) /\ d \o << >> = d
        BY <3>2, ConcatEmptySeq
      <3>4. \A j \in 1 .. Len(d) : ((d \o << >>) \o q)[j] = d[j] /\ j \in 1 .. Len((d \o << >>) \o q)
        BY <3>2, <3>3, LogBegins
      <3>5. Given(s) = (d \o << >>) \o q
        BY <3>1, <3>3 DEF Given
      <3> QED
        BY <3>1, <3>4, <3>5
    <2>3. CASE s \in Permanent
      <3>1. KeepsUp(s)
        BY <2>3 DEF Handed
      <3>2. Len(Given(s)) \in Nat /\ Len(Given(s)) <= n /\ Given(s)[i] = Shared[i]
        BY <1>5, <2>2, <3>1, LogTypes DEF KeepsUp
      <3>3. i \in 1 .. n
        BY <1>6, <2>2, <3>2
      <3> QED
        BY <1>5, <2>2, <3>2, <3>3 DEF Log!Occurs
    <2>4. CASE s \notin Permanent
      <3>1. Follows(s)
        BY <2>4 DEF Handed
      <3> QED
        BY <2>2, <3>1 DEF Follows, Log!Occurs
    <2> QED
      BY <2>3, <2>4
  <1>14. Log!Drop(n)
    <2>1. KeptEvents' = KeptEvents
      BY <1>1 DEF KeptEvents, Durable
    <2>2. LogOf(SubOrder[1]) = StreamLog /\ LogOf(SubOrder[1])' = StreamLog'
      BY LogEqualities, LogIsStreamLog
    <2>3. ~(~closer.stop) /\ (~closer'.stop) = (~closer.stop)
      BY <1>2, <1>3
    <2> QED
      BY <1>1, <1>7, <1>13, <2>1, <2>2, <2>3 DEF Log!Drop
  <1>15. n \in 0 .. Len(LogOf(SubOrder[1]))
    BY <1>8, LogIsStreamLog
  <1> QED
    BY <1>9, <1>10, <1>11, <1>12, <1>14, <1>15 DEF Log!LogNext

LEMMA LogSearch ==
    ASSUME TypeInv, DurabilityInv, OrderIsComplete, LogInv,
           \/ UNCHANGED vars
           \/ \E r \in Readers : SearchStep(r) \/ EndSearch(r)
           \/ \E r \in Readers, reverse \in BOOLEAN : BeginSearch(r, reverse)
    PROVE  LogInv' /\ UNCHANGED Log!logVars
  <1>1. UNCHANGED <<files, added, writer, queue, disp, inbox, delivered, closer, status, keys>>
    BY DEF SearchStep, EndSearch, BeginSearch, vars, addVars, storeVars, subVars, histVars
  <1>2. DispOK'
    BY <1>1, DeliveryStays DEF LogInv
  <1> QED
    BY <1>1, <1>2, LogStatus

(* The process dies and the next one begins a new log. *)
LEMMA LogRestarts ==
    ASSUME TypeInv, OrderIsComplete, LogInv, Crash
    PROVE  LogInv' /\ Log!LogNext
  <1> USE DEF LogInv
  <1>1. /\ writer' = [w \in Writers |-> IdleWriter] /\ queue' = << >> /\ disp' = DispAt("idle")
        /\ status' = InitialStatus /\ keys' = Subs \ Joiners
        /\ inbox' = [s \in Subs |-> << >>] /\ delivered' = [s \in Subs |-> << >>]
        /\ closer' = OpenCloser /\ UNCHANGED <<files, added>>
    BY DEF Crash
  <1>2. \A s \in Subs : Given(s)' = << >> /\ Len(Given(s)') = 0
    <2>1. << >> \in Seq(Entry) /\ Len(<< >>) = 0
      OBVIOUS
    <2>2. << >> \o << >> = << >>
      BY <2>1, ConcatEmptySeq
    <2> QED
      BY <1>1, <2>1, <2>2 DEF Given
  <1>3. Shared' = << >> /\ Len(Shared') = 0
    BY <1>2, LogTypes DEF Shared
  <1>4. InHand(First)' = << >> /\ disp'.pc = "idle"
    BY <1>1 DEF InHand, DispAt
  <1>5. StreamLog' = << >>
    <2>1. << >> \in Seq(Entry)
      OBVIOUS
    <2>2. << >> \o << >> = << >>
      BY <2>1, ConcatEmptySeq
    <2> QED
      BY <1>1, <1>3, <1>4, <2>2 DEF StreamLog
  <1>6. \A w \in Writers : ~InFlight(w)'
    BY <1>1 DEF InFlight, IdleWriter
  <1>7. DispOK'
    <2>1. /\ closer'.pc = "open" /\ closer'.stop = FALSE
          /\ \A s \in Permanent : status'[s] = "active" /\ s \in keys'
      BY <1>1 DEF OpenCloser, InitialStatus, Permanent
    <2> QED
      BY <1>4, <2>1 DEF DispOK
  <1>8. LogFresh'
    BY <1>5 DEF LogFresh
  <1>9. EventOnce'
    BY <1>1, <1>6, EventKept
  <1>10. Handed'
    <2>1. \A s \in Subs : ~Pending(s)'
      BY <1>4 DEF Pending
    <2> QED
      BY <1>2, <1>3, <1>4, <2>1 DEF Handed, Follows, KeepsUp, Permanent
  <1>11. Log!Restart
    <2>1. KeptEvents' = KeptEvents
      BY <1>1 DEF KeptEvents, Durable
    <2>2. (~closer'.stop) = TRUE
      BY <1>1 DEF OpenCloser
    <2> QED
      BY <1>1, <1>5, <2>1, <2>2, LogEqualities DEF Log!Restart
  <1> QED
    BY <1>7, <1>8, <1>9, <1>10, <1>11 DEF Log!LogNext

LEMMA LogStep ==
    ASSUME EarlyReaders = {}, OrderIsComplete
    PROVE  TypeInv /\ TypeInv' /\ DurabilityInv /\ LogInv /\ [Next]_vars =>
               LogInv' /\ [Log!LogNext]_(Log!logVars)
  <1> SUFFICES ASSUME TypeInv, TypeInv', DurabilityInv, LogInv, [Next]_vars
               PROVE  LogInv' /\ [Log!LogNext]_(Log!logVars)
    OBVIOUS
  <1>1. CASE \E w \in Writers : AddStep(w) \/ WriteRaises(w)
    BY <1>1, LogWriters, LogPosts DEF AddStep
  <1>2. CASE QueueThread
    BY <1>2, LogDequeue, LogDispatch, LogThreadRests DEF QueueThread
  <1>3. CASE \E s \in Subs : RunCallback(s) \/ SubscribePool(s) \/ CleanUpSubscriber(s)
    BY <1>3, LogReads, LogSubscribers
  <1>4. CASE (\E s \in Joiners : SubscribeCallback(s)) \/ (\E s \in Leavers : Unsubscribe(s))
    BY <1>4, LogSubscribers, ThreadsAssumption
  <1>5. CASE CloseStep
    BY <1>5, LogClose, LogDrops DEF CloseStep
  <1>6. CASE \/ UNCHANGED vars
             \/ \E r \in Readers : SearchStep(r) \/ EndSearch(r)
             \/ \E r \in Readers, reverse \in BOOLEAN : BeginSearch(r, reverse)
    BY <1>6, LogSearch
  <1>7. CASE Crash
    BY <1>7, LogRestarts
  <1> QED
    BY <1>1, <1>2, <1>3, <1>4, <1>5, <1>6, <1>7 DEF Next

LEMMA LogStarts ==
    ASSUME OrderIsComplete
    PROVE  Init => Log!LogInit
  <1> SUFFICES ASSUME Init PROVE Log!LogInit
    OBVIOUS
  <1>1. KeptEvents = {}
    BY DEF Init, KeptEvents, Durable
  <1>2. delivered = [s \in Subs |-> << >>] /\ inbox = [s \in Subs |-> << >>] /\ queue = << >>
        /\ disp.pc = "idle" /\ closer.stop = FALSE
    BY DEF Init, DispAt, OpenCloser
  <1>3. SubOrder[1] \in Subs
    BY DEF OrderIsComplete, Permanent
  <1>4. LogOf(SubOrder[1]) = << >>
    <2>1. << >> \in Seq(Entry)
      OBVIOUS
    <2>2. << >> \o << >> = << >>
      BY <2>1, ConcatEmptySeq
    <2> QED
      BY <1>2, <1>3, <2>2 DEF LogOf, InHand
  <1> QED
    BY <1>1, <1>2, <1>4 DEF Log!LogInit

(* The event stream implements the log of EventLog, for any number of      *)
(* threads, subscribers that come, go and stay, failing writes, crashes    *)
(* and closes: add_event keeps an event under an identifier of its own and *)
(* then posts it once, _process_queue and the pools with one worker let    *)
(* every subscriber read that one log in its order, those that stay without*)
(* gaps, and a restart loses nothing that was kept.  Assumed: cur_id is    *)
(* not computed outside the lock, and the first subscriber in the order of *)
(* sorted(self._subscribers) stays.                                        *)
THEOREM StreamImplementsLog ==
    ASSUME EarlyReaders = {}, OrderIsComplete
    PROVE  Spec => ImplementsEventLog
  <1>1. Init => LogInv
    BY LogInvInit
  <1>2. Init => Log!LogInit
    BY LogStarts
  <1> QED
    BY <1>1, <1>2, TypeInit, TypeStep, DurabilityInit, DurabilityStep, LogStep, PTL
       DEF Spec, ImplementsEventLog, Log!LogSpec

=============================================================================
