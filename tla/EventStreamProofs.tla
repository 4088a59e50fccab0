------------------------- MODULE EventStreamProofs -------------------------
(***************************************************************************)
(* Proofs about EventStream: type correctness, that the file of an event   *)
(* is never overwritten, that whatever a callback was given is on disk,    *)
(* that cache pages show what the files hold, and that a search finds      *)
(* everything that was delivered before it began.                          *)
(***************************************************************************)
EXTENDS EventStream, TLAPS, SequenceTheorems, WellFoundedInduction

InFlight(w) == writer[w].pc # "idle"

(* The shapes that the type invariant rests on: a stored page is full, and *)
(* a search walks towards the end of its range inside the identifiers.     *)
PagesFull == \A i \in Ids : pages[i] = << >> \/ Len(pages[i]) >= CacheSize

InRange(rd) ==
    /\ rd.step = 1  => 0 <= rd.idx /\ rd.idx <= rd.end /\ rd.end <= MaxId + 1
    /\ rd.step = -1 => rd.end = -1 /\ -1 <= rd.idx /\ rd.idx <= MaxId
    /\ rd.page = << >> \/ Len(rd.page) >= CacheSize

SearchInRange == \A r \in Readers : InRange(reader[r])

TypeInv == TypeOK /\ PagesFull /\ SearchInRange

(* Every identifier in use on disk or in the hands of a writer is below    *)
(* the next one to be given out.                                           *)
IdsBelow ==
    curId # None =>
        /\ \A i \in Ids : Durable(i) => i < curId
        /\ \A i \in orphans : i < curId
        /\ \A w \in Writers : InFlight(w) => writer[w].id < curId

NoneInFlight == curId = None => \A w \in Writers : ~InFlight(w)

InFlightDistinct ==
    \A v, w \in Writers :
        v # w /\ InFlight(v) /\ InFlight(w) => writer[v].id # writer[w].id

WriterState ==
    \A w \in Writers :
        /\ writer[w].pc \in {"assigned", "writing"} => ~Durable(writer[w].id)
        /\ writer[w].pc \in {"written", "stored"} => files[writer[w].id] = writer[w].ev

(* Nobody computes cur_id outside the lock. *)
NobodyCalculates == \A r \in Readers : reader[r].pc # "calc"

OnDisk(x) == files[x.id] = x.ev

(* What is on its way to a callback is on disk. *)
QueuedOnDisk ==
    /\ \A k \in 1 .. Len(queue) : OnDisk(queue[k])
    /\ disp.pc = "dispatching" => files[disp.id] = disp.ev
    /\ \A s \in Subs : \A k \in 1 .. Len(inbox[s]) : OnDisk(inbox[s][k])

DurabilityInv ==
    /\ IdsBelow
    /\ NoneInFlight
    /\ InFlightDistinct
    /\ WriterState
    /\ NobodyCalculates
    /\ QueuedOnDisk
    /\ DeliveredIsDurable

-----------------------------------------------------------------------------
(* Helpers                                                                 *)

LEMMA PageStartInIds == ASSUME NEW i \in Ids PROVE PageStart(i) \in Ids /\ i - PageStart(i) + 1 \in 1 .. CacheSize
  <1>1. i \in Nat /\ CacheSize \in Nat /\ CacheSize > 0 /\ MaxId \in Nat /\ i <= MaxId
    BY BoundsAssumption DEF Ids
  <1>2. i % CacheSize \in 0 .. CacheSize - 1
    BY <1>1, SMT
  <1>3. i % CacheSize <= i
    BY <1>1, SMT
  <1> QED BY <1>1, <1>2, <1>3 DEF PageStart, Ids

LEMMA AppendInSeq == ASSUME NEW S, NEW s \in Seq(S), NEW x \in S
                     PROVE  Append(s, x) \in Seq(S) /\ Append(s, x) # << >> /\ Len(Append(s, x)) = Len(s) + 1
  <1>1. Append(s, x) \in Seq(S)
    OBVIOUS
  <1>2. Len(Append(s, x)) = Len(s) + 1 /\ Len(s) \in Nat
    OBVIOUS
  <1>3. Append(s, x) # << >>
    BY <1>2
  <1> QED BY <1>1, <1>2, <1>3

LEMMA HeadTailInSeq == ASSUME NEW S, NEW s \in Seq(S), s # << >>
                       PROVE  Head(s) \in S /\ Tail(s) \in Seq(S)
  OBVIOUS

LEMMA TailElements ==
    ASSUME NEW S, NEW s \in Seq(S), s # << >>
    PROVE  \A k \in 1 .. Len(Tail(s)) : Tail(s)[k] = s[k + 1] /\ k + 1 \in 1 .. Len(s)
  OBVIOUS

LEMMA UpdateInSeq == ASSUME NEW S, NEW s \in Seq(S), NEW x \in S, NEW k \in 1 .. Len(s)
                     PROVE  [s EXCEPT ![k] = x] \in Seq(S) /\ Len([s EXCEPT ![k] = x]) = Len(s)
  BY ExceptSeq

-----------------------------------------------------------------------------
(* Type correctness                                                        *)

LEMMA IdsFacts == /\ None \notin Ids /\ 0 \in Ids /\ MaxId \in Nat /\ CacheSize \in Nat
                  /\ CacheSize > 0 /\ Ids \subseteq Nat /\ None = -1
  BY BoundsAssumption DEF Ids, None

(* A non-empty set of identifiers has a largest element: the least upper   *)
(* bound, which exists because < is well-founded, belongs to the set.      *)
LEMMA LargestExists ==
    ASSUME NEW L \in SUBSET Ids, L # {}
    PROVE  \E m \in L : \A i \in L : i <= m
  <1> DEFINE T == {n \in Nat : \A i \in L : i <= n}
             R == OpToRel(<, Nat)
  <1>1. MaxId \in T /\ T \subseteq Nat
    BY IdsFacts DEF Ids
  <1>2. PICK x \in T : \A y \in T : ~(<<y, x>> \in R)
    BY <1>1, NatLessThanWellFounded, WFMin
  <1>3. x \in Nat /\ \A i \in L : i \in Nat /\ i <= x
    BY IdsFacts
  <1>4. \A y \in T : ~(y < x)
    BY <1>1, <1>2, <1>3 DEF OpToRel
  <1>5. x \in L
    <2> SUFFICES ASSUME x \notin L PROVE FALSE
      OBVIOUS
    <2>1. \A i \in L : i < x
      BY <1>3
    <2>2. x - 1 \in T
      BY <1>3, <2>1
    <2> QED BY <1>3, <1>4, <2>2
  <1> QED BY <1>3, <1>5

LEMMA CurIdInIds == ASSUME TypeOK, CurId <= MaxId PROVE CurId \in Ids
  <1>1. ListedIds \subseteq Ids
    BY DEF TypeOK, StoreTypeOK, AddTypeOK, ListedIds
  <1>2. CASE curId # None
    BY <1>2, IdsFacts DEF CurId, TypeOK, AddTypeOK, Ids
  <1>3. CASE curId = None /\ ListedIds = {}
    BY <1>3, IdsFacts DEF CurId, CalculateCurId
  <1>4. CASE curId = None /\ ListedIds # {}
    <2>1. LargestListed \in ListedIds
      BY <1>1, <1>4, LargestExists DEF LargestListed
    <2> QED BY <1>1, <1>4, <2>1, IdsFacts DEF CurId, CalculateCurId, Ids
  <1> QED BY <1>2, <1>3, <1>4

LEMMA TypeInit == Init => TypeInv
  <1> SUFFICES ASSUME Init PROVE TypeInv
    OBVIOUS
  <1> USE IdsFacts, BoundsAssumption
  <1>1. StoreTypeOK
    BY DEF Init, StoreTypeOK, MaybeEv
  <1>2. AddTypeOK
    BY DEF Init, AddTypeOK, IdleWriter, WriterPc, MaybeEv
  <1>3. DeliveryTypeOK
    BY ThreadsAssumption DEF Init, DeliveryTypeOK, DispType, DispAt, InitialStatus, Status, OpenCloser, CloserType, MaybeEv
  <1>4. ReaderTypeOK
    BY DEF Init, ReaderTypeOK, SearchType, IdleReader
  <1>5. FaultTypeOK
    BY DEF Init, FaultTypeOK
  <1>6. PagesFull
    BY DEF Init, PagesFull
  <1>7. SearchInRange
    BY DEF Init, SearchInRange, InRange, IdleReader
  <1> QED BY <1>1, <1>2, <1>3, <1>4, <1>5, <1>6, <1>7 DEF TypeInv, TypeOK
LEMMA TypeAdd ==
    ASSUME TypeInv, NEW w \in Writers, AddStep(w) \/ WriteRaises(w)
    PROVE  TypeInv'
  <1> USE IdsFacts, BoundsAssumption
  <1> USE DEF TypeInv, TypeOK
  <1>1. ASSUME NEW e \in Events, AssignId(w, e) PROVE TypeInv'
    <2> DEFINE k == Len(mem)
               page == Append(mem[k], [id |-> CurId, ev |-> e])
               m == [mem EXCEPT ![k] = page]
    <2>1. CurId \in Ids
      BY <1>1, CurIdInIds DEF AssignId
    <2>2. [id |-> CurId, ev |-> e] \in Entry
      BY <2>1 DEF Entry
    <2>3. k \in 1 .. Len(mem) /\ mem[k] \in Seq(Entry)
      BY DEF AddTypeOK
    <2>4. page \in Seq(Entry)
      BY <2>2, <2>3
    <2>5. m \in Seq(Seq(Entry)) /\ Len(m) = Len(mem)
      BY <2>3, <2>4, UpdateInSeq DEF AddTypeOK
    <2>6. << >> \in Seq(Entry)
      OBVIOUS
    <2>7. mem' \in Seq(Seq(Entry)) /\ Len(mem') >= Len(mem)
      <3>1. mem' = m \/ mem' = Append(m, << >>)
        BY <1>1 DEF AssignId
      <3> HIDE DEF m
      <3>2. Append(m, << >>) \in Seq(Seq(Entry)) /\ Len(Append(m, << >>)) = Len(m) + 1
        BY <2>5, <2>6, AppendInSeq
      <3>3. Len(mem) \in Nat
        BY <2>3
      <3>4. CASE mem' = m
        BY <3>4, <3>3, <2>5
      <3>5. CASE mem' = Append(m, << >>)
        BY <3>5, <3>2, <3>3, <2>5
      <3> QED BY <3>1, <3>4, <3>5
    <2>8. writer' \in [Writers -> [pc : WriterPc, ev : MaybeEv, id : Ids, page : Nat]]
      BY <1>1, <2>1, <2>3 DEF AssignId, AddTypeOK, WriterPc, MaybeEv
    <2>9. \A v \in Writers : /\ writer'[v].page \in 1 .. Len(mem')
                             /\ writer'[v].pc # "idle" => writer'[v].ev \in Events
      BY <1>1, <2>3, <2>7, SMTT(60) DEF AssignId, AddTypeOK
    <2>10. AddTypeOK'
      <3>1. curId' \in Ids \cup {None, MaxId + 1} /\ added' \subseteq Events
        BY <1>1, <2>1 DEF AssignId, AddTypeOK, Ids
      <3>2. mem' # << >>
        BY <2>7, <2>3
      <3> QED BY <3>1, <3>2, <2>7, <2>8, <2>9 DEF AddTypeOK
    <2>11. UNCHANGED <<storeVars, queue, disp, subVars, histVars, closer, reader, faultVars>>
      BY <1>1 DEF AssignId
    <2> QED
      BY <2>10, <2>11 DEF StoreTypeOK, DeliveryTypeOK, ReaderTypeOK, FaultTypeOK, PagesFull,
         SearchInRange, storeVars, subVars, histVars, faultVars
  <1>2. CASE BeginWrite(w)
    <2>1. AddTypeOK'
      BY <1>2 DEF BeginWrite, AddTypeOK, WriterPc
    <2> QED
      BY <1>2, <2>1 DEF BeginWrite, StoreTypeOK, DeliveryTypeOK, ReaderTypeOK, FaultTypeOK,
         PagesFull, SearchInRange, storeVars, subVars, histVars, faultVars
  <1>3. CASE FinishWrite(w)
    <2>1. AddTypeOK'
      BY <1>3 DEF FinishWrite, AddTypeOK, WriterPc
    <2>2. StoreTypeOK'
      BY <1>3 DEF FinishWrite, AddTypeOK, StoreTypeOK
    <2> QED
      BY <1>3, <2>1, <2>2 DEF FinishWrite, DeliveryTypeOK, ReaderTypeOK, FaultTypeOK,
         PagesFull, SearchInRange, subVars, histVars, faultVars
  <1>4. CASE StoreCachePage(w)
    <2>1. AddTypeOK'
      BY <1>4 DEF StoreCachePage, AddTypeOK, WriterPc
    <2>2. StoreTypeOK' /\ PagesFull'
      <3> DEFINE page == mem[writer[w].page]
      <3>1. page \in Seq(Entry)
        BY DEF AddTypeOK
      <3>2. CASE Len(page) < CacheSize
        BY <1>4, <3>2 DEF StoreCachePage, StoreTypeOK, PagesFull
      <3>3. CASE ~(Len(page) < CacheSize)
        <4>1. page[1] \in Entry /\ Len(page) >= CacheSize
          BY <3>1, <3>3
        <4>2. page[1].id \in Ids
          BY <4>1 DEF Entry
        <4>3. pages' = [pages EXCEPT ![page[1].id] = page] /\ UNCHANGED <<files, orphans>>
          BY <1>4, <3>3 DEF StoreCachePage
        <4> HIDE DEF page
        <4> QED BY <3>1, <4>1, <4>2, <4>3 DEF StoreTypeOK, PagesFull
      <3> QED BY <3>2, <3>3
    <2> QED
      BY <1>4, <2>1, <2>2 DEF StoreCachePage, DeliveryTypeOK, ReaderTypeOK, FaultTypeOK,
         SearchInRange, subVars, histVars, faultVars
  <1>5. CASE PutOnQueue(w)
    <2>1. AddTypeOK'
      BY <1>5 DEF PutOnQueue, AddTypeOK, WriterPc, IdleWriter, MaybeEv
    <2>2. DeliveryTypeOK'
      <3>1. [id |-> writer[w].id, ev |-> writer[w].ev] \in Entry
        BY <1>5 DEF PutOnQueue, AddTypeOK, Entry
      <3>2. queue' \in Seq(Entry)
        BY <1>5, <3>1 DEF PutOnQueue, DeliveryTypeOK
      <3> QED BY <1>5, <3>2 DEF PutOnQueue, DeliveryTypeOK, subVars, histVars
    <2> QED
      BY <1>5, <2>1, <2>2 DEF PutOnQueue, StoreTypeOK, ReaderTypeOK, FaultTypeOK,
         PagesFull, SearchInRange, storeVars, faultVars
  <1>6. CASE WriteRaises(w)
    <2>1. AddTypeOK'
      BY <1>6 DEF WriteRaises, AddTypeOK, WriterPc, IdleWriter, MaybeEv
    <2>2. FaultTypeOK'
      BY <1>6 DEF WriteRaises, FaultTypeOK
    <2> QED
      BY <1>6, <2>1, <2>2 DEF WriteRaises, StoreTypeOK, DeliveryTypeOK, ReaderTypeOK,
         PagesFull, SearchInRange, storeVars, subVars, histVars
  <1> QED BY <1>1, <1>2, <1>3, <1>4, <1>5, <1>6 DEF AddStep

LEMMA TypeDelivery ==
    ASSUME TypeInv,
           \/ QueueThread
           \/ CloseStep
           \/ \E s \in Subs : \/ RunCallback(s) \/ SubscribePool(s) \/ CleanUpSubscriber(s)
                              \/ SubscribeCallback(s) \/ Unsubscribe(s)
    PROVE  TypeInv'
  <1> USE IdsFacts
  <1> USE DEF TypeInv, TypeOK
  <1>1. UNCHANGED <<addVars, storeVars, reader, faultVars>>
    BY DEF QueueThread, Dequeue, Dispatch, DispatchDone, DispatcherStops, CloseStep, Close,
       CloseJoined, CloseCleanUp, CloseClearQueue, RunCallback, SubscribePool,
       CleanUpSubscriber, SubscribeCallback, Unsubscribe
  <1>2. StoreTypeOK' /\ AddTypeOK' /\ ReaderTypeOK' /\ FaultTypeOK' /\ PagesFull' /\ SearchInRange'
    BY <1>1 DEF addVars, storeVars, faultVars, StoreTypeOK, AddTypeOK, ReaderTypeOK,
       FaultTypeOK, PagesFull, SearchInRange
  <1>3. CASE Dequeue
    <2>1. Head(queue) \in Entry /\ Tail(queue) \in Seq(Entry)
      BY <1>3, HeadTailInSeq DEF Dequeue, DeliveryTypeOK
    <2> QED BY <1>2, <1>3, <2>1, OrderAssumption
            DEF Dequeue, DeliveryTypeOK, DispType, Entry, MaybeEv, subVars, histVars
  <1>4. CASE Dispatch
    <2>1. Head(disp.todo) \in Subs /\ Tail(disp.todo) \in Seq(Subs)
      BY <1>4, HeadTailInSeq DEF Dispatch, DeliveryTypeOK, DispType
    <2>2. [id |-> disp.id, ev |-> disp.ev] \in Entry
      BY <1>4 DEF Dispatch, DeliveryTypeOK, DispType, Entry
    <2> DEFINE s == Head(disp.todo)
               x == [id |-> disp.id, ev |-> disp.ev]
    <2>3. \/ inbox' = inbox
          \/ inbox' = [inbox EXCEPT ![s] = Append(inbox[s], x)]
      BY <1>4 DEF Dispatch
    <2>4. \/ disp' = [disp EXCEPT !.todo = Tail(disp.todo)]
          \/ disp' = DispAt("dead")
      BY <1>4 DEF Dispatch
    <2>5. UNCHANGED <<queue, status, keys, histVars, closer>>
      BY <1>4 DEF Dispatch
    <2>6. inbox' \in [Subs -> Seq(Entry)]
      <3> HIDE DEF s, x
      <3>1. Append(inbox[s], x) \in Seq(Entry)
        BY <2>1, <2>2, AppendInSeq DEF DeliveryTypeOK, s, x
      <3> QED BY <2>1, <2>3, <3>1 DEF DeliveryTypeOK
    <2>7. /\ disp' \in DispType
          /\ disp'.pc = "dispatching" => disp'.ev \in Events
      <3>1. CASE disp' = [disp EXCEPT !.todo = Tail(disp.todo)]
        BY <3>1, <2>1 DEF DeliveryTypeOK, DispType
      <3>2. CASE disp' = DispAt("dead")
        BY <3>2 DEF DispAt, MaybeEv, DispType
      <3> QED BY <2>4, <3>1, <3>2
    <2> QED BY <1>2, <2>5, <2>6, <2>7 DEF DeliveryTypeOK, histVars
  <1>5. CASE DispatchDone \/ DispatcherStops
    <2>1. disp' \in DispType /\ disp'.pc # "dispatching"
      <3>1. disp' = DispAt("idle") \/ disp' = DispAt("exited")
        BY <1>5 DEF DispatchDone, DispatcherStops
      <3>2. CASE disp' = DispAt("idle")
        BY <3>2 DEF DispAt, MaybeEv, DispType
      <3>3. CASE disp' = DispAt("exited")
        BY <3>3 DEF DispAt, MaybeEv, DispType
      <3> QED BY <3>1, <3>2, <3>3
    <2>2. UNCHANGED <<queue, subVars, histVars, closer>>
      BY <1>5 DEF DispatchDone, DispatcherStops
    <2> QED BY <1>2, <2>1, <2>2 DEF DeliveryTypeOK, subVars, histVars
  <1>6. CASE Close \/ CloseJoined \/ CloseClearQueue
    <2>1. closer' \in CloserType
      <3>1. CASE Close
        BY <3>1 DEF Close, CloserType
      <3>2. CASE CloseJoined
        BY <3>2 DEF CloseJoined, DeliveryTypeOK, CloserType
      <3>3. CASE CloseClearQueue
        BY <3>3 DEF CloseClearQueue, DeliveryTypeOK, CloserType
      <3> QED BY <1>6, <3>1, <3>2, <3>3
    <2>2. UNCHANGED <<disp, subVars, histVars>>
      BY <1>6 DEF Close, CloseJoined, CloseClearQueue
    <2>3. queue' \in Seq(Entry)
      <3>1. queue \in Seq(Entry) /\ << >> \in Seq(Entry)
        BY DEF DeliveryTypeOK
      <3>2. queue' = queue \/ queue' = << >>
        BY <1>6 DEF Close, CloseJoined, CloseClearQueue
      <3> QED BY <3>1, <3>2, Zenon
    <2> QED BY <1>2, <2>1, <2>2, <2>3 DEF DeliveryTypeOK, subVars, histVars
  <1>7. ASSUME NEW s \in Subs, CloseCleanUp(s) PROVE TypeInv'
    BY <1>2, <1>7 DEF CloseCleanUp, DeliveryTypeOK, CloserType, histVars, Status
  <1>8. ASSUME NEW s \in Subs, RunCallback(s) PROVE TypeInv'
    <2>1. Head(inbox[s]) \in Entry /\ Tail(inbox[s]) \in Seq(Entry)
      BY <1>8, HeadTailInSeq DEF RunCallback, DeliveryTypeOK
    <2>2. delivered' \in [Subs -> Seq(Entry)] /\ inbox' \in [Subs -> Seq(Entry)]
      BY <1>8, <2>1 DEF RunCallback, DeliveryTypeOK
    <2> QED BY <1>2, <1>8, <2>1, <2>2 DEF RunCallback, DeliveryTypeOK
  <1>9. ASSUME NEW s \in Subs, SubscribePool(s) \/ CleanUpSubscriber(s) \/ SubscribeCallback(s)
                               \/ Unsubscribe(s)
        PROVE  TypeInv'
    BY <1>2, <1>9 DEF SubscribePool, CleanUpSubscriber, SubscribeCallback, Unsubscribe,
       DeliveryTypeOK, histVars, Status
  <1> QED BY <1>3, <1>4, <1>5, <1>6, <1>7, <1>8, <1>9 DEF QueueThread, CloseStep

LEMMA TypeSearch ==
    ASSUME TypeInv, NEW r \in Readers,
           \/ BeginCalculate(r) \/ EndCalculate(r) \/ SearchStep(r) \/ EndSearch(r)
           \/ \E reverse \in BOOLEAN : BeginSearch(r, reverse)
    PROVE  TypeInv'
  <1> USE IdsFacts
  <1> USE DEF TypeInv, TypeOK
  <1>1. UNCHANGED <<storeVars, queue, disp, subVars, histVars, closer, faultVars>>
    BY DEF BeginCalculate, EndCalculate, SearchStep, EndSearch, BeginSearch
  <1>2. StoreTypeOK' /\ DeliveryTypeOK' /\ FaultTypeOK' /\ PagesFull'
    BY <1>1 DEF storeVars, subVars, histVars, faultVars, StoreTypeOK, DeliveryTypeOK,
       FaultTypeOK, PagesFull
  <1>3. ASSUME NEW rd \in SearchType, InRange(rd), reader' = [reader EXCEPT ![r] = rd]
        PROVE  ReaderTypeOK' /\ SearchInRange'
    BY <1>3 DEF ReaderTypeOK, SearchInRange
  <1>4. CASE BeginCalculate(r)
    <2>1. CalculateCurId \in Ids
      BY <1>4, CurIdInIds DEF BeginCalculate, CurId
    <2> DEFINE rd == [reader[r] EXCEPT !.pc = "calc", !.calc = CalculateCurId]
    <2>2. reader' = [reader EXCEPT ![r] = rd] /\ UNCHANGED addVars
      BY <1>4 DEF BeginCalculate, ReaderTypeOK
    <2>3. rd \in SearchType /\ InRange(rd)
      BY <2>1, ZenonT(60) DEF ReaderTypeOK, SearchInRange, SearchType, InRange
    <2> HIDE DEF rd
    <2> QED BY <1>2, <1>3, <2>2, <2>3 DEF AddTypeOK, addVars
  <1>5. CASE EndCalculate(r)
    <2>1. curId' \in Ids \cup {None}
      BY <1>5 DEF EndCalculate, ReaderTypeOK, SearchType
    <2>2. AddTypeOK'
      BY <1>5, <2>1 DEF EndCalculate, AddTypeOK
    <2>3. IdleReader \in SearchType /\ InRange(IdleReader)
      BY DEF IdleReader, SearchType, InRange
    <2>4. reader' = [reader EXCEPT ![r] = IdleReader]
      BY <1>5 DEF EndCalculate
    <2> QED BY <1>2, <1>3, <2>2, <2>3, <2>4
  <1>8. ASSUME NEW reverse \in BOOLEAN, BeginSearch(r, reverse) PROVE TypeInv'
    <2> DEFINE rd == [pc |-> "scan", calc |-> None, idx |-> IF reverse THEN curId - 1 ELSE 0,
                      end |-> RangeEnd(reverse), step |-> IF reverse THEN -1 ELSE 1,
                      start |-> None, page |-> << >>, got |-> << >>, due |-> seen]
    <2>1. curId # None /\ reader' = [reader EXCEPT ![r] = rd] /\ UNCHANGED addVars
      BY <1>8 DEF BeginSearch
    <2>2. curId \in 0 .. MaxId + 1
      BY <2>1 DEF AddTypeOK, Ids
    <2>3. seen \in SUBSET Entry
      BY DEF DeliveryTypeOK
    <2>4. rd \in SearchType /\ InRange(rd)
      <3>1. CASE reverse
        BY <3>1, <2>2, <2>3 DEF RangeEnd, SearchType, InRange
      <3>2. CASE ~reverse
        BY <3>2, <2>2, <2>3 DEF RangeEnd, SearchType, InRange
      <3> QED BY <3>1, <3>2
    <2> HIDE DEF rd
    <2> QED BY <1>2, <1>3, <2>1, <2>4 DEF AddTypeOK, addVars
  <1>6. CASE SearchStep(r)
    <2> DEFINE rd    == reader[r]
               i     == rd.idx
               cover == rd.start # None /\ rd.start <= i /\ i < rd.start + CacheSize
               start == IF cover THEN rd.start ELSE PageStart(i)
               page  == IF cover THEN rd.page ELSE pages[start]
               found == IF page # << >> THEN <<page[i - start + 1]>>
                        ELSE IF Durable(i) THEN <<[id |-> i, ev |-> files[i]]>>
                        ELSE << >>
    <2>1. i \in Ids /\ rd.idx # rd.end /\ rd.step \in {-1, 1} /\ rd.end \in -1 .. MaxId + 1
      <3>1. rd.idx # rd.end
        BY <1>6 DEF SearchStep
      <3>2. rd \in SearchType /\ InRange(rd)
        BY DEF ReaderTypeOK, SearchInRange
      <3>3. rd.idx \in -1 .. MaxId + 1 /\ rd.end \in -1 .. MaxId + 1 /\ rd.step \in {-1, 1}
        BY <3>2 DEF SearchType
      <3> QED
        BY <3>1, <3>2, <3>3 DEF InRange, Ids
    <2>2. start \in Ids /\ i - start + 1 \in 1 .. CacheSize
      <3>1. CASE cover
        <4>1. rd.start \in Ids \cup {None}
          BY DEF ReaderTypeOK, SearchType
        <4>2. start = rd.start /\ start \in Ids /\ start <= i /\ i < start + CacheSize
          BY <3>1, <4>1
        <4> QED BY <4>2, <2>1 DEF Ids
      <3>2. CASE ~cover
        BY <3>2, <2>1, PageStartInIds
      <3> QED BY <3>1, <3>2
    <2>3. page \in Seq(Entry) /\ (page = << >> \/ Len(page) >= CacheSize)
      BY <2>2 DEF ReaderTypeOK, SearchType, SearchInRange, InRange, StoreTypeOK, PagesFull
    <2>4. found \in Seq(Entry)
      <3> HIDE DEF page, start
      <3>1. CASE page # << >>
        <4>1. page[i - start + 1] \in Entry
          BY <2>2, <2>3, <3>1
        <4> QED BY <3>1, <4>1
      <3>2. CASE page = << >> /\ Durable(i)
        <4>1. [id |-> i, ev |-> files[i]] \in Entry
          BY <2>1, <3>2 DEF Durable, StoreTypeOK, MaybeEv, Entry
        <4> QED BY <3>2, <4>1
      <3> QED BY <3>1, <3>2
    <2>5. rd.got \o found \in Seq(Entry)
      <3> HIDE DEF found
      <3> QED BY <2>4 DEF ReaderTypeOK, SearchType
    <2> DEFINE new == [rd EXCEPT !.idx = i + rd.step, !.start = start, !.page = page,
                                !.got = rd.got \o found]
    <2>6. reader' = [reader EXCEPT ![r] = new] /\ UNCHANGED addVars
      BY <1>6 DEF SearchStep, ReaderTypeOK
    <2>7. /\ rd.step = 1  => 0 <= i /\ i < rd.end /\ rd.end <= MaxId + 1
          /\ rd.step = -1 => rd.end = -1 /\ -1 < i /\ i <= MaxId
      BY <2>1 DEF SearchInRange, InRange, Ids
    <2>8. new \in SearchType /\ InRange(new)
      <3> HIDE DEF found, page, start
      <3>1. rd \in SearchType
        BY DEF ReaderTypeOK
      <3>2. i + rd.step \in -1 .. MaxId + 1
        BY <2>1, <2>7 DEF Ids
      <3>3. new \in SearchType
        BY <3>1, <3>2, <2>2, <2>3, <2>5 DEF SearchType
      <3>4. InRange(new)
        BY <3>1, <2>1, <2>3, <2>7, SMTT(60) DEF SearchType, InRange, Ids
      <3> QED BY <3>3, <3>4
    <2> HIDE DEF new
    <2> QED BY <1>2, <1>3, <2>6, <2>8 DEF AddTypeOK, addVars
  <1>7. CASE EndSearch(r)
    <2> DEFINE rd == [reader[r] EXCEPT !.pc = "done"]
    <2>1. reader' = [reader EXCEPT ![r] = rd] /\ UNCHANGED addVars
      BY <1>7 DEF EndSearch
    <2>2. rd \in SearchType /\ InRange(rd)
      BY ZenonT(60) DEF ReaderTypeOK, SearchInRange, SearchType, InRange
    <2> HIDE DEF rd
    <2> QED BY <1>2, <1>3, <2>1, <2>2 DEF AddTypeOK, addVars
  <1> QED BY <1>4, <1>5, <1>6, <1>7, <1>8

LEMMA TypeCrash == TypeInv /\ Crash => TypeInv'
  <1> SUFFICES ASSUME TypeInv, Crash PROVE TypeInv'
    OBVIOUS
  <1> USE IdsFacts, BoundsAssumption
  <1> USE DEF TypeInv, TypeOK, Crash
  <1>1. StoreTypeOK' /\ PagesFull'
    BY ZenonT(60) DEF StoreTypeOK, AddTypeOK, PagesFull
  <1>2. AddTypeOK'
    BY DEF AddTypeOK, IdleWriter, WriterPc, MaybeEv
  <1>3. DeliveryTypeOK'
    BY ThreadsAssumption
    DEF DeliveryTypeOK, DispAt, DispType, InitialStatus, Status, OpenCloser, CloserType, MaybeEv
  <1>4. ReaderTypeOK' /\ SearchInRange'
    BY DEF ReaderTypeOK, SearchType, SearchInRange, InRange, IdleReader
  <1>5. FaultTypeOK'
    BY DEF FaultTypeOK
  <1> QED BY <1>1, <1>2, <1>3, <1>4, <1>5

LEMMA TypeStep == TypeInv /\ [Next]_vars => TypeInv'
  <1> SUFFICES ASSUME TypeInv, [Next]_vars PROVE TypeInv'
    OBVIOUS
  <1>1. CASE UNCHANGED vars
    BY <1>1 DEF vars, storeVars, addVars, subVars, histVars, faultVars, TypeInv, TypeOK,
       StoreTypeOK, AddTypeOK, DeliveryTypeOK, ReaderTypeOK, FaultTypeOK, PagesFull, SearchInRange
  <1>2. CASE Next
    BY <1>2, TypeAdd, TypeDelivery, TypeSearch, TypeCrash, ThreadsAssumption DEF Next
  <1> QED BY <1>1, <1>2

(* Every state the specification reaches is well typed, whatever the       *)
(* threads, subscribers, cache size and bounds are.                        *)
THEOREM TypeCorrect == Spec => []TypeOK
  <1>1. TypeInv => TypeOK
    BY DEF TypeInv
  <1> QED BY TypeInit, TypeStep, <1>1, PTL DEF Spec
-----------------------------------------------------------------------------
(* Durability, when nobody computes cur_id outside the lock                *)

KeepsFiles == \A i \in Ids : Durable(i) => files'[i] = files[i]

(* The next identifier is above every identifier in use. *)
LEMMA CurIdFresh ==
    ASSUME TypeInv, IdsBelow, NoneInFlight
    PROVE  /\ \A i \in Ids : Durable(i) => i < CurId
           /\ \A i \in orphans : i < CurId
           /\ \A w \in Writers : InFlight(w) => writer[w].id < CurId
  <1>1. ListedIds \in SUBSET Ids
    BY DEF TypeInv, TypeOK, StoreTypeOK, AddTypeOK, ListedIds
  <1>2. CASE curId # None
    BY <1>2 DEF CurId, IdsBelow
  <1>3. CASE curId = None
    <2>1. \A w \in Writers : ~InFlight(w)
      BY <1>3 DEF NoneInFlight
    <2>2. \A i \in ListedIds : i < CalculateCurId
      <3>1. CASE ListedIds = {}
        BY <3>1
      <3>2. CASE ListedIds # {}
        <4>1. LargestListed \in ListedIds /\ \A i \in ListedIds : i <= LargestListed
          BY <1>1, <3>2, LargestExists DEF LargestListed
        <4> QED BY <1>1, <3>2, <4>1, IdsFacts DEF CalculateCurId
      <3> QED BY <3>1, <3>2
    <2>3. \A i \in Ids : Durable(i) => i \in ListedIds
      BY DEF ListedIds
    <2>4. \A i \in orphans : i \in ListedIds
      BY DEF ListedIds
    <2> QED BY <1>3, <2>1, <2>2, <2>3, <2>4 DEF CurId
  <1> QED BY <1>2, <1>3

(* What is on disk stays on disk as long as no file is overwritten. *)
LEMMA OnDiskKept ==
    ASSUME TypeInv, KeepsFiles, NEW x \in Entry, OnDisk(x)
    PROVE  files'[x.id] = x.ev
  BY EventsAssumption DEF KeepsFiles, Durable, OnDisk, Entry

LEMMA DurabilityInit == Init => DurabilityInv
  <1> SUFFICES ASSUME Init PROVE DurabilityInv
    OBVIOUS
  <1>1. IdsBelow /\ NoneInFlight /\ InFlightDistinct
    BY DEF Init, IdsBelow, NoneInFlight, InFlightDistinct, InFlight, IdleWriter
  <1>2. WriterState
    BY DEF Init, WriterState, IdleWriter
  <1>3. NobodyCalculates
    BY DEF Init, NobodyCalculates, IdleReader
  <1>4. QueuedOnDisk /\ DeliveredIsDurable
    BY DEF Init, QueuedOnDisk, DeliveredIsDurable, DispAt
  <1> QED BY <1>1, <1>2, <1>3, <1>4 DEF DurabilityInv

(* Queued and delivered events when queue, pools and deliveries are left   *)
(* alone and no file is overwritten.                                       *)
LEMMA DeliveriesKept ==
    ASSUME TypeInv, QueuedOnDisk, DeliveredIsDurable, KeepsFiles,
           UNCHANGED <<queue, disp, inbox, seen>>
    PROVE  QueuedOnDisk' /\ DeliveredIsDurable'
  <1>1. \A k \in 1 .. Len(queue) : files'[queue[k].id] = queue[k].ev
    BY OnDiskKept DEF QueuedOnDisk, TypeInv, TypeOK, DeliveryTypeOK
  <1>2. disp.pc = "dispatching" => files'[disp.id] = disp.ev
    <2> SUFFICES ASSUME disp.pc = "dispatching" PROVE files'[disp.id] = disp.ev
      OBVIOUS
    <2>1. disp.ev \in Events /\ disp.id \in Ids
      BY DEF TypeInv, TypeOK, DeliveryTypeOK, DispType
    <2> QED BY <2>1, EventsAssumption DEF QueuedOnDisk, KeepsFiles, Durable
  <1>3. \A s \in Subs : \A k \in 1 .. Len(inbox[s]) : files'[inbox[s][k].id] = inbox[s][k].ev
    <2> SUFFICES ASSUME NEW s \in Subs, NEW k \in 1 .. Len(inbox[s])
                 PROVE  files'[inbox[s][k].id] = inbox[s][k].ev
      OBVIOUS
    <2>1. inbox[s][k] \in Entry /\ OnDisk(inbox[s][k])
      BY DEF QueuedOnDisk, TypeInv, TypeOK, DeliveryTypeOK
    <2> QED BY <2>1, OnDiskKept
  <1>4. \A x \in seen : files'[x.id] = x.ev
    <2> SUFFICES ASSUME NEW x \in seen PROVE files'[x.id] = x.ev
      OBVIOUS
    <2>1. x \in Entry /\ OnDisk(x)
      BY DEF DeliveredIsDurable, OnDisk, TypeInv, TypeOK, DeliveryTypeOK
    <2> QED BY <2>1, OnDiskKept
  <1> QED BY <1>1, <1>2, <1>3, <1>4 DEF QueuedOnDisk, DeliveredIsDurable, OnDisk

LEMMA DurabilityAdd ==
    ASSUME TypeInv, DurabilityInv, NEW w \in Writers, AddStep(w) \/ WriteRaises(w)
    PROVE  DurabilityInv' /\ KeepsFiles
  <1> USE DEF DurabilityInv
  <1>0. /\ writer \in [Writers -> [pc : WriterPc, ev : MaybeEv, id : Ids, page : Nat]]
        /\ files \in [Ids -> MaybeEv]
        /\ orphans \subseteq Ids
        /\ curId \in Ids \cup {None, MaxId + 1}
        /\ writer[w].pc # "idle" => writer[w].ev \in Events
    BY DEF TypeInv, TypeOK, AddTypeOK, StoreTypeOK
  <1>1. ASSUME NEW e \in Events, AssignId(w, e) PROVE DurabilityInv' /\ KeepsFiles
    <2> DEFINE id == CurId
    <2>1. id \in Ids
      BY <1>1, CurIdInIds DEF AssignId, TypeInv
    <2>2. /\ \A i \in Ids : Durable(i) => i < id
          /\ \A i \in orphans : i < id
          /\ \A v \in Writers : InFlight(v) => writer[v].id < id
      BY CurIdFresh
    <2>3. \E k \in {Len(mem)} :
             writer' = [writer EXCEPT ![w] = [pc |-> "assigned", ev |-> e, id |-> id, page |-> k]]
      BY <1>1 DEF AssignId
    <2>4. /\ curId' = id + 1 /\ writer[w].pc = "idle"
          /\ UNCHANGED <<files, orphans, queue, disp, inbox, seen, reader>>
      BY <1>1 DEF AssignId, storeVars, subVars, histVars
    <2> HIDE DEF id
    <2>5. /\ \A v \in Writers : v # w => writer'[v] = writer[v]
          /\ writer'[w].pc = "assigned" /\ writer'[w].id = id /\ writer'[w].ev = e
      BY <1>0, <2>3
    <2>6. KeepsFiles
      BY <2>4 DEF KeepsFiles
    <2>7. IdsBelow'
      <3>1. id \in Nat /\ curId' = id + 1 /\ Ids \subseteq Nat
        BY <2>1, <2>4, IdsFacts
      <3>2. \A i \in Ids : Durable(i)' => i < curId'
        BY <2>2, <2>4, <3>1 DEF Durable
      <3>3. \A i \in orphans' : i < curId'
        BY <1>0, <2>2, <2>4, <3>1
      <3>4. \A v \in Writers : InFlight(v)' => writer'[v].id < curId'
        <4> SUFFICES ASSUME NEW v \in Writers, InFlight(v)' PROVE writer'[v].id < curId'
          OBVIOUS
        <4>1. CASE v = w
          BY <4>1, <2>5, <3>1
        <4>2. CASE v # w
          <5>1. writer'[v] = writer[v] /\ InFlight(v) /\ writer[v].id \in Ids
            BY <1>0, <2>5, <4>2 DEF InFlight
          <5>2. writer[v].id < id
            BY <2>2, <5>1
          <5>3. writer'[v].id = writer[v].id /\ writer[v].id \in Nat
            BY <3>1, <5>1
          <5> QED BY <3>1, <5>2, <5>3
        <4> QED BY <4>1, <4>2
      <3> QED BY <3>2, <3>3, <3>4 DEF IdsBelow
    <2>8. NoneInFlight'
      BY <2>1, <2>4, IdsFacts DEF NoneInFlight
    <2>9. InFlightDistinct'
      <3>1. \A v \in Writers : v # w /\ InFlight(v) => writer[v].id # id
        BY <1>0, <2>1, <2>2, IdsFacts
      <3> QED BY <2>5, <3>1 DEF InFlightDistinct, InFlight
    <2>10. WriterState'
      <3>1. ~Durable(id)
        BY <2>1, <2>2, IdsFacts
      <3> QED BY <2>4, <2>5, <3>1 DEF WriterState, Durable
    <2>11. NobodyCalculates'
      BY <2>4 DEF NobodyCalculates
    <2> QED BY <2>4, <2>6, <2>7, <2>8, <2>9, <2>10, <2>11, DeliveriesKept
  <1>2. CASE BeginWrite(w)
    <2>1. /\ writer[w].pc = "assigned"
          /\ writer' = [writer EXCEPT ![w].pc = "writing"]
          /\ UNCHANGED <<curId, files, orphans, queue, disp, inbox, seen, reader>>
      BY <1>2 DEF BeginWrite, storeVars, subVars, histVars
    <2>2. KeepsFiles
      BY <2>1 DEF KeepsFiles
    <2>3. IdsBelow' /\ NoneInFlight' /\ InFlightDistinct' /\ WriterState' /\ NobodyCalculates'
      BY <1>0, <2>1 DEF IdsBelow, NoneInFlight, InFlightDistinct, WriterState, NobodyCalculates,
         InFlight, Durable
    <2> QED BY <2>1, <2>2, <2>3, DeliveriesKept
  <1>3. CASE FinishWrite(w)
    <2>1. /\ writer[w].pc = "writing"
          /\ files' = [files EXCEPT ![writer[w].id] = writer[w].ev]
          /\ writer' = [writer EXCEPT ![w].pc = "written"]
          /\ UNCHANGED <<curId, orphans, queue, disp, inbox, seen, reader>>
      BY <1>3 DEF FinishWrite, subVars, histVars
    <2>2. writer[w].id \in Ids /\ ~Durable(writer[w].id) /\ InFlight(w) /\ curId # None
      BY <1>0, <2>1 DEF WriterState, InFlight, NoneInFlight
    <2>3. KeepsFiles
      BY <1>0, <2>1, <2>2 DEF KeepsFiles
    <2>4. IdsBelow' /\ NoneInFlight' /\ InFlightDistinct' /\ NobodyCalculates'
      BY <1>0, <2>1, <2>2 DEF IdsBelow, NoneInFlight, InFlightDistinct, NobodyCalculates,
         InFlight, Durable
    <2>5. WriterState'
      <3> SUFFICES ASSUME NEW v \in Writers
                   PROVE  /\ writer'[v].pc \in {"assigned", "writing"} =>
                                 files'[writer'[v].id] = NoEvent
                          /\ writer'[v].pc \in {"written", "stored"} =>
                                 files'[writer'[v].id] = writer'[v].ev
        BY DEF WriterState, Durable
      <3>1. CASE v = w
        BY <1>0, <2>1, <2>2, <3>1
      <3>2. CASE v # w
        <4>1. writer'[v] = writer[v] /\ (InFlight(v) => writer[v].id # writer[w].id)
          BY <1>0, <2>1, <2>2, <3>2 DEF InFlightDistinct
        <4> QED BY <1>0, <2>1, <2>2, <4>1 DEF WriterState, InFlight, Durable
      <3> QED BY <3>1, <3>2
    <2> QED BY <2>1, <2>3, <2>4, <2>5, DeliveriesKept
  <1>4. CASE StoreCachePage(w)
    <2>1. /\ writer[w].pc = "written"
          /\ writer' = [writer EXCEPT ![w].pc = "stored"]
          /\ UNCHANGED <<curId, files, orphans, queue, disp, inbox, seen, reader>>
      BY <1>4 DEF StoreCachePage, subVars, histVars
    <2>2. KeepsFiles
      BY <2>1 DEF KeepsFiles
    <2>3. IdsBelow' /\ NoneInFlight' /\ InFlightDistinct' /\ WriterState' /\ NobodyCalculates'
      BY <1>0, <2>1 DEF IdsBelow, NoneInFlight, InFlightDistinct, WriterState, NobodyCalculates,
         InFlight, Durable
    <2> QED BY <2>1, <2>2, <2>3, DeliveriesKept
  <1>5. CASE PutOnQueue(w)
    <2> DEFINE x == [id |-> writer[w].id, ev |-> writer[w].ev]
    <2>1. /\ writer[w].pc = "stored"
          /\ queue' = Append(queue, x)
          /\ writer' = [writer EXCEPT ![w] = IdleWriter]
          /\ UNCHANGED <<curId, files, orphans, disp, inbox, seen, reader>>
      BY <1>5 DEF PutOnQueue, storeVars, subVars, histVars
    <2>2. KeepsFiles
      BY <2>1 DEF KeepsFiles
    <2>3. IdsBelow' /\ NoneInFlight' /\ InFlightDistinct' /\ WriterState' /\ NobodyCalculates'
      BY <1>0, <2>1 DEF IdsBelow, NoneInFlight, InFlightDistinct, WriterState, NobodyCalculates,
         InFlight, Durable, IdleWriter
    <2>4. files[x.id] = x.ev /\ x \in Entry
      BY <1>0, <2>1 DEF WriterState, Entry
    <2>5. \A k \in 1 .. Len(queue') : OnDisk(queue'[k])
      <3> HIDE DEF x
      <3>1. queue \in Seq(Entry)
        BY DEF TypeInv, TypeOK, DeliveryTypeOK
      <3> QED BY <2>1, <2>4, <3>1 DEF QueuedOnDisk, OnDisk
    <2>6. QueuedOnDisk' /\ DeliveredIsDurable'
      BY <2>1, <2>5 DEF QueuedOnDisk, DeliveredIsDurable, OnDisk
    <2> QED BY <2>2, <2>3, <2>6
  <1>6. CASE WriteRaises(w)
    <2>1. /\ writer' = [writer EXCEPT ![w] = IdleWriter]
          /\ UNCHANGED <<curId, files, orphans, queue, disp, inbox, seen, reader>>
      BY <1>6 DEF WriteRaises, storeVars, subVars, histVars
    <2>2. KeepsFiles
      BY <2>1 DEF KeepsFiles
    <2>3. IdsBelow' /\ NoneInFlight' /\ InFlightDistinct' /\ WriterState' /\ NobodyCalculates'
      BY <1>0, <2>1 DEF IdsBelow, NoneInFlight, InFlightDistinct, WriterState, NobodyCalculates,
         InFlight, Durable, IdleWriter
    <2> QED BY <2>1, <2>2, <2>3, DeliveriesKept
  <1> QED BY <1>1, <1>2, <1>3, <1>4, <1>5, <1>6 DEF AddStep
(* A step that leaves the writers, the identifiers and the event files     *)
(* alone.                                                                  *)
LEMMA WritersKept ==
    ASSUME IdsBelow, NoneInFlight, InFlightDistinct, WriterState,
           UNCHANGED <<curId, files, orphans, writer>>
    PROVE  IdsBelow' /\ NoneInFlight' /\ InFlightDistinct' /\ WriterState' /\ KeepsFiles
  BY DEF IdsBelow, NoneInFlight, InFlightDistinct, WriterState, KeepsFiles, InFlight, Durable

LEMMA DurabilityDelivery ==
    ASSUME TypeInv, DurabilityInv,
           \/ QueueThread
           \/ CloseStep
           \/ \E s \in Subs : \/ RunCallback(s) \/ SubscribePool(s) \/ CleanUpSubscriber(s)
                              \/ SubscribeCallback(s) \/ Unsubscribe(s)
    PROVE  DurabilityInv' /\ KeepsFiles
  <1> USE DEF DurabilityInv
  <1>1. UNCHANGED <<curId, files, orphans, writer, reader>>
    BY DEF QueueThread, Dequeue, Dispatch, DispatchDone, DispatcherStops, CloseStep, Close,
       CloseJoined, CloseCleanUp, CloseClearQueue, RunCallback, SubscribePool,
       CleanUpSubscriber, SubscribeCallback, Unsubscribe, addVars, storeVars
  <1>2. /\ IdsBelow' /\ NoneInFlight' /\ InFlightDistinct' /\ WriterState' /\ KeepsFiles
        /\ NobodyCalculates'
    BY <1>1, WritersKept DEF NobodyCalculates
  <1>3. /\ queue \in Seq(Entry)
        /\ disp \in DispType /\ (disp.pc = "dispatching" => disp.ev \in Events)
        /\ inbox \in [Subs -> Seq(Entry)]
    BY DEF TypeInv, TypeOK, DeliveryTypeOK
  <1>4. CASE Dequeue
    <2>1. /\ disp' = [pc |-> "dispatching", ev |-> Head(queue).ev, id |-> Head(queue).id,
                      todo |-> SubOrder, known |-> keys]
          /\ queue # << >> /\ queue' = Tail(queue) /\ UNCHANGED <<inbox, seen>>
      BY <1>4 DEF Dequeue, subVars, histVars
    <2>2. Head(queue) = queue[1] /\ 1 \in 1 .. Len(queue)
      BY <1>3, <2>1
    <2>3. \A k \in 1 .. Len(queue') : queue'[k] = queue[k + 1] /\ k + 1 \in 1 .. Len(queue)
      BY <1>3, <2>1
    <2>4. files[disp'.id] = disp'.ev
      BY <2>1, <2>2 DEF QueuedOnDisk, OnDisk
    <2>5. \A k \in 1 .. Len(queue') : OnDisk(queue'[k])
      BY <2>3 DEF QueuedOnDisk
    <2> QED BY <1>1, <1>2, <2>1, <2>4, <2>5 DEF QueuedOnDisk, DeliveredIsDurable, OnDisk
  <1>5. CASE Dispatch
    <2> DEFINE s == Head(disp.todo)
               x == [id |-> disp.id, ev |-> disp.ev]
    <2>1. /\ inbox' = inbox \/ inbox' = [inbox EXCEPT ![s] = Append(inbox[s], x)]
          /\ \/ disp' = [disp EXCEPT !.todo = Tail(disp.todo)]
             \/ disp' = DispAt("dead")
          /\ disp.pc = "dispatching" /\ disp.todo # << >> /\ UNCHANGED <<queue, seen>>
      BY <1>5 DEF Dispatch, histVars
    <2>2. s \in Subs
      BY <1>3, <2>1, HeadTailInSeq DEF DispType
    <2>3. x \in Entry /\ OnDisk(x)
      BY <1>3, <2>1 DEF QueuedOnDisk, OnDisk, DispType, Entry
    <2>4. disp'.pc = "dispatching" => files[disp'.id] = disp'.ev
      <3>1. CASE disp' = [disp EXCEPT !.todo = Tail(disp.todo)]
        <4>1. disp'.id = disp.id /\ disp'.ev = disp.ev
          BY <1>3, <3>1 DEF DispType
        <4> QED BY <2>1, <4>1 DEF QueuedOnDisk
      <3>2. CASE disp' = DispAt("dead")
        BY <3>2 DEF DispAt
      <3> QED BY <2>1, <3>1, <3>2
    <2>5. \A t \in Subs : \A k \in 1 .. Len(inbox'[t]) : OnDisk(inbox'[t][k])
      <3> HIDE DEF x, s
      <3>1. CASE inbox' = inbox
        BY <3>1 DEF QueuedOnDisk
      <3>2. CASE inbox' = [inbox EXCEPT ![s] = Append(inbox[s], x)]
        <4> SUFFICES ASSUME NEW t \in Subs, NEW k \in 1 .. Len(inbox'[t])
                     PROVE  OnDisk(inbox'[t][k])
          OBVIOUS
        <4>1. CASE t # s
          BY <1>3, <3>2, <4>1 DEF QueuedOnDisk
        <4>2. CASE t = s
          <5>1. inbox'[t] = Append(inbox[s], x) /\ inbox[s] \in Seq(Entry)
            BY <1>3, <2>2, <3>2, <4>2
          <5>2. \/ k \in 1 .. Len(inbox[s]) /\ inbox'[t][k] = inbox[s][k]
                \/ inbox'[t][k] = x
            BY <5>1, <2>3
          <5> QED BY <2>2, <2>3, <5>2 DEF QueuedOnDisk
        <4> QED BY <4>1, <4>2
      <3> QED BY <2>1, <3>1, <3>2
    <2> QED BY <1>1, <1>2, <2>1, <2>4, <2>5 DEF QueuedOnDisk, DeliveredIsDurable, OnDisk
  <1>6. CASE DispatchDone \/ DispatcherStops
    <2>1. disp'.pc # "dispatching" /\ UNCHANGED <<queue, inbox, seen>>
      BY <1>6 DEF DispatchDone, DispatcherStops, DispAt, subVars, histVars
    <2> QED BY <1>1, <1>2, <2>1 DEF QueuedOnDisk, DeliveredIsDurable, OnDisk
  <1>7. CASE CloseClearQueue
    <2>1. queue' = << >> /\ UNCHANGED <<disp, inbox, seen>>
      BY <1>7 DEF CloseClearQueue, subVars, histVars
    <2> QED BY <1>1, <1>2, <2>1 DEF QueuedOnDisk, DeliveredIsDurable, OnDisk
  <1>8. ASSUME NEW s \in Subs, RunCallback(s) PROVE DurabilityInv' /\ KeepsFiles
    <2>1. /\ inbox[s] # << >>
          /\ seen' = seen \cup {Head(inbox[s])}
          /\ inbox' = [inbox EXCEPT ![s] = Tail(inbox[s])]
          /\ UNCHANGED <<queue, disp>>
      BY <1>8 DEF RunCallback
    <2>2. inbox[s] \in Seq(Entry) /\ Head(inbox[s]) = inbox[s][1] /\ 1 \in 1 .. Len(inbox[s])
      BY <1>3, <2>1
    <2>3. OnDisk(Head(inbox[s]))
      BY <2>2 DEF QueuedOnDisk
    <2>4. \A t \in Subs : \A k \in 1 .. Len(inbox'[t]) : OnDisk(inbox'[t][k])
      <3> SUFFICES ASSUME NEW t \in Subs, NEW k \in 1 .. Len(inbox'[t])
                   PROVE  OnDisk(inbox'[t][k])
        OBVIOUS
      <3>1. CASE t # s
        BY <1>3, <2>1, <3>1 DEF QueuedOnDisk
      <3>2. CASE t = s
        <4>1. inbox'[t] = Tail(inbox[s])
          BY <1>3, <2>1, <3>2
        <4>2. inbox'[t][k] = inbox[s][k + 1] /\ k + 1 \in 1 .. Len(inbox[s])
          BY <2>1, <2>2, <4>1, TailElements
        <4> QED BY <4>2 DEF QueuedOnDisk
      <3> QED BY <3>1, <3>2
    <2> QED BY <1>1, <1>2, <2>1, <2>3, <2>4 DEF QueuedOnDisk, DeliveredIsDurable, OnDisk
  <1>9. CASE \/ Close \/ CloseJoined
             \/ \E s \in Subs : \/ CloseCleanUp(s) \/ SubscribePool(s) \/ CleanUpSubscriber(s)
                                \/ SubscribeCallback(s) \/ Unsubscribe(s)
    <2>1. UNCHANGED <<queue, disp, inbox, seen>>
      BY <1>9 DEF Close, CloseJoined, CloseCleanUp, SubscribePool, CleanUpSubscriber,
         SubscribeCallback, Unsubscribe, subVars, histVars
    <2> QED BY <1>2, <2>1, DeliveriesKept
  <1> QED BY <1>4, <1>5, <1>6, <1>7, <1>8, <1>9 DEF QueueThread, CloseStep

LEMMA DurabilitySearch ==
    ASSUME TypeInv, DurabilityInv, NEW r \in Readers,
           \/ EndCalculate(r) \/ SearchStep(r) \/ EndSearch(r)
           \/ \E reverse \in BOOLEAN : BeginSearch(r, reverse)
    PROVE  DurabilityInv' /\ KeepsFiles
  <1> USE DEF DurabilityInv
  <1>1. ~EndCalculate(r)
    BY DEF EndCalculate, NobodyCalculates
  <1>2. UNCHANGED <<curId, files, orphans, writer, queue, disp, inbox, seen>>
    BY <1>1 DEF SearchStep, EndSearch, BeginSearch, addVars, storeVars, subVars, histVars
  <1>3. NobodyCalculates'
    <2>1. \A t \in Readers \ {r} : reader'[t].pc = reader[t].pc
      BY <1>1 DEF SearchStep, EndSearch, BeginSearch, TypeInv, TypeOK, ReaderTypeOK
    <2>2. reader'[r].pc # "calc"
      <3>1. CASE SearchStep(r)
        BY <3>1 DEF SearchStep, NobodyCalculates, TypeInv, TypeOK, ReaderTypeOK, SearchType
      <3>2. CASE EndSearch(r)
        BY <3>2 DEF EndSearch, TypeInv, TypeOK, ReaderTypeOK, SearchType
      <3>3. CASE \E reverse \in BOOLEAN : BeginSearch(r, reverse)
        BY <3>3 DEF BeginSearch, TypeInv, TypeOK, ReaderTypeOK
      <3> QED BY <1>1, <3>1, <3>2, <3>3
    <2> QED BY <2>1, <2>2 DEF NobodyCalculates
  <1> QED BY <1>2, <1>3, WritersKept, DeliveriesKept

LEMMA DurabilityCrash ==
    ASSUME TypeInv, DurabilityInv, Crash
    PROVE  DurabilityInv' /\ KeepsFiles
  <1> USE DEF DurabilityInv, Crash
  <1>1. IdsBelow' /\ NoneInFlight' /\ InFlightDistinct' /\ WriterState' /\ KeepsFiles
    BY DEF IdsBelow, NoneInFlight, InFlightDistinct, WriterState, KeepsFiles, InFlight,
       IdleWriter
  <1>2. NobodyCalculates'
    BY DEF NobodyCalculates, IdleReader
  <1>3. QueuedOnDisk' /\ DeliveredIsDurable'
    BY DEF QueuedOnDisk, DeliveredIsDurable, OnDisk, DispAt
  <1> QED BY <1>1, <1>2, <1>3

LEMMA DurabilityStep ==
    ASSUME EarlyReaders = {}
    PROVE  TypeInv /\ DurabilityInv /\ [Next]_vars =>
               DurabilityInv' /\ [KeepsFiles]_vars
  <1> SUFFICES ASSUME TypeInv, DurabilityInv, [Next]_vars
               PROVE  DurabilityInv' /\ [KeepsFiles]_vars
    OBVIOUS
  <1>1. CASE UNCHANGED vars
    <2>1. UNCHANGED <<curId, files, orphans, writer, queue, disp, inbox, seen, reader>>
      BY <1>1 DEF vars, storeVars, addVars, subVars, histVars
    <2>2. NobodyCalculates'
      BY <2>1 DEF DurabilityInv, NobodyCalculates
    <2> QED BY <1>1, <2>1, <2>2, WritersKept, DeliveriesKept DEF DurabilityInv
  <1>2. CASE Next
    <2>1. DurabilityInv' /\ KeepsFiles
      BY <1>2, DurabilityAdd, DurabilityDelivery, DurabilitySearch, DurabilityCrash,
         ThreadsAssumption DEF Next
    <2> QED BY <2>1
  <1> QED BY <1>1, <1>2

(* Whatever the number of threads, subscribers, crashes and failed writes, *)
(* everything any callback was ever given is on disk under its identifier, *)
(* provided cur_id is never computed outside the lock.                     *)
THEOREM DeliveredStaysDurable ==
    ASSUME EarlyReaders = {}
    PROVE  Spec => []DeliveredIsDurable
  <1>1. DurabilityInv => DeliveredIsDurable
    BY DEF DurabilityInv
  <1> QED BY TypeInit, TypeStep, DurabilityInit, DurabilityStep, <1>1, PTL DEF Spec

(* Under the same assumption no step of any thread, and no crash and       *)
(* restart, ever changes the file of an event once it is written.          *)
THEOREM FilesNeverOverwritten ==
    ASSUME EarlyReaders = {}
    PROVE  Spec => DurableEventsNeverOverwritten
  <1>1. TypeInv /\ DurabilityInv /\ [Next]_vars =>
            [\A i \in Ids : Durable(i) => files'[i] = files[i]]_vars
    BY DurabilityStep DEF KeepsFiles
  <1> QED BY TypeInit, TypeStep, DurabilityInit, DurabilityStep, <1>1, PTL
          DEF Spec, DurableEventsNeverOverwritten

-----------------------------------------------------------------------------
(* Cache pages                                                             *)

(* What was appended to the write pages since the process began. *)
Paged == {x \in Entry : \E k \in 1 .. Len(mem) : \E j \in 1 .. Len(mem[k]) : mem[k][j] = x}

(* p is a full write page that begins with identifier i. *)
FullPage(p, i) ==
    \E k \in 1 .. Len(mem) : p = mem[k] /\ Len(p) = CacheSize /\ p[1].id = i

LastPage == mem[Len(mem)]

(* The write pages are numbered without gaps up to the next identifier. *)
MemNumbered ==
    /\ \A k \in 1 .. Len(mem) :
          /\ Len(mem[k]) <= CacheSize
          /\ \A j \in 1 .. Len(mem[k]) : mem[k][j].id = mem[k][1].id + j - 1
    /\ Len(LastPage) < CacheSize
    /\ Len(LastPage) > 0 => LastPage[1].id + Len(LastPage) = curId

(* An identifier is on the pages once, and below the next one. *)
PagedOnce ==
    /\ \A x \in Paged : curId # None /\ x.id < curId
    /\ \A x, y \in Paged : x.id = y.id => x = y

(* Files, and what is about to be written, agree with the pages. *)
PagedAsFiled ==
    /\ \A x \in Paged : Durable(x.id) => files[x.id] = x.ev
    /\ \A w \in Writers : InFlight(w) => [id |-> writer[w].id, ev |-> writer[w].ev] \in Paged

StoredAreFull == \A i \in Ids : pages[i] # << >> => FullPage(pages[i], i)

PageInv == MemNumbered /\ PagedOnce /\ PagedAsFiled /\ StoredAreFull

LEMMA MemFacts ==
    ASSUME TypeInv
    PROVE  /\ mem \in Seq(Seq(Entry)) /\ Len(mem) \in Nat /\ Len(mem) \in 1 .. Len(mem)
           /\ \A k \in 1 .. Len(mem) : mem[k] \in Seq(Entry) /\ Len(mem[k]) \in Nat
           /\ \A k \in 1 .. Len(mem) : \A j \in 1 .. Len(mem[k]) : mem[k][j] \in Paged
  <1>1. mem \in Seq(Seq(Entry)) /\ mem # << >>
    BY DEF TypeInv, TypeOK, AddTypeOK
  <1>2. Len(mem) \in Nat /\ Len(mem) \in 1 .. Len(mem) /\ \A k \in 1 .. Len(mem) : mem[k] \in Seq(Entry)
    BY <1>1
  <1>3. \A k \in 1 .. Len(mem) : Len(mem[k]) \in Nat /\ \A j \in 1 .. Len(mem[k]) : mem[k][j] \in Entry
    BY <1>2
  <1> QED
    BY <1>1, <1>2, <1>3 DEF Paged

(* What a full page shows of an identifier is what its file holds. *)
LEMMA PageEntry ==
    ASSUME TypeInv, PageInv, NEW p, NEW s \in Ids, FullPage(p, s),
           NEW i \in Ids, i - s + 1 \in 1 .. CacheSize
    PROVE  /\ p[i - s + 1] \in Entry /\ p[i - s + 1].id = i
           /\ Durable(i) => p[i - s + 1] = [id |-> i, ev |-> files[i]]
  <1>1. PICK k \in 1 .. Len(mem) : p = mem[k] /\ Len(p) = CacheSize /\ p[1].id = s
    BY DEF FullPage
  <1>2. PICK x : x = p[i - s + 1]
    OBVIOUS
  <1>3. x \in Paged
    BY <1>1, <1>2, MemFacts
  <1>4. x \in Entry
    BY <1>3 DEF Paged
  <1>5. x.id = s + (i - s + 1) - 1
    BY <1>1, <1>2 DEF PageInv, MemNumbered
  <1>6. x.id = i
    BY <1>5, IdsFacts
  <1>7. Durable(i) => x.ev = files[i]
    BY <1>3, <1>6 DEF PageInv, PagedAsFiled
  <1> QED
    BY <1>2, <1>4, <1>6, <1>7 DEF Entry

LEMMA TransparentPages ==
    ASSUME TypeInv, PageInv
    PROVE  CachePageTransparent
  <1> SUFFICES ASSUME NEW i \in Ids, Durable(i), pages[PageStart(i)] # << >>
               PROVE  pages[PageStart(i)][i - PageStart(i) + 1] = [id |-> i, ev |-> files[i]]
    BY DEF CachePageTransparent
  <1>1. PageStart(i) \in Ids /\ i - PageStart(i) + 1 \in 1 .. CacheSize
    BY PageStartInIds
  <1>2. FullPage(pages[PageStart(i)], PageStart(i))
    BY <1>1 DEF PageInv, StoredAreFull
  <1> QED
    BY <1>1, <1>2, PageEntry

LEMMA PageInit == Init => PageInv
  <1> SUFFICES ASSUME Init PROVE PageInv
    OBVIOUS
  <1>1. Len(mem) = 1 /\ mem[1] = << >> /\ Len(mem[1]) = 0
    BY DEF Init
  <1>2. MemNumbered
    BY <1>1, IdsFacts DEF MemNumbered, LastPage
  <1>3. Paged = {}
    BY <1>1 DEF Paged
  <1>4. \A w \in Writers : ~InFlight(w)
    BY DEF Init, InFlight, IdleWriter
  <1>5. StoredAreFull
    BY DEF Init, StoredAreFull
  <1> QED
    BY <1>2, <1>3, <1>4, <1>5 DEF PageInv, PagedOnce, PagedAsFiled

(* The pages stay as they are; writers go on or give up. *)
LEMMA PagesStay ==
    ASSUME TypeInv, PageInv, UNCHANGED <<mem, curId, files>>,
           \A w \in Writers : InFlight(w)' =>
              InFlight(w) /\ writer'[w].id = writer[w].id /\ writer'[w].ev = writer[w].ev,
           \A i \in Ids : pages'[i] = pages[i] \/ FullPage(pages'[i], i)
    PROVE  PageInv'
  <1>1. Paged' = Paged /\ LastPage' = LastPage
    BY DEF Paged, LastPage
  <1>2. MemNumbered'
    BY <1>1 DEF PageInv, MemNumbered
  <1>3. PagedOnce' /\ PagedAsFiled'
    BY <1>1 DEF PageInv, PagedOnce, PagedAsFiled, Durable
  <1>4. StoredAreFull'
    BY DEF PageInv, StoredAreFull, FullPage
  <1> QED
    BY <1>2, <1>3, <1>4 DEF PageInv

(* add_event under the lock: the entry goes to the last page, and a page   *)
(* that is full is followed by an empty one.                               *)
LEMMA PageAssign ==
    ASSUME TypeInv, DurabilityInv, PageInv, NEW w \in Writers, NEW e \in Events, AssignId(w, e)
    PROVE  PageInv' /\ \A p, i : FullPage(p, i) => FullPage(p, i)'
  <1> USE IdsFacts
  <1>a. /\ mem \in Seq(Seq(Entry)) /\ Len(mem) \in Nat /\ Len(mem) \in 1 .. Len(mem)
        /\ \A k \in 1 .. Len(mem) : mem[k] \in Seq(Entry) /\ Len(mem[k]) \in Nat
        /\ \A k \in 1 .. Len(mem) : \A j \in 1 .. Len(mem[k]) : mem[k][j] \in Paged
    BY MemFacts
  <1>0. PICK k, id, x, page, m :
           /\ k = Len(mem) /\ id = CurId /\ x = [id |-> id, ev |-> e]
           /\ page = Append(mem[k], x) /\ m = [mem EXCEPT ![k] = page]
    OBVIOUS
  <1>1. id \in Ids /\ x \in Entry /\ x.id = id /\ x.ev = e
    BY <1>0, CurIdInIds DEF AssignId, TypeInv, Entry
  <1>2. /\ curId' = id + 1
        /\ mem' = IF Len(page) = CacheSize THEN Append(m, << >>) ELSE m
        /\ writer' = [writer EXCEPT ![w] = [pc |-> "assigned", ev |-> e, id |-> id, page |-> k]]
        /\ UNCHANGED <<files, pages>>
    BY <1>0 DEF AssignId, storeVars
  <1>3. PICK n : n = Len(mem[k])
    OBVIOUS
  <1>4. /\ k \in 1 .. Len(mem) /\ n \in Nat /\ n < CacheSize /\ mem[k] \in Seq(Entry)
        /\ n > 0 => mem[k][1].id + n = curId
    BY <1>a, <1>0, <1>3 DEF PageInv, MemNumbered, LastPage
  <1>5. /\ page \in Seq(Entry) /\ Len(page) = n + 1
        /\ \A j \in 1 .. n : page[j] = mem[k][j]
        /\ page[n + 1] = x
    BY <1>0, <1>1, <1>3, <1>4, AppendProperties
  <1>6. /\ m \in Seq(Seq(Entry)) /\ Len(m) = k
        /\ \A l \in 1 .. k : m[l] = IF l = k THEN page ELSE mem[l]
    BY <1>a, <1>0, <1>4, <1>5, ExceptSeq
  <1>7. /\ \A l \in 1 .. k : mem'[l] = IF l = k THEN page ELSE mem[l]
        /\ n + 1 = CacheSize => Len(mem') = k + 1 /\ mem'[k + 1] = << >>
        /\ n + 1 # CacheSize => Len(mem') = k
    <2>1. << >> \in Seq(Entry)
      OBVIOUS
    <2>2. CASE n + 1 = CacheSize
      <3>1. mem' = Append(m, << >>)
        BY <1>2, <1>5, <2>2
      <3> QED
        BY <1>6, <2>1, <2>2, <3>1, AppendProperties
    <2>3. CASE n + 1 # CacheSize
      BY <1>2, <1>5, <1>6, <2>3
    <2> QED
      BY <2>2, <2>3
  <1>c. k \in Nat /\ k = Len(mem) /\ (Len(mem') = k \/ Len(mem') = k + 1)
    BY <1>a, <1>0, <1>7
  <1>8. Paged' = Paged \cup {x}
    <2>1. ASSUME NEW y \in Paged' PROVE y \in Paged \cup {x}
      <3>1. PICK l \in 1 .. Len(mem') : \E j \in 1 .. Len(mem'[l]) : mem'[l][j] = y
        BY <2>1 DEF Paged
      <3>2. PICK j \in 1 .. Len(mem'[l]) : mem'[l][j] = y
        BY <3>1
      <3>3. CASE l = k
        <4>1. mem'[l] = page
          BY <1>7, <1>c, <1>4, <3>3
        <4>2. j \in 1 .. n + 1 /\ y = page[j]
          BY <1>5, <3>2, <4>1
        <4>3. CASE j = n + 1
          BY <1>5, <4>2, <4>3
        <4>4. CASE j \in 1 .. n
          <5>1. mem[k][j] \in Paged
            BY <1>a, <1>3, <1>4, <4>4
          <5> QED
            BY <1>5, <4>2, <4>4, <5>1
        <4> QED
          BY <1>4, <4>2, <4>3, <4>4
      <3>4. CASE l < k
        <4>1. l \in 1 .. Len(mem) /\ mem'[l] = mem[l]
          BY <1>c, <1>7, <3>1, <3>4
        <4> QED
          BY <1>a, <3>2, <4>1
      <3>5. CASE l = k + 1
        <4>1. Len(mem'[l]) = 0
          BY <1>c, <1>7, <3>1, <3>5
        <4> QED
          BY <3>2, <4>1
      <3> QED
        BY <1>c, <3>3, <3>4, <3>5
    <2>2. x \in Paged'
      BY <1>1, <1>4, <1>5, <1>7, <1>c DEF Paged
    <2>3. ASSUME NEW y \in Paged PROVE y \in Paged'
      <3>1. PICK l \in 1 .. Len(mem) : \E j \in 1 .. Len(mem[l]) : mem[l][j] = y
        BY <2>3 DEF Paged
      <3>2. PICK j \in 1 .. Len(mem[l]) : mem[l][j] = y
        BY <3>1
      <3>3. l \in 1 .. Len(mem') /\ j \in 1 .. Len(mem'[l]) /\ mem'[l][j] = y
        BY <1>3, <1>4, <1>5, <1>7, <1>c, <3>2, SMTT(60)
      <3> QED
        BY <2>3, <3>3 DEF Paged
    <2> QED
      BY <2>1, <2>2, <2>3
  <1>9. \A y \in Paged : y.id < id /\ y.id \in Ids
    BY <1>0 DEF PageInv, PagedOnce, CurId, Paged, Entry
  <1>10. ~Durable(id)
    <2>1. \A i \in Ids : Durable(i) => i < CurId
      BY CurIdFresh DEF DurabilityInv
    <2>2. id \in Nat /\ ~(id < id)
      BY <1>1
    <2> QED
      BY <1>0, <1>1, <2>1, <2>2
  <1>11. MemNumbered'
    <2>1. \A j \in 1 .. n + 1 : page[j].id = page[1].id + j - 1
      <3>1. CASE n = 0
        BY <1>1, <1>5, <3>1
      <3>2. CASE n > 0
        <4>1. mem[k][1].id + n = id /\ mem[k][1] \in Paged
          <5>1. mem[k][1] \in Paged
            BY <1>a, <1>3, <1>4, <3>2
          <5>2. curId # None
            BY <5>1 DEF PageInv, PagedOnce
          <5> QED
            BY <1>0, <1>4, <3>2, <5>1, <5>2 DEF CurId
        <4>2. mem[k][1].id \in Nat
          BY <4>1 DEF Paged, Entry
        <4>3. \A j \in 1 .. n : page[j].id = mem[k][1].id + j - 1
          BY <1>0, <1>3, <1>4, <1>5 DEF PageInv, MemNumbered
        <4>4. page[1].id = mem[k][1].id /\ page[n + 1].id = mem[k][1].id + (n + 1) - 1
          BY <1>1, <1>4, <1>5, <3>2, <4>1, <4>2, SMTT(60)
        <4> QED
          BY <1>4, <4>3, <4>4
      <3> QED
        BY <1>4, <3>1, <3>2
    <2>2. ASSUME NEW l \in 1 .. Len(mem')
          PROVE  /\ Len(mem'[l]) <= CacheSize
                 /\ \A j \in 1 .. Len(mem'[l]) : mem'[l][j].id = mem'[l][1].id + j - 1
      <3>1. CASE l = k
        <4>1. mem'[l] = page
          BY <1>7, <1>c, <1>4, <3>1
        <4>2. Len(mem'[l]) = n + 1 /\ n + 1 <= CacheSize
          BY <1>4, <1>5, <4>1
        <4> QED
          BY <2>1, <4>1, <4>2
      <3>2. CASE l < k
        BY <1>7, <1>c, <3>2 DEF PageInv, MemNumbered
      <3>3. CASE l = k + 1
        <4>1. Len(mem'[l]) = 0
          BY <1>c, <1>7, <2>2, <3>3
        <4> QED
          BY <4>1
      <3> QED
        BY <1>c, <3>1, <3>2, <3>3
    <2>3. Len(LastPage') < CacheSize /\ (Len(LastPage') > 0 => LastPage'[1].id + Len(LastPage') = curId')
      <3>1. CASE n + 1 = CacheSize
        <4>1. Len(LastPage') = 0
          BY <1>7, <3>1 DEF LastPage
        <4> QED
          BY <4>1
      <3>2. CASE n + 1 # CacheSize
        <4>1. LastPage' = page
          BY <1>7, <1>c, <1>4, <3>2 DEF LastPage
        <4>2. page[n + 1].id = page[1].id + (n + 1) - 1 /\ page[1].id \in Ids
          <5>1. n + 1 \in 1 .. n + 1 /\ 1 \in 1 .. n + 1
            BY <1>4
          <5>2. page[1] \in Entry
            BY <1>5, <5>1
          <5> QED
            BY <2>1, <5>1, <5>2 DEF Entry
        <4>3. page[n + 1].id = id
          BY <1>1, <1>5
        <4>4. n + 1 < CacheSize /\ page[1].id + (n + 1) = id + 1
          <5>1. PICK a \in Nat : a = page[1].id
            BY <4>2
          <5>2. id = a + (n + 1) - 1
            BY <4>2, <4>3, <5>1
          <5>3. id \in Nat /\ n \in Nat /\ n < CacheSize
            BY <1>1, <1>4
          <5>4. a + (n + 1) = id + 1
            BY <5>2, <5>3
          <5>5. n + 1 < CacheSize
            BY <3>2, <5>3
          <5> QED
            BY <5>1, <5>4, <5>5
        <4> QED
          BY <1>2, <1>5, <4>1, <4>4
      <3> QED
        BY <3>1, <3>2
    <2> QED
      BY <2>2, <2>3 DEF MemNumbered
  <1>12. PagedOnce'
    <2>1. \A y \in Paged' : curId' # None /\ y.id < curId'
      <3>1. id \in Nat /\ \A i \in Nat : i < id => i < id + 1
        BY <1>1
      <3>2. \A y \in Paged : y.id < id + 1
        BY <1>9, <3>1
      <3> QED
        BY <1>1, <1>2, <1>8, <3>1, <3>2
    <2>2. \A y, z \in Paged' : y.id = z.id => y = z
      BY <1>1, <1>8, <1>9 DEF PageInv, PagedOnce
    <2> QED
      BY <2>1, <2>2 DEF PagedOnce
  <1>13. PagedAsFiled'
    <2>1. \A y \in Paged' : Durable(y.id)' => files'[y.id] = y.ev
      BY <1>1, <1>2, <1>8, <1>10 DEF PageInv, PagedAsFiled, Durable
    <2>2. \A v \in Writers : InFlight(v)' => [id |-> writer'[v].id, ev |-> writer'[v].ev] \in Paged'
      BY <1>0, <1>2, <1>8 DEF PageInv, PagedAsFiled, InFlight, TypeInv, TypeOK, AddTypeOK
    <2> QED
      BY <2>1, <2>2 DEF PagedAsFiled
  <1>14. \A p, i : FullPage(p, i) => FullPage(p, i)'
    <2> SUFFICES ASSUME NEW p, NEW i, FullPage(p, i) PROVE FullPage(p, i)'
      OBVIOUS
    <2>1. PICK l \in 1 .. Len(mem) : p = mem[l] /\ Len(p) = CacheSize /\ p[1].id = i
      BY DEF FullPage
    <2>2. l # k
      BY <1>3, <1>4, <2>1
    <2> QED
      BY <1>7, <1>c, <2>1, <2>2 DEF FullPage
  <1>15. StoredAreFull'
    BY <1>2, <1>14 DEF PageInv, StoredAreFull
  <1> QED
    BY <1>11, <1>12, <1>13, <1>14, <1>15 DEF PageInv

LEMMA PageWrite ==
    ASSUME TypeInv, DurabilityInv, PageInv, NEW w \in Writers, FinishWrite(w)
    PROVE  PageInv' /\ UNCHANGED mem
  <1>1. /\ writer[w].pc = "writing"
        /\ files' = [files EXCEPT ![writer[w].id] = writer[w].ev]
        /\ writer' = [writer EXCEPT ![w].pc = "written"]
        /\ UNCHANGED <<curId, mem, pages>>
    BY DEF FinishWrite
  <1>2. Paged' = Paged /\ LastPage' = LastPage
    BY <1>1 DEF Paged, LastPage
  <1>3. MemNumbered' /\ PagedOnce' /\ StoredAreFull'
    BY <1>1, <1>2 DEF PageInv, MemNumbered, PagedOnce, StoredAreFull, FullPage
  <1>4. PICK z : z = [id |-> writer[w].id, ev |-> writer[w].ev]
    OBVIOUS
  <1>5. z \in Paged /\ z.id = writer[w].id /\ z.ev = writer[w].ev
    BY <1>1, <1>4 DEF PageInv, PagedAsFiled, InFlight
  <1>6. files \in [Ids -> MaybeEv] /\ \A y \in Paged : y.id \in Ids
    BY DEF TypeInv, TypeOK, StoreTypeOK, Paged, Entry
  <1>7. ASSUME NEW y \in Paged, files'[y.id] # NoEvent PROVE files'[y.id] = y.ev
    <2>1. CASE y.id = z.id
      <3>1. y = z
        BY <1>5, <2>1 DEF PageInv, PagedOnce
      <3> QED
        BY <1>1, <1>5, <1>6, <3>1
    <2>2. CASE y.id # z.id
      <3>1. files'[y.id] = files[y.id]
        BY <1>1, <1>5, <1>6, <2>2
      <3> QED
        BY <1>7, <3>1 DEF PageInv, PagedAsFiled, Durable
    <2> QED
      BY <2>1, <2>2
  <1>8. \A v \in Writers : /\ InFlight(v)' => InFlight(v)
                           /\ writer'[v].id = writer[v].id /\ writer'[v].ev = writer[v].ev
    BY <1>1 DEF InFlight, TypeInv, TypeOK, AddTypeOK
  <1>9. PagedAsFiled'
    BY <1>2, <1>7, <1>8 DEF PageInv, PagedAsFiled, Durable
  <1> QED
    BY <1>1, <1>3, <1>9 DEF PageInv

LEMMA PageStored ==
    ASSUME TypeInv, PageInv, NEW w \in Writers, StoreCachePage(w)
    PROVE  PageInv' /\ UNCHANGED mem
  <1> USE IdsFacts
  <1>1. PICK k, page : k = writer[w].page /\ page = mem[k]
    OBVIOUS
  <1>2. k \in 1 .. Len(mem)
    BY <1>1 DEF TypeInv, TypeOK, AddTypeOK
  <1>3. page \in Seq(Entry) /\ Len(page) \in Nat /\ Len(page) <= CacheSize
    BY <1>1, <1>2, MemFacts DEF PageInv, MemNumbered
  <1>4. /\ pages' = IF Len(page) < CacheSize THEN pages ELSE [pages EXCEPT ![page[1].id] = page]
        /\ writer' = [writer EXCEPT ![w].pc = "stored"] /\ writer[w].pc = "written"
        /\ UNCHANGED <<mem, curId, files>>
    BY <1>1 DEF StoreCachePage
  <1>5. \A i \in Ids : pages'[i] = pages[i] \/ FullPage(pages'[i], i)
    <2>1. CASE Len(page) < CacheSize
      BY <1>4, <2>1
    <2>2. CASE ~(Len(page) < CacheSize)
      <3>1. Len(page) = CacheSize
        BY <1>3, <2>2
      <3>2. FullPage(page, page[1].id)
        BY <1>1, <1>2, <3>1 DEF FullPage
      <3>3. pages' = [pages EXCEPT ![page[1].id] = page] /\ pages \in [Ids -> Seq(Entry)]
        BY <1>4, <2>2 DEF TypeInv, TypeOK, StoreTypeOK
      <3> QED
        BY <3>2, <3>3
    <2> QED
      BY <2>1, <2>2
  <1>6. \A v \in Writers : InFlight(v)' =>
            InFlight(v) /\ writer'[v].id = writer[v].id /\ writer'[v].ev = writer[v].ev
    BY <1>4 DEF InFlight, TypeInv, TypeOK, AddTypeOK
  <1> QED
    BY <1>4, <1>5, <1>6, PagesStay

(* The other steps of add_event leave pages and files alone. *)
LEMMA PageOtherAdd ==
    ASSUME TypeInv, PageInv, NEW w \in Writers, BeginWrite(w) \/ PutOnQueue(w) \/ WriteRaises(w)
    PROVE  PageInv' /\ UNCHANGED mem
  <1>1. UNCHANGED <<mem, curId, files, pages>>
    BY DEF BeginWrite, PutOnQueue, WriteRaises, storeVars
  <1>2. \A v \in Writers : InFlight(v)' =>
            InFlight(v) /\ writer'[v].id = writer[v].id /\ writer'[v].ev = writer[v].ev
    <2>1. \/ writer' = [writer EXCEPT ![w] = IdleWriter]
          \/ writer' = [writer EXCEPT ![w].pc = "writing"] /\ writer[w].pc = "assigned"
      BY DEF BeginWrite, PutOnQueue, WriteRaises
    <2>2. writer \in [Writers -> [pc : WriterPc, ev : MaybeEv, id : Ids, page : Nat]]
      BY DEF TypeInv, TypeOK, AddTypeOK
    <2>3. IdleWriter.pc = "idle"
      BY DEF IdleWriter
    <2> QED
      BY <2>1, <2>2, <2>3 DEF InFlight
  <1> QED
    BY <1>1, <1>2, PagesStay

(* Neither do the queue thread, the callbacks, close and the searches. *)
LEMMA PageFrame ==
    ASSUME TypeInv, PageInv, UNCHANGED <<mem, curId, files, pages, writer>>
    PROVE  PageInv' /\ UNCHANGED mem
  <1>1. \A v \in Writers : InFlight(v)' =>
            InFlight(v) /\ writer'[v].id = writer[v].id /\ writer'[v].ev = writer[v].ev
    BY DEF InFlight
  <1> QED
    BY <1>1, PagesStay

FullPagesStay == \A p, i : FullPage(p, i) => FullPage(p, i)'

LEMMA PageStep ==
    ASSUME EarlyReaders = {}, MaxCrashes = 0, TypeInv, DurabilityInv, PageInv, [Next]_vars
    PROVE  PageInv' /\ FullPagesStay
  <1>1. UNCHANGED mem => FullPagesStay
    BY DEF FullPagesStay, FullPage
  <1>2. CASE \E w \in Writers : AddStep(w) \/ WriteRaises(w)
    <2>1. ASSUME NEW w \in Writers, NEW e \in Events, AssignId(w, e) PROVE PageInv' /\ FullPagesStay
      BY <2>1, PageAssign DEF FullPagesStay
    <2>2. ASSUME NEW w \in Writers, FinishWrite(w) \/ StoreCachePage(w) PROVE PageInv' /\ FullPagesStay
      BY <1>1, <2>2, PageWrite, PageStored
    <2>3. ASSUME NEW w \in Writers, BeginWrite(w) \/ PutOnQueue(w) \/ WriteRaises(w)
          PROVE  PageInv' /\ FullPagesStay
      BY <1>1, <2>3, PageOtherAdd
    <2> QED
      BY <1>2, <2>1, <2>2, <2>3 DEF AddStep
  <1>3. CASE \/ QueueThread \/ CloseStep \/ UNCHANGED vars
             \/ \E s \in Subs : \/ RunCallback(s) \/ SubscribePool(s) \/ CleanUpSubscriber(s)
                                \/ SubscribeCallback(s) \/ Unsubscribe(s)
             \/ \E r \in Readers : SearchStep(r) \/ EndSearch(r)
             \/ \E r \in Readers, reverse \in BOOLEAN : BeginSearch(r, reverse)
    <2>1. UNCHANGED <<mem, curId, files, pages, writer>>
      BY <1>3 DEF QueueThread, Dequeue, Dispatch, DispatchDone, DispatcherStops, CloseStep, Close,
         CloseJoined, CloseCleanUp, CloseClearQueue, RunCallback, SubscribePool, CleanUpSubscriber,
         SubscribeCallback, Unsubscribe, SearchStep, EndSearch, BeginSearch, vars, addVars, storeVars
    <2> QED
      BY <1>1, <2>1, PageFrame
  <1>4. CASE Crash
    <2>1. crashes \in 0 .. 0 /\ crashes < 0
      BY <1>4 DEF Crash, TypeInv, TypeOK, FaultTypeOK
    <2> QED
      BY <2>1
  <1> QED
    BY <1>2, <1>3, <1>4, ThreadsAssumption DEF Next

(* As long as the process runs, and cur_id is never computed outside the   *)
(* lock, no cache page shows another event under an identifier than the    *)
(* identifier's file, whatever the page size, the number of writers and    *)
(* the order in which they write files and pages.  After a crash a page    *)
(* may be stale; that is a finding of its own.                             *)
THEOREM PagesTransparent ==
    ASSUME EarlyReaders = {}, MaxCrashes = 0
    PROVE  Spec => []CachePageTransparent
  <1>1. TypeInv /\ PageInv => CachePageTransparent
    BY TransparentPages
  <1>2. TypeInv /\ DurabilityInv /\ PageInv /\ [Next]_vars => PageInv'
    BY PageStep
  <1> QED
    BY TypeInit, TypeStep, DurabilityInit, DurabilityStep, PageInit, <1>1, <1>2, PTL DEF Spec

-----------------------------------------------------------------------------
(* Searches                                                                *)

(* In the order of search rd, identifier a comes before b. *)
Before(rd, a, b) == (rd.step = 1 => a < b) /\ (rd.step = -1 => b < a)

Holds(got, x) == \E k \in 1 .. Len(got) : got[k] = x

(* The page in hand is a full one.  What was delivered when the search     *)
(* began lies in its range, and what of it lies behind the index was found.*)
(* What was found lies behind the index, in order.                         *)
SearchOK(rd) ==
    rd.pc \in {"scan", "done"} =>
        /\ rd.start # None /\ rd.page # << >> => FullPage(rd.page, rd.start)
        /\ rd.due \subseteq seen
        /\ rd.pc = "done" => rd.idx = rd.end
        /\ \A x \in rd.due : /\ Before(rd, x.id, rd.end)
                             /\ Before(rd, x.id, rd.idx) => Holds(rd.got, x)
        /\ \A k \in 1 .. Len(rd.got) : Before(rd, rd.got[k].id, rd.idx)
        /\ \A j, k \in 1 .. Len(rd.got) : j < k => Before(rd, rd.got[j].id, rd.got[k].id)

SearchInv == \A r \in Readers : SearchOK(reader[r])

LEMMA SearchResult ==
    ASSUME TypeInv, SearchInv
    PROVE  SearchFindsDelivered
  <1> SUFFICES ASSUME NEW r \in Readers, reader[r].pc = "done"
               PROVE  /\ \A x \in reader[r].due : \E k \in 1 .. Len(reader[r].got) : reader[r].got[k] = x
                      /\ \A j, k \in 1 .. Len(reader[r].got) :
                            j < k => (reader[r].got[k].id - reader[r].got[j].id) * reader[r].step > 0
    BY DEF SearchFindsDelivered
  <1>1. PICK rd : rd = reader[r]
    OBVIOUS
  <1>2. SearchOK(rd) /\ rd \in SearchType /\ rd.pc = "done"
    BY <1>1 DEF SearchInv, TypeInv, TypeOK, ReaderTypeOK
  <1>3. \A x \in rd.due : Holds(rd.got, x)
    BY <1>2 DEF SearchOK
  <1>4. ASSUME NEW j \in 1 .. Len(rd.got), NEW k \in 1 .. Len(rd.got), j < k
        PROVE  (rd.got[k].id - rd.got[j].id) * rd.step > 0
    <2>1. rd.got \in Seq(Entry)
      BY <1>2 DEF SearchType
    <2>2. rd.got[j] \in Entry /\ rd.got[k] \in Entry
      BY <2>1
    <2>3. PICK a \in Nat, b \in Nat : a = rd.got[j].id /\ b = rd.got[k].id
      BY <2>2, IdsFacts DEF Entry
    <2>4. Before(rd, a, b)
      BY <1>2, <1>4, <2>3 DEF SearchOK
    <2>5. CASE rd.step = 1
      <3>1. a < b
        BY <2>4, <2>5 DEF Before
      <3>2. (b - a) * 1 > 0
        BY <3>1
      <3> QED
        BY <2>3, <2>5, <3>2
    <2>6. CASE rd.step = -1
      <3>1. b < a
        BY <2>4, <2>6 DEF Before
      <3>2. (b - a) * (-1) > 0
        BY <3>1
      <3> QED
        BY <2>3, <2>6, <3>2
    <2> QED
      BY <1>2, <2>5, <2>6 DEF SearchType
  <1> QED
    BY <1>1, <1>3, <1>4 DEF Holds

(* A search that does not move: others add to what is seen and fill pages. *)
LEMMA SearchWaits ==
    ASSUME FullPagesStay, seen \subseteq seen', NEW r \in Readers, SearchOK(reader[r]),
           reader'[r] = reader[r]
    PROVE  SearchOK(reader[r])'
  BY DEF SearchOK, FullPagesStay, Before, Holds

LEMMA SearchBegins ==
    ASSUME TypeInv, DurabilityInv, NEW r \in Readers, NEW reverse \in BOOLEAN, BeginSearch(r, reverse)
    PROVE  SearchOK(reader[r])'
  <1> USE IdsFacts
  <1>1. PICK rd : rd = [pc |-> "scan", calc |-> None, idx |-> IF reverse THEN curId - 1 ELSE 0,
                        end |-> RangeEnd(reverse), step |-> IF reverse THEN -1 ELSE 1,
                        start |-> None, page |-> << >>, got |-> << >>, due |-> seen]
    OBVIOUS
  <1>2. reader' = [reader EXCEPT ![r] = rd] /\ UNCHANGED seen /\ curId # None
    BY <1>1 DEF BeginSearch, histVars
  <1>3. reader'[r] = rd
    BY <1>2 DEF TypeInv, TypeOK, ReaderTypeOK
  <1>4. /\ rd.pc = "scan" /\ rd.start = None /\ rd.due = seen /\ Len(rd.got) = 0
        /\ rd.idx = IF reverse THEN curId - 1 ELSE 0
        /\ rd.end = IF reverse THEN -1 ELSE curId
        /\ rd.step = IF reverse THEN -1 ELSE 1
    BY <1>1 DEF RangeEnd
  <1>5. curId \in Nat
    BY <1>2 DEF TypeInv, TypeOK, AddTypeOK
  <1>6. ASSUME NEW x \in seen
        PROVE  /\ Before(rd, x.id, rd.end)
               /\ ~Before(rd, x.id, rd.idx)
    <2>1. x \in Entry /\ files[x.id] = x.ev
      BY DEF TypeInv, TypeOK, DeliveryTypeOK, DurabilityInv, DeliveredIsDurable
    <2>2. x.id \in Ids /\ x.ev \in Events
      BY <2>1 DEF Entry
    <2>3. Durable(x.id)
      BY <2>1, <2>2, EventsAssumption DEF Durable
    <2>4. x.id < curId
      BY <1>2, <2>2, <2>3 DEF DurabilityInv, IdsBelow
    <2>5. PICK a \in Nat : a = x.id
      BY <2>2
    <2>6. a < curId /\ ~(a > curId - 1) /\ ~(a < 0) /\ a > -1
      BY <1>5, <2>4, <2>5
    <2> QED
      BY <1>4, <2>5, <2>6 DEF Before
  <1>7. SearchOK(rd)'
    BY <1>2, <1>4, <1>6 DEF SearchOK, Before
  <1> QED
    BY <1>3, <1>7

LEMMA SearchEnds ==
    ASSUME TypeInv, NEW r \in Readers, EndSearch(r), SearchOK(reader[r])
    PROVE  SearchOK(reader[r])'
  <1>1. /\ reader' = [reader EXCEPT ![r].pc = "done"] /\ UNCHANGED <<mem, seen>>
        /\ reader[r].pc = "scan" /\ reader[r].idx = reader[r].end
    BY DEF EndSearch, addVars, histVars
  <1>2. reader \in [Readers -> SearchType]
    BY DEF TypeInv, TypeOK, ReaderTypeOK
  <1>3. PICK rd, new : rd = reader[r] /\ new = reader'[r]
    OBVIOUS
  <1>4. new = [rd EXCEPT !.pc = "done"] /\ rd \in SearchType
    BY <1>1, <1>2, <1>3
  <1>5. /\ new.pc = "done" /\ new.idx = rd.idx /\ new.end = rd.end /\ new.step = rd.step
        /\ new.start = rd.start /\ new.page = rd.page /\ new.got = rd.got /\ new.due = rd.due
    BY <1>4 DEF SearchType
  <1>6. SearchOK(new)'
    BY <1>1, <1>3, <1>5 DEF SearchOK, Before, Holds, FullPage
  <1> QED
    BY <1>3, <1>6

(* One index of the loop. *)
LEMMA SearchMoves ==
    ASSUME TypeInv, DurabilityInv, PageInv, NEW r \in Readers, SearchStep(r), SearchOK(reader[r])
    PROVE  SearchOK(reader[r])'
  <1> USE IdsFacts
  <1>1. PICK rd, i, cover, start, page, found :
           /\ rd = reader[r]
           /\ i = rd.idx
           /\ cover = (rd.start # None /\ rd.start <= i /\ i < rd.start + CacheSize)
           /\ start = (IF cover THEN rd.start ELSE PageStart(i))
           /\ page = (IF cover THEN rd.page ELSE pages[start])
           /\ found = (IF page # << >> THEN <<page[i - start + 1]>>
                       ELSE IF Durable(i) THEN <<[id |-> i, ev |-> files[i]]>>
                       ELSE << >>)
    OBVIOUS
  <1>2. /\ rd.pc = "scan" /\ rd.idx # rd.end
        /\ reader' = [reader EXCEPT ![r].idx = i + rd.step, ![r].start = start,
                                    ![r].page = page, ![r].got = @ \o found]
        /\ UNCHANGED <<mem, seen>>
    BY <1>1 DEF SearchStep, addVars, histVars
  <1>3. reader \in [Readers -> SearchType] /\ rd \in SearchType /\ InRange(rd)
    BY <1>1 DEF TypeInv, TypeOK, ReaderTypeOK, SearchInRange
  <1>4. /\ i \in Ids
        /\ rd.step = 1 \/ rd.step = -1
    BY <1>1, <1>2, <1>3 DEF InRange, SearchType, Ids
  <1>5. start \in Ids /\ i - start + 1 \in 1 .. CacheSize /\ (page # << >> => FullPage(page, start))
    <2>1. CASE cover
      <3>1. start = rd.start /\ page = rd.page /\ start # None /\ start <= i /\ i < start + CacheSize
        BY <1>1, <2>1
      <3>2. start \in Ids
        BY <1>3, <3>1 DEF SearchType
      <3>3. i - start + 1 \in 1 .. CacheSize
        <4>1. i \in Nat /\ start \in Nat /\ CacheSize \in Nat
          BY <1>4, <3>2
        <4>2. start <= i /\ i < start + CacheSize
          BY <3>1
        <4> HIDE IdsFacts
        <4> QED
          BY <4>1, <4>2
      <3> QED
        BY <1>1, <1>2, <3>1, <3>2, <3>3 DEF SearchOK
    <2>2. CASE ~cover
      <3>1. start = PageStart(i) /\ page = pages[start]
        BY <1>1, <2>2
      <3> QED
        BY <1>4, <3>1, PageStartInIds DEF PageInv, StoredAreFull
    <2> QED
      BY <2>1, <2>2
  <1>6. \A x \in seen : x \in Entry /\ x.id \in Ids /\ (x.id = i => Durable(i) /\ x = [id |-> i, ev |-> files[i]])
    <2> SUFFICES ASSUME NEW x \in seen
                 PROVE  x \in Entry /\ x.id \in Ids /\ (x.id = i => Durable(i) /\ x = [id |-> i, ev |-> files[i]])
      OBVIOUS
    <2>1. x \in Entry /\ files[x.id] = x.ev
      BY DEF TypeInv, TypeOK, DeliveryTypeOK, DurabilityInv, DeliveredIsDurable
    <2> QED
      BY <2>1, EventsAssumption DEF Entry, Durable
  <1>7. /\ found \in Seq(Entry) /\ Len(found) \in {0, 1}
        /\ Len(found) = 1 => found[1].id = i
        /\ \A x \in seen : x.id = i => Len(found) = 1 /\ found[1] = x
    <2>1. CASE page # << >>
      <3>1. PICK y : y = page[i - start + 1]
        OBVIOUS
      <3>2. y \in Entry /\ y.id = i /\ (Durable(i) => y = [id |-> i, ev |-> files[i]])
        BY <1>4, <1>5, <2>1, <3>1, PageEntry
      <3>3. found = <<y>>
        BY <1>1, <2>1, <3>1
      <3> QED
        BY <1>6, <3>2, <3>3
    <2>2. CASE page = << >> /\ Durable(i)
      <3>1. PICK y : y = [id |-> i, ev |-> files[i]]
        OBVIOUS
      <3>2. y \in Entry /\ y.id = i
        BY <1>4, <2>2, <3>1 DEF Durable, Entry, TypeInv, TypeOK, StoreTypeOK, MaybeEv
      <3>3. found = <<y>>
        BY <1>1, <2>2, <3>1
      <3> QED
        BY <1>6, <3>1, <3>2, <3>3
    <2>3. CASE page = << >> /\ ~Durable(i)
      <3>1. found = << >>
        BY <1>1, <2>3
      <3> QED
        BY <1>6, <2>3, <3>1
    <2> QED
      BY <2>1, <2>2, <2>3
  <1>8. PICK new : new = reader'[r]
    OBVIOUS
  <1>9. /\ new.pc = "scan" /\ new.idx = i + rd.step /\ new.end = rd.end /\ new.step = rd.step
        /\ new.start = start /\ new.page = page /\ new.got = rd.got \o found /\ new.due = rd.due
    <2>1. new = [rd EXCEPT !.idx = i + rd.step, !.start = start, !.page = page, !.got = rd.got \o found]
      BY <1>1, <1>2, <1>3, <1>8
    <2> QED
      BY <1>2, <1>3, <2>1 DEF SearchType
  <1>10. PICK n \in Nat : n = Len(rd.got) /\ rd.got \in Seq(Entry)
    BY <1>3 DEF SearchType
  <1>11. /\ Len(new.got) = n + Len(found) /\ Len(new.got) \in Nat
         /\ \A k \in 1 .. n : new.got[k] = rd.got[k] /\ rd.got[k].id \in Ids
         /\ Len(found) = 1 => new.got[n + 1] = found[1]
    <2>1. \A k \in 1 .. n : rd.got[k] \in Entry
      BY <1>10
    <2>2. /\ Len(new.got) = n + Len(found) /\ Len(new.got) \in Nat
          /\ \A k \in 1 .. n : new.got[k] = rd.got[k]
          /\ Len(found) = 1 => new.got[n + 1] = found[1]
      BY <1>7, <1>9, <1>10
    <2> QED
      BY <2>1, <2>2 DEF Entry
  <1>12. /\ \A a \in Ids : Before(rd, a, i) => Before(new, a, new.idx)
         /\ Before(new, i, new.idx)
         /\ \A a \in Ids : Before(new, a, new.idx) => Before(rd, a, i) \/ a = i
    <2>1. CASE rd.step = 1
      <3>1. i \in Int /\ new.idx = i + 1 /\ new.step = 1
        <4>1. i \in Int
          BY <1>4
        <4>2. new.idx = i + rd.step /\ new.step = rd.step
          BY <1>9
        <4> HIDE IdsFacts
        <4> QED
          BY <2>1, <4>1, <4>2
      <3>2. \A a \in Int : (a < i => a < i + 1) /\ i < i + 1 /\ (a < i + 1 => a < i \/ a = i)
        BY <3>1
      <3>3. \A a, b : (Before(rd, a, b) <=> a < b) /\ (Before(new, a, b) <=> a < b)
        BY <2>1, <3>1 DEF Before
      <3>4. \A a \in Ids : a \in Int
        OBVIOUS
      <3> QED
        BY <3>1, <3>2, <3>3, <3>4
    <2>2. CASE rd.step = -1
      <3>1. i \in Int /\ new.idx = i - 1 /\ new.step = -1
        <4>1. i \in Int
          BY <1>4
        <4>2. new.idx = i + rd.step /\ new.step = rd.step
          BY <1>9
        <4>3. i + (-1) = i - 1
          BY <4>1
        <4> HIDE IdsFacts
        <4> QED
          BY <2>2, <4>2, <4>1, <4>3
      <3>2. \A a \in Int : (i < a => i - 1 < a) /\ i - 1 < i /\ (i - 1 < a => i < a \/ a = i)
        BY <3>1
      <3>3. \A a, b : (Before(rd, a, b) <=> b < a) /\ (Before(new, a, b) <=> b < a)
        BY <2>2, <3>1 DEF Before
      <3>4. \A a \in Ids : a \in Int
        OBVIOUS
      <3> QED
        BY <3>1, <3>2, <3>3, <3>4
    <2> QED
      BY <1>4, <2>1, <2>2
  <1>13. \A a, b : Before(new, a, b) <=> Before(rd, a, b)
    BY <1>9 DEF Before
  <1>14. \A k \in 1 .. Len(new.got) : k \in 1 .. n \/ (k = n + 1 /\ Len(found) = 1)
    <2>1. CASE Len(found) = 0
      BY <1>10, <1>11, <2>1
    <2>2. CASE Len(found) = 1
      BY <1>10, <1>11, <2>2
    <2> QED
      BY <1>7, <2>1, <2>2
  <1>15. /\ rd.due \subseteq seen
         /\ \A x \in rd.due : /\ Before(rd, x.id, rd.end)
                              /\ Before(rd, x.id, i) => Holds(rd.got, x)
         /\ \A k \in 1 .. n : Before(rd, rd.got[k].id, i)
         /\ \A j, k \in 1 .. n : j < k => Before(rd, rd.got[j].id, rd.got[k].id)
    BY <1>1, <1>2, <1>10 DEF SearchOK
  <1>16. ASSUME NEW x \in new.due
         PROVE  /\ Before(new, x.id, new.end)
                /\ Before(new, x.id, new.idx) => Holds(new.got, x)
    <2>1. x \in rd.due /\ x \in seen /\ x.id \in Ids
      BY <1>6, <1>9, <1>15, <1>16
    <2>2. Before(new, x.id, new.end)
      BY <1>9, <1>13, <1>15, <2>1
    <2>3. ASSUME Before(rd, x.id, i) PROVE Holds(new.got, x)
      <3>1. PICK k \in 1 .. n : rd.got[k] = x
        BY <1>10, <1>15, <2>1, <2>3 DEF Holds
      <3> QED
        BY <1>7, <1>10, <1>11, <3>1, SMTT(60) DEF Holds
    <2>4. ASSUME x.id = i PROVE Holds(new.got, x)
      BY <1>7, <1>10, <1>11, <2>1, <2>4 DEF Holds
    <2> QED
      BY <1>12, <2>1, <2>2, <2>3, <2>4
  <1>17. ASSUME NEW k \in 1 .. Len(new.got) PROVE Before(new, new.got[k].id, new.idx)
    <2>1. CASE k \in 1 .. n
      BY <1>11, <1>12, <1>15, <2>1
    <2>2. CASE k = n + 1 /\ Len(found) = 1
      BY <1>7, <1>11, <1>12, <2>2
    <2> QED
      BY <1>14, <2>1, <2>2
  <1>18. ASSUME NEW j \in 1 .. Len(new.got), NEW k \in 1 .. Len(new.got), j < k
         PROVE  Before(new, new.got[j].id, new.got[k].id)
    <2>1. CASE k \in 1 .. n
      <3>1. j \in 1 .. n
        BY <1>10, <1>18, <2>1
      <3> QED
        BY <1>11, <1>13, <1>15, <1>18, <2>1, <3>1
    <2>2. CASE k = n + 1 /\ Len(found) = 1
      <3>1. j \in 1 .. n
        BY <1>10, <1>18, <2>2
      <3> QED
        BY <1>7, <1>11, <1>13, <1>15, <2>2, <3>1
    <2> QED
      BY <1>14, <2>1, <2>2
  <1>19. SearchOK(new)'
    <2>1. new.start # None /\ new.page # << >> => FullPage(new.page, new.start)'
      BY <1>2, <1>5, <1>9 DEF FullPage
    <2>2. new.due \subseteq seen'
      BY <1>2, <1>9, <1>15
    <2> QED
      BY <1>9, <1>16, <1>17, <1>18, <2>1, <2>2 DEF SearchOK, Before, Holds
  <1> QED
    BY <1>8, <1>19

LEMMA SearchInvInit == Init => SearchInv
  BY DEF Init, SearchInv, SearchOK, IdleReader

LEMMA SearchInvStep ==
    ASSUME EarlyReaders = {}, MaxCrashes = 0, TypeInv, DurabilityInv, PageInv, SearchInv, [Next]_vars
    PROVE  SearchInv'
  <1> SUFFICES ASSUME NEW r \in Readers PROVE SearchOK(reader[r])'
    BY DEF SearchInv
  <1>1. FullPagesStay /\ SearchOK(reader[r])
    BY PageStep DEF SearchInv
  <1>2. CASE \/ \E w \in Writers : AddStep(w) \/ WriteRaises(w)
             \/ QueueThread \/ CloseStep \/ UNCHANGED vars
             \/ \E s \in Subs : \/ RunCallback(s) \/ SubscribePool(s) \/ CleanUpSubscriber(s)
                                \/ SubscribeCallback(s) \/ Unsubscribe(s)
    <2>1. seen \subseteq seen' /\ UNCHANGED reader
      BY <1>2 DEF AddStep, AssignId, BeginWrite, FinishWrite, StoreCachePage, PutOnQueue, WriteRaises,
         QueueThread, Dequeue, Dispatch, DispatchDone, DispatcherStops, CloseStep, Close,
         CloseJoined, CloseCleanUp, CloseClearQueue, RunCallback, SubscribePool, CleanUpSubscriber,
         SubscribeCallback, Unsubscribe, vars, histVars
    <2> QED
      BY <1>1, <2>1, SearchWaits
  <1>3. ASSUME NEW t \in Readers, NEW reverse \in BOOLEAN,
               SearchStep(t) \/ EndSearch(t) \/ BeginSearch(t, reverse)
        PROVE  SearchOK(reader[r])'
    <2>1. CASE t = r
      BY <1>1, <1>3, <2>1, SearchMoves, SearchEnds, SearchBegins
    <2>2. CASE t # r
      <3>1. reader'[r] = reader[r] /\ seen' = seen
        BY <1>3, <2>2 DEF SearchStep, EndSearch, BeginSearch, histVars, TypeInv, TypeOK, ReaderTypeOK
      <3> QED
        BY <1>1, <3>1, SearchWaits
    <2> QED
      BY <2>1, <2>2
  <1>4. ~Crash
    BY DEF Crash, TypeInv, TypeOK, FaultTypeOK
  <1> QED
    BY <1>2, <1>3, <1>4, ThreadsAssumption DEF Next

(* Under the same assumptions every search of the whole stream that ends,  *)
(* forwards or in reverse, has found everything that had been delivered    *)
(* when it began, each identifier once and in the order asked for, however *)
(* many writers, page writes and other searches went on meanwhile.         *)
THEOREM SearchesFindDelivered ==
    ASSUME EarlyReaders = {}, MaxCrashes = 0
    PROVE  Spec => []SearchFindsDelivered
  <1>1. TypeInv /\ SearchInv => SearchFindsDelivered
    BY SearchResult
  <1>2. TypeInv /\ DurabilityInv /\ PageInv /\ [Next]_vars => PageInv'
    BY PageStep
  <1>3. TypeInv /\ DurabilityInv /\ PageInv /\ SearchInv /\ [Next]_vars => SearchInv'
    BY SearchInvStep
  <1> QED
    BY TypeInit, TypeStep, DurabilityInit, DurabilityStep, PageInit, SearchInvInit,
       <1>1, <1>2, <1>3, PTL DEF Spec
=============================================================================
