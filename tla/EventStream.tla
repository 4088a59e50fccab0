---------------------------- MODULE EventStream ----------------------------
(***************************************************************************)
(* The event stream of one conversation: openhands/events/stream.py        *)
(* (EventStream), on top of openhands/events/event_store.py (EventStore)   *)
(* and a local file store.                                                 *)
(*                                                                         *)
(* Several threads add events.  Only the assignment of the identifier and  *)
(* the append to the in-memory write page are under the lock; writing the  *)
(* event's file, writing the cache page and putting the event on the queue *)
(* happen outside it.  One queue thread hands every queued event to the    *)
(* single-worker pool of each subscriber.  Other threads search the stored *)
(* events, subscribe, unsubscribe and close the stream.  A crash of the    *)
(* process loses everything but the file store.                            *)
(***************************************************************************)
EXTENDS Integers, Sequences

CONSTANTS
    Events,       \* the event objects; one is added at most once
    NoEvent,      \* "no such file" / "no event in hand"
    Writers,      \* threads that call add_event
    Readers,      \* threads that call search_events
    EarlyReaders, \* readers that may run before cur_id was first computed
    Subs,         \* (subscriber_id, callback_id) pairs, one per subscriber
    SubOrder,     \* Subs in the order sorted(self._subscribers.keys()) gives
    Joiners,      \* subscribers that subscribe while the stream is in use
    Leavers,      \* subscribers that may unsubscribe
    CacheSize,    \* EventStore.cache_size
    MayClose,     \* whether close() may be called
    MaxId,        \* bound: the largest identifier given out
    MaxCrashes,   \* bound: crashes of the process
    MaxFailures   \* bound: writes to the file store that raise

ASSUME EventsAssumption == NoEvent \notin Events
ASSUME BoundsAssumption ==
    /\ CacheSize \in Nat \ {0}
    /\ MaxId \in Nat
    /\ MaxCrashes \in Nat
    /\ MaxFailures \in Nat
    /\ MayClose \in BOOLEAN
ASSUME ThreadsAssumption ==
    /\ EarlyReaders \subseteq Readers
    /\ Joiners \subseteq Subs
    /\ Leavers \subseteq Subs
ASSUME OrderAssumption == SubOrder \in Seq(Subs)

VARIABLES
    curId,     \* _cur_id; None (-1) until first computed
    files,     \* the event files: what events/<id>.json holds
    orphans,   \* ids of temporary files a crash left in the events directory
    pages,     \* the cache pages on disk, by start id; << >> where none is
    mem,       \* the in-memory write pages; the last is _write_page_cache
    writer,    \* per writer: program counter, event and id, page it appended to
    added,     \* event objects whose id is no longer INVALID_ID
    queue,     \* _queue
    disp,      \* the queue thread: program counter, event, keys it iterates over
    status,    \* per subscriber: its entries in _subscribers and _thread_pools
    keys,      \* subscriber ids that have a dictionary in _subscribers
    inbox,     \* per subscriber: calls submitted to its pool and not yet run
    delivered, \* per subscriber: events its callback got in this process
    seen,      \* history: everything any callback ever got
    closer,    \* close(): where it is, and the callbacks it has yet to clean up
    reader,    \* per reader: where search_events is
    crashes,   \* crashes so far
    failures   \* failed writes so far

storeVars  == <<files, orphans, pages>>
addVars    == <<curId, mem, writer, added>>
subVars    == <<status, keys, inbox>>
histVars   == <<delivered, seen>>
faultVars  == <<crashes, failures>>
vars == <<storeVars, addVars, queue, disp, subVars, histVars, closer, reader, faultVars>>

None    == -1
Ids     == 0 .. MaxId
Entry   == [id : Ids, ev : Events]
MaybeEv == Events \cup {NoEvent}

WriterPc == {"idle", "assigned", "writing", "written", "stored"}
Status   == {"absent", "registered", "active", "closing"}

IdleWriter == [pc |-> "idle", ev |-> NoEvent, id |-> 0, page |-> 1]
DispAt(pc) == [pc |-> pc, ev |-> NoEvent, id |-> 0, todo |-> << >>, known |-> {}]
IdleReader == [pc |-> "idle", calc |-> None, idx |-> 0, end |-> 0, step |-> 1,
               start |-> None, page |-> << >>, got |-> << >>, due |-> {}]

-----------------------------------------------------------------------------
(* What the file store holds.                                              *)

Durable(i) == files[i] # NoEvent

(* file_store.list(events_dir): event files, and the temporary files of    *)
(* writes under way or cut short by a crash, whose names start with the id.*)
ListedIds == {i \in Ids : Durable(i)} \cup orphans
             \cup {writer[w].id : w \in {v \in Writers : writer[v].pc = "writing"}}

LargestListed == CHOOSE m \in ListedIds : \A i \in ListedIds : i <= m

(* Faulty variants: the last id taken for the next one, and an empty       *)
(* directory that counts as id -1.                                         *)
CalculateLastId  == IF ListedIds = {} THEN 0 ELSE LargestListed
CalculateNoEmpty == IF ListedIds = {} THEN None ELSE LargestListed + 1

CalculateCurId == IF ListedIds = {} THEN 0 ELSE LargestListed + 1

(* The cur_id property: computed on first use. *)
CurId == IF curId = None THEN CalculateCurId ELSE curId

PageStart(i) == i - (i % CacheSize)

-----------------------------------------------------------------------------
(* add_event                                                               *)

(* Faulty variant: any event is accepted. *)
AcceptsAny(e) == e \in Events

(* An event that already has an id is refused. *)
HasNoId(e) == e \notin added

(* The block under the lock. *)
AssignId(w, e) ==
    /\ writer[w].pc = "idle"
    /\ HasNoId(e)
    /\ CurId <= MaxId
    /\ LET id   == CurId
           k    == Len(mem)
           page == Append(mem[k], [id |-> id, ev |-> e])
           full == Len(page) = CacheSize
       IN  /\ curId' = id + 1
           /\ mem' = LET m == [mem EXCEPT ![k] = page]
                     IN  IF full THEN Append(m, << >>) ELSE m
           /\ writer' = [writer EXCEPT ![w] =
                            [pc |-> "assigned", ev |-> e, id |-> id, page |-> k]]
    /\ added' = added \cup {e}
    /\ UNCHANGED <<storeVars, queue, disp, subVars, histVars, closer, reader, faultVars>>

(* file_store.write: the temporary file appears in the events directory... *)
BeginWrite(w) ==
    /\ writer[w].pc = "assigned"
    /\ writer' = [writer EXCEPT ![w].pc = "writing"]
    /\ UNCHANGED <<curId, mem, added, storeVars, queue, disp, subVars, histVars,
                   closer, reader, faultVars>>

(* ...and replaces the event's file in one step. *)
FinishWrite(w) ==
    /\ writer[w].pc = "writing"
    /\ files' = [files EXCEPT ![writer[w].id] = writer[w].ev]
    /\ writer' = [writer EXCEPT ![w].pc = "written"]
    /\ UNCHANGED <<curId, mem, added, orphans, pages, queue, disp, subVars, histVars,
                   closer, reader, faultVars>>

(* Faulty variant: add_event returns when the page is not full. *)
StoreCachePageOrReturn(w) ==
    /\ writer[w].pc = "written"
    /\ LET page == mem[writer[w].page]
       IN  IF Len(page) < CacheSize
           THEN writer' = [writer EXCEPT ![w] = IdleWriter] /\ UNCHANGED pages
           ELSE /\ pages' = [pages EXCEPT ![page[1].id] = page]
                /\ writer' = [writer EXCEPT ![w].pc = "stored"]
    /\ UNCHANGED <<curId, mem, added, files, orphans, queue, disp, subVars, histVars,
                   closer, reader, faultVars>>

(* _store_cache_page, on the page the event was appended to.  The page is  *)
(* shared: other writers may have filled it since.                         *)
StoreCachePage(w) ==
    /\ writer[w].pc = "written"
    /\ LET page == mem[writer[w].page]
       IN  pages' = IF Len(page) < CacheSize THEN pages
                    ELSE [pages EXCEPT ![page[1].id] = page]
    /\ writer' = [writer EXCEPT ![w].pc = "stored"]
    /\ UNCHANGED <<curId, mem, added, files, orphans, queue, disp, subVars, histVars,
                   closer, reader, faultVars>>

PutOnQueue(w) ==
    /\ writer[w].pc = "stored"
    /\ queue' = Append(queue, [id |-> writer[w].id, ev |-> writer[w].ev])
    /\ writer' = [writer EXCEPT ![w] = IdleWriter]
    /\ UNCHANGED <<curId, mem, added, storeVars, disp, subVars, histVars,
                   closer, reader, faultVars>>

(* Faulty variants: the error is swallowed, or the id is handed back.      *)
WriteErrorSwallowed(w) ==
    /\ writer[w].pc = "writing"
    /\ failures < MaxFailures
    /\ failures' = failures + 1
    /\ writer' = [writer EXCEPT ![w].pc = "stored"]
    /\ UNCHANGED <<curId, mem, added, storeVars, queue, disp, subVars, histVars,
                   closer, reader, crashes>>

WriteErrorRollsBack(w) ==
    /\ writer[w].pc = "writing"
    /\ failures < MaxFailures
    /\ failures' = failures + 1
    /\ curId' = curId - 1
    /\ writer' = [writer EXCEPT ![w] = IdleWriter]
    /\ UNCHANGED <<mem, added, storeVars, queue, disp, subVars, histVars,
                   closer, reader, crashes>>

(* A write of the event file or of the page raises: add_event ends there,  *)
(* the temporary file is removed, and the event keeps its id.              *)
WriteRaises(w) ==
    /\ \/ writer[w].pc = "writing"
       \/ writer[w].pc = "written" /\ Len(mem[writer[w].page]) >= CacheSize
    /\ failures < MaxFailures
    /\ failures' = failures + 1
    /\ writer' = [writer EXCEPT ![w] = IdleWriter]
    /\ UNCHANGED <<curId, mem, added, storeVars, queue, disp, subVars, histVars,
                   closer, reader, crashes>>

-----------------------------------------------------------------------------
(* The queue thread: _process_queue                                        *)

Dequeue ==
    /\ disp.pc = "idle"
    /\ ~closer.stop
    /\ queue # << >>
    /\ disp' = [pc |-> "dispatching", ev |-> Head(queue).ev, id |-> Head(queue).id,
                todo |-> SubOrder, known |-> keys]
    /\ queue' = Tail(queue)
    /\ UNCHANGED <<addVars, storeVars, subVars, histVars, closer, reader, faultVars>>

(* One turn of the loop over the callbacks.  A subscriber that had no entry*)
(* when the event was taken, or whose callback is gone, is passed over.    *)
(* One that is registered and whose pool is missing (KeyError) or shut     *)
(* down (RuntimeError) raises out of the loop, and the thread ends.        *)
Dispatch ==
    /\ disp.pc = "dispatching"
    /\ disp.todo # << >>
    /\ LET s == Head(disp.todo)
       IN  \/ /\ s \notin disp.known \/ status[s] = "absent"
              /\ disp' = [disp EXCEPT !.todo = Tail(@)]
              /\ UNCHANGED inbox
           \/ /\ s \in disp.known /\ status[s] = "active"
              /\ inbox' = [inbox EXCEPT ![s] =
                              Append(@, [id |-> disp.id, ev |-> disp.ev])]
              /\ disp' = [disp EXCEPT !.todo = Tail(@)]
           \/ /\ s \in disp.known /\ status[s] \in {"registered", "closing"}
              /\ disp' = DispAt("dead")
              /\ UNCHANGED inbox
    /\ UNCHANGED <<addVars, storeVars, queue, status, keys, histVars, closer, reader,
                   faultVars>>

DispatchDone ==
    /\ disp.pc = "dispatching"
    /\ disp.todo = << >>
    /\ disp' = DispAt("idle")
    /\ UNCHANGED <<addVars, storeVars, queue, subVars, histVars, closer, reader, faultVars>>

DispatcherStops ==
    /\ disp.pc = "idle"
    /\ closer.stop
    /\ disp' = DispAt("exited")
    /\ UNCHANGED <<addVars, storeVars, queue, subVars, histVars, closer, reader, faultVars>>

(* Faulty variant: a pool with several workers. *)
RunAnyCallback(s) ==
    \E k \in 1 .. Len(inbox[s]) :
        /\ delivered' = [delivered EXCEPT ![s] = Append(@, inbox[s][k])]
        /\ seen' = seen \cup {inbox[s][k]}
        /\ inbox' = [inbox EXCEPT ![s] = SubSeq(@, 1, k - 1) \o SubSeq(@, k + 1, Len(@))]
        /\ UNCHANGED <<addVars, storeVars, queue, disp, status, keys, closer, reader,
                       faultVars>>

(* The pool's only worker runs the callback on the oldest submitted event. *)
RunCallback(s) ==
    /\ inbox[s] # << >>
    /\ delivered' = [delivered EXCEPT ![s] = Append(@, Head(inbox[s]))]
    /\ seen' = seen \cup {Head(inbox[s])}
    /\ inbox' = [inbox EXCEPT ![s] = Tail(@)]
    /\ UNCHANGED <<addVars, storeVars, queue, disp, status, keys, closer, reader, faultVars>>

-----------------------------------------------------------------------------
(* subscribe, unsubscribe, close                                           *)

SubscribeCallback(s) ==
    /\ status[s] = "absent"
    /\ status' = [status EXCEPT ![s] = "registered"]
    /\ keys' = keys \cup {s}
    /\ UNCHANGED <<addVars, storeVars, queue, disp, inbox, histVars, closer, reader,
                   faultVars>>

SubscribePool(s) ==
    /\ status[s] = "registered"
    /\ status' = [status EXCEPT ![s] = "active"]
    /\ UNCHANGED <<addVars, storeVars, queue, disp, keys, inbox, histVars, closer, reader,
                   faultVars>>

(* pool.shutdown() refuses new work at once and waits for the work it has. *)
Unsubscribe(s) ==
    /\ status[s] = "active"
    /\ status' = [status EXCEPT ![s] = "closing"]
    /\ UNCHANGED <<addVars, storeVars, queue, disp, keys, inbox, histVars, closer, reader,
                   faultVars>>

CleanUpSubscriber(s) ==
    /\ status[s] = "closing"
    /\ inbox[s] = << >>
    /\ status' = [status EXCEPT ![s] = "absent"]
    /\ UNCHANGED <<addVars, storeVars, queue, disp, keys, inbox, histVars, closer, reader,
                   faultVars>>

Close ==
    /\ MayClose
    /\ closer.pc = "open"
    /\ closer' = [pc |-> "join", stop |-> TRUE, todo |-> {}]
    /\ UNCHANGED <<addVars, storeVars, queue, disp, subVars, histVars, reader, faultVars>>

CloseJoined ==
    /\ closer.pc = "join"
    /\ disp.pc \in {"exited", "dead"}
    /\ closer' = [closer EXCEPT !.pc = "clean",
                                !.todo = {s \in Subs : status[s] # "absent"}]
    /\ UNCHANGED <<addVars, storeVars, queue, disp, subVars, histVars, reader, faultVars>>

NoneClosing == \A s \in Subs : status[s] # "closing"

(* The callbacks are cleaned up one after the other; one that is registered*)
(* and has no pool yet is just deleted, one that is gone is skipped.       *)
CloseCleanUp(s) ==
    /\ closer.pc = "clean"
    /\ s \in closer.todo
    /\ NoneClosing
    /\ closer' = [closer EXCEPT !.todo = @ \ {s}]
    /\ status' = [status EXCEPT ![s] = IF @ = "active" THEN "closing" ELSE "absent"]
    /\ UNCHANGED <<addVars, storeVars, queue, disp, keys, inbox, histVars, reader, faultVars>>

CloseClearQueue ==
    /\ closer.pc = "clean"
    /\ closer.todo = {}
    /\ NoneClosing
    /\ queue' = << >>
    /\ closer' = [closer EXCEPT !.pc = "closed"]
    /\ UNCHANGED <<addVars, storeVars, disp, subVars, histVars, reader, faultVars>>

-----------------------------------------------------------------------------
(* search_events                                                           *)

(* cur_id outside the lock, while _cur_id is still None: the directory is  *)
(* listed in one step and the result stored in a later one.                *)
BeginCalculate(r) ==
    /\ reader[r].pc = "idle"
    /\ curId = None
    /\ CalculateCurId <= MaxId
    /\ reader' = [reader EXCEPT ![r].pc = "calc", ![r].calc = CalculateCurId]
    /\ UNCHANGED <<addVars, storeVars, queue, disp, subVars, histVars, closer, faultVars>>

EndCalculate(r) ==
    /\ reader[r].pc = "calc"
    /\ curId' = reader[r].calc
    /\ reader' = [reader EXCEPT ![r] = IdleReader]
    /\ UNCHANGED <<mem, writer, added, storeVars, queue, disp, subVars, histVars, closer,
                   faultVars>>

(* The exclusive end of the range of indices; faulty variant: the reverse  *)
(* range stops at id 0 instead of behind it.                               *)
RangeEndAtZero(reverse) == IF reverse THEN 0 ELSE curId
RangeEnd(reverse)       == IF reverse THEN -1 ELSE curId

(* search_events over the whole stream, forwards or in reverse. *)
BeginSearch(r, reverse) ==
    /\ reader[r].pc = "idle"
    /\ curId # None
    /\ reader' = [reader EXCEPT ![r] =
            [pc |-> "scan", calc |-> None, idx |-> IF reverse THEN curId - 1 ELSE 0,
             end |-> RangeEnd(reverse), step |-> IF reverse THEN -1 ELSE 1,
             start |-> None, page |-> << >>, got |-> << >>, due |-> seen]]
    /\ UNCHANGED <<addVars, storeVars, queue, disp, subVars, histVars, closer, faultVars>>

(* One index of the loop: a page is loaded when the one in hand does not   *)
(* cover the index; an event comes from that page, else from its file; an  *)
(* index with neither is skipped.                                          *)
SearchStep(r) ==
    LET rd    == reader[r]
        i     == rd.idx
        cover == rd.start # None /\ rd.start <= i /\ i < rd.start + CacheSize
        start == IF cover THEN rd.start ELSE PageStart(i)
        page  == IF cover THEN rd.page ELSE pages[start]
        found == IF page # << >> THEN <<page[i - start + 1]>>
                 ELSE IF Durable(i) THEN <<[id |-> i, ev |-> files[i]]>>
                 ELSE << >>
    IN  /\ rd.pc = "scan"
        /\ rd.idx # rd.end
        /\ reader' = [reader EXCEPT ![r].idx = i + rd.step, ![r].start = start,
                                    ![r].page = page, ![r].got = @ \o found]
        /\ UNCHANGED <<addVars, storeVars, queue, disp, subVars, histVars, closer, faultVars>>

EndSearch(r) ==
    /\ reader[r].pc = "scan"
    /\ reader[r].idx = reader[r].end
    /\ reader' = [reader EXCEPT ![r].pc = "done"]
    /\ UNCHANGED <<addVars, storeVars, queue, disp, subVars, histVars, closer, faultVars>>
-----------------------------------------------------------------------------
(* The process dies; only the file store survives.  Temporary files of     *)
(* writes under way stay behind.  The next process opens the same          *)
(* conversation, with the same subscribers.                                *)
InitialStatus == [s \in Subs |-> IF s \in Joiners THEN "absent" ELSE "active"]
OpenCloser    == [pc |-> "open", stop |-> FALSE, todo |-> {}]

Crash ==
    /\ crashes < MaxCrashes
    /\ crashes' = crashes + 1
    /\ orphans' = orphans \cup
          {writer[w].id : w \in {v \in Writers : writer[v].pc = "writing"}}
    /\ curId' = None
    /\ mem' = << << >> >>
    /\ writer' = [w \in Writers |-> IdleWriter]
    /\ queue' = << >>
    /\ disp' = DispAt("idle")
    /\ status' = InitialStatus
    /\ keys' = Subs \ Joiners
    /\ inbox' = [s \in Subs |-> << >>]
    /\ delivered' = [s \in Subs |-> << >>]
    /\ closer' = OpenCloser
    /\ reader' = [r \in Readers |-> IdleReader]
    /\ UNCHANGED <<files, pages, added, seen, failures>>

-----------------------------------------------------------------------------
Init ==
    /\ curId = None
    /\ files = [i \in Ids |-> NoEvent]
    /\ orphans = {}
    /\ pages = [i \in Ids |-> << >>]
    /\ mem = << << >> >>
    /\ writer = [w \in Writers |-> IdleWriter]
    /\ added = {}
    /\ queue = << >>
    /\ disp = DispAt("idle")
    /\ status = InitialStatus
    /\ keys = Subs \ Joiners
    /\ inbox = [s \in Subs |-> << >>]
    /\ delivered = [s \in Subs |-> << >>]
    /\ seen = {}
    /\ closer = OpenCloser
    /\ reader = [r \in Readers |-> IdleReader]
    /\ crashes = 0
    /\ failures = 0

AddStep(w) == \/ \E e \in Events : AssignId(w, e)
              \/ BeginWrite(w)
              \/ FinishWrite(w)
              \/ StoreCachePage(w)
              \/ PutOnQueue(w)

QueueThread == Dequeue \/ Dispatch \/ DispatchDone \/ DispatcherStops

CloseStep == Close \/ CloseJoined \/ CloseClearQueue \/ \E s \in Subs : CloseCleanUp(s)

Next ==
    \/ \E w \in Writers : AddStep(w) \/ WriteRaises(w)
    \/ QueueThread
    \/ \E s \in Subs : RunCallback(s) \/ SubscribePool(s) \/ CleanUpSubscriber(s)
    \/ \E s \in Joiners : SubscribeCallback(s)
    \/ \E s \in Leavers : Unsubscribe(s)
    \/ CloseStep
    \/ \E r \in EarlyReaders : BeginCalculate(r) \/ EndCalculate(r)
    \/ \E r \in Readers : SearchStep(r) \/ EndSearch(r)
    \/ \E r \in Readers, reverse \in BOOLEAN : BeginSearch(r, reverse)
    \/ Crash

Spec == Init /\ [][Next]_vars

(* Every thread that has something to do is eventually scheduled.  Nothing *)
(* obliges anyone to add an event.                                         *)
Fairness ==
    /\ \A w \in Writers : WF_vars(BeginWrite(w) \/ FinishWrite(w) \/ StoreCachePage(w)
                                     \/ PutOnQueue(w))
    /\ WF_vars(QueueThread)
    /\ \A s \in Subs : WF_vars(RunCallback(s))

FairSpec == Spec /\ Fairness

-----------------------------------------------------------------------------
(* Properties                                                              *)

StoreTypeOK ==
    /\ files \in [Ids -> MaybeEv]
    /\ orphans \subseteq Ids
    /\ pages \in [Ids -> Seq(Entry)]

AddTypeOK ==
    /\ curId \in Ids \cup {None, MaxId + 1}
    /\ mem \in Seq(Seq(Entry)) /\ mem # << >>
    /\ writer \in [Writers -> [pc : WriterPc, ev : MaybeEv, id : Ids, page : Nat]]
    /\ \A w \in Writers : /\ writer[w].page \in 1 .. Len(mem)
                          /\ writer[w].pc # "idle" => writer[w].ev \in Events
    /\ added \subseteq Events

DispType ==
    [pc : {"idle", "dispatching", "exited", "dead"}, ev : MaybeEv, id : Ids,
     todo : Seq(Subs), known : SUBSET Subs]

CloserType ==
    [pc : {"open", "join", "clean", "closed"}, stop : BOOLEAN, todo : SUBSET Subs]

DeliveryTypeOK ==
    /\ queue \in Seq(Entry)
    /\ disp \in DispType
    /\ disp.pc = "dispatching" => disp.ev \in Events
    /\ status \in [Subs -> Status]
    /\ keys \subseteq Subs
    /\ inbox \in [Subs -> Seq(Entry)]
    /\ delivered \in [Subs -> Seq(Entry)]
    /\ seen \subseteq Entry
    /\ closer \in CloserType

SearchType ==
    [pc : {"idle", "calc", "scan", "done"}, calc : Ids \cup {None},
     idx : -1 .. MaxId + 1, end : -1 .. MaxId + 1, step : {-1, 1},
     start : Ids \cup {None}, page : Seq(Entry), got : Seq(Entry), due : SUBSET Entry]

ReaderTypeOK == reader \in [Readers -> SearchType]

FaultTypeOK == crashes \in 0 .. MaxCrashes /\ failures \in 0 .. MaxFailures

(* Every variable stays in its type. *)
TypeOK == StoreTypeOK /\ AddTypeOK /\ DeliveryTypeOK /\ ReaderTypeOK /\ FaultTypeOK

(* Once the file of an identifier holds an event it holds that event for   *)
(* ever: no interleaving of writers and no crash and restart gives out an  *)
(* identifier whose file exists (add_event, _calculate_cur_id).            *)
DurableEventsNeverOverwritten ==
    [][\A i \in Ids : Durable(i) => files'[i] = files[i]]_vars

(* Whatever a callback was ever given is on disk under its identifier, also*)
(* after crashes and restarts: add_event writes before it queues.          *)
DeliveredIsDurable == \A x \in seen : files[x.id] = x.ev

Permanent == Subs \ (Joiners \cup Leavers)

(* The log as the first subscriber sees it: what it got, and what is on    *)
(* its way to it.                                                          *)
InHand(s) ==
    IF disp.pc = "dispatching" /\ \E k \in 1 .. Len(disp.todo) : disp.todo[k] = s
    THEN <<[id |-> disp.id, ev |-> disp.ev]>> ELSE << >>
LogOf(s) == delivered[s] \o inbox[s] \o InHand(s) \o queue

KeptEvents == {[id |-> i, ev |-> files[i]] : i \in {j \in Ids : Durable(j)}}

Log == INSTANCE EventLog WITH
        LogReaders <- Subs, Staying <- Permanent, kept <- KeptEvents,
        log <- LogOf(SubOrder[1]), got <- delivered, open <- ~closer.stop

(* The stream implements one durable log: no identifier and no event is    *)
(* there twice, nobody gets an event before it is on disk or twice, all    *)
(* subscribers see one order, those that stay without gaps, through        *)
(* failing writes, crashes and restarts, and close (add_event,             *)
(* _process_queue, the pools with one worker).                             *)
ImplementsEventLog == Log!LogSpec

(* A cache page never shows another event under an id than the id's file.  *)
CachePageTransparent ==
    \A i \in Ids : LET page == pages[PageStart(i)]
                   IN  Durable(i) /\ page # << >> =>
                           page[i - PageStart(i) + 1] = [id |-> i, ev |-> files[i]]

(* A search of the whole stream that ends returns everything that had been *)
(* delivered when it began, in the order asked for, each id once, although *)
(* writers and page writes go on while it runs (search_events).            *)
SearchFindsDelivered ==
    \A r \in Readers :
        reader[r].pc = "done" =>
            LET got == reader[r].got
            IN  /\ \A x \in reader[r].due : \E k \in 1 .. Len(got) : got[k] = x
                /\ \A j, k \in 1 .. Len(got) :
                       j < k => (got[k].id - got[j].id) * reader[r].step > 0

(* The queue thread ends only because the stream was closed. *)
QueueThreadSurvives == disp.pc # "dead"

Delivered(s, e) == \E i \in 1 .. Len(delivered[s]) : delivered[s][i].ev = e

(* Every event that was given an id reaches every subscriber: however      *)
(* often events are added, none of them waits for ever.                    *)
AddedEventuallyDelivered == []<>(\A e \in added, s \in Permanent : Delivered(s, e))
=============================================================================
