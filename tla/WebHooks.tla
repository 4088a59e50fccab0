------------------------------ MODULE WebHooks ------------------------------
(***************************************************************************)
(* The file store that mirrors its files through a web hook:               *)
(* openhands/storage/batched_web_hook.py, and what enterprise/server/      *)
(* routes/event_webhook.py does with a batch.                              *)
(*                                                                         *)
(* Every write has a number of its own; 0 is no file.  A content has size  *)
(* 1, a deletion 0.  Several threads write; the timers, the thread pool    *)
(* that sends the batches and flush() are further threads.  The receiver   *)
(* acknowledges a batch and works on it afterwards, in a task of its own.  *)
(***************************************************************************)
EXTENDS Integers, FiniteSets

CONSTANTS
    Paths,      \* paths of files
    Writers,    \* threads that write or delete files
    SizeLimit,  \* batch_size_limit_bytes
    MaxTries,   \* stop_after_attempt
    MaxWrites   \* bound: calls of write and delete

ASSUME WebHookAssumption ==
    /\ IsFiniteSet(Paths) /\ IsFiniteSet(Writers)
    /\ SizeLimit \in Nat \ {0} /\ MaxTries \in Nat \ {0} /\ MaxWrites \in Nat

VARIABLES
    local,     \* the files of the wrapped store
    mirror,    \* the files as the receiver knows them
    writer,    \* the writers: the update they still have to queue
    batch,     \* _batch: the numbers by path
    size,      \* _batch_size
    timer,     \* _batch_timer: "none", "armed", or "fired"
    due,       \* timers that have fired and wait for the lock
    flights,   \* the batches being sent, with the attempts made
    tasks,     \* the receiver's background tasks: what is left of their batches
    flushing,  \* whether flush holds the lock while it sends
    writes,    \* number of updates so far
    disturbed  \* paths with updates that crossed, or were given up by the sender or dropped
               \* by the receiver

webHookVars == <<local, mirror, writer, batch, size, timer, due, flights, tasks, flushing,
                 writes, disturbed>>

Empty == [p \in {} |-> 0]
IdleWriter == [pc |-> "idle"]
SizeOf(b) == Cardinality({p \in DOMAIN b : b[p].op = "write"})

(* The batches that are sent, or are worked on by the receiver. *)
UnderWay == flights \cup tasks

-----------------------------------------------------------------------------
(* write, delete: the wrapped store first, then the queue. *)
Update(w, p, op) ==
    /\ writer[w] = IdleWriter
    /\ writes < MaxWrites /\ writes' = writes + 1
    /\ local' = [local EXCEPT ![p] = IF op = "write" THEN writes + 1 ELSE 0]
    /\ writer' = [writer EXCEPT ![w] =
          [pc |-> "queue", path |-> p, update |-> [op |-> op, id |-> writes + 1]]]
    /\ disturbed' = IF \E v \in Writers : writer[v] # IdleWriter /\ writer[v].path = p
                    THEN disturbed \cup {p} ELSE disturbed
    /\ UNCHANGED <<mirror, batch, size, timer, due, flights, tasks, flushing>>

(* _enqueue_batch_from_lock with a batch b.  An empty batch is not sent.   *)
(* Two batches under way with the same path may be applied in either       *)
(* order.                                                                  *)
EnqueueBatch(b, sync) ==
    /\ flights' = IF b = Empty THEN flights
                  ELSE flights \cup {[updates |-> b, tries |-> 0, sync |-> sync]}
    /\ disturbed' = disturbed \cup
          {p \in DOMAIN b : \E x \in UnderWay : p \in DOMAIN x.updates}
    /\ batch' = Empty /\ size' = 0
    /\ timer' = "none"
    /\ UNCHANGED tasks

(* Faulty variant: the size of what is replaced is not subtracted. *)
SizeWithout(p, u) == size + (IF u.op = "write" THEN 1 ELSE 0)

(* The size of the batch once an update replaces what was queued for p. *)
SizeWith(p, u) ==
    size - (IF p \in DOMAIN batch /\ batch[p].op = "write" THEN 1 ELSE 0)
         + (IF u.op = "write" THEN 1 ELSE 0)

With(p, u) == [q \in DOMAIN batch \cup {p} |-> IF q = p THEN u ELSE batch[q]]

(* Faulty variant: the batch is sent before the update is added to it. *)
QueueAfterSending(w) ==
    /\ writer[w].pc = "queue" /\ ~flushing
    /\ LET p == writer[w].path
           u == writer[w].update
       IN \/ SizeWith(p, u) >= SizeLimit /\ EnqueueBatch(batch, FALSE)
          \/ /\ SizeWith(p, u) < SizeLimit
             /\ batch' = With(p, u) /\ size' = SizeWith(p, u)
             /\ timer' = "armed"
             /\ UNCHANGED <<flights, tasks, disturbed>>
    /\ writer' = [writer EXCEPT ![w] = IdleWriter]
    /\ UNCHANGED <<local, mirror, due, flushing, writes>>

(* _queue_update: at the size limit the batch is sent at once; otherwise   *)
(* the timer is started anew.  Cancelling one that has fired does nothing. *)
QueueUpdate(w) ==
    /\ writer[w].pc = "queue" /\ ~flushing
    /\ LET p == writer[w].path
           u == writer[w].update
       IN \/ /\ SizeWith(p, u) >= SizeLimit
             /\ EnqueueBatch(With(p, u), FALSE)
          \/ /\ SizeWith(p, u) < SizeLimit
             /\ batch' = With(p, u)
             /\ size' = SizeWith(p, u)
             /\ timer' = "armed"
             /\ UNCHANGED <<flights, tasks, disturbed>>
    /\ writer' = [writer EXCEPT ![w] = IdleWriter]
    /\ UNCHANGED <<local, mirror, due, flushing, writes>>

-----------------------------------------------------------------------------
(* threading.Timer *)
TimerFires ==
    /\ timer = "armed"
    /\ timer' = "fired" /\ due' = due + 1
    /\ UNCHANGED <<local, mirror, writer, batch, size, flights, tasks, flushing, writes,
                   disturbed>>

(* _enqueue_batch_from_timer *)
TimerRuns ==
    /\ due > 0 /\ ~flushing
    /\ due' = due - 1
    /\ EnqueueBatch(batch, FALSE)
    /\ UNCHANGED <<local, mirror, writer, flushing, writes>>

(* flush: sends in the calling thread and keeps the lock while it does. *)
Flush ==
    /\ ~flushing
    /\ flushing' = (batch # Empty)
    /\ EnqueueBatch(batch, TRUE)
    /\ UNCHANGED <<local, mirror, writer, due, writes>>

-----------------------------------------------------------------------------
(* on_batch_write: the receiver has the batch, and answers 202. *)
TaskOf(f) == [updates |-> f.updates, attempt |-> f.tries]

(* _send_batch_request succeeds. *)
Sent(f) ==
    /\ f \in flights
    /\ tasks' = tasks \cup {TaskOf(f)}
    /\ flights' = flights \ {f}
    /\ flushing' = (flushing /\ ~f.sync)
    /\ UNCHANGED <<local, mirror, writer, batch, size, timer, due, writes, disturbed>>

(* An attempt fails; it may have reached the receiver.  After the last one *)
(* the batch is dropped.                                                   *)
SendFails(f) ==
    /\ f \in flights
    /\ tasks' \in {tasks, tasks \cup {TaskOf(f)}}
    /\ \/ /\ f.tries + 1 < MaxTries
          /\ flights' = (flights \ {f}) \cup {[f EXCEPT !.tries = @ + 1]}
          /\ UNCHANGED <<flushing, disturbed>>
       \/ /\ f.tries + 1 = MaxTries
          /\ flights' = flights \ {f}
          /\ flushing' = (flushing /\ ~f.sync)
          /\ disturbed' = disturbed \cup DOMAIN f.updates
    /\ UNCHANGED <<local, mirror, writer, batch, size, timer, due, writes>>

-----------------------------------------------------------------------------
(* _process_batch_operations_background, operation by operation: the tasks *)
(* interleave at its awaits.                                               *)

(* The tasks once t is done with path p. *)
Without(b, p) == [q \in DOMAIN b \ {p} |-> b[q]]
DoneWith(t, p) ==
    (tasks \ {t}) \cup (IF DOMAIN t.updates = {p} THEN {}
                        ELSE {[t EXCEPT !.updates = Without(t.updates, p)]})

(* Deletions are ignored. *)
Process(t, p) ==
    /\ t \in tasks /\ p \in DOMAIN t.updates
    /\ mirror' = IF t.updates[p].op = "write" THEN [mirror EXCEPT ![p] = t.updates[p].id]
                 ELSE mirror
    /\ tasks' = DoneWith(t, p)
    /\ UNCHANGED <<local, writer, batch, size, timer, due, flights, flushing, writes, disturbed>>

(* The session key does not match, there is no user, the path is one that  *)
(* is not mirrored, or an exception is swallowed: the operation is skipped.*)
Skip(t, p) ==
    /\ t \in tasks /\ p \in DOMAIN t.updates /\ t.updates[p].op = "write"
    /\ tasks' = DoneWith(t, p)
    /\ disturbed' = disturbed \cup {p}
    /\ UNCHANGED <<local, mirror, writer, batch, size, timer, due, flights, flushing, writes>>

-----------------------------------------------------------------------------
WebHookInit ==
    /\ local = [p \in Paths |-> 0] /\ mirror = local
    /\ writer = [w \in Writers |-> IdleWriter]
    /\ batch = Empty /\ size = 0 /\ timer = "none" /\ due = 0
    /\ flights = {} /\ tasks = {} /\ flushing = FALSE
    /\ writes = 0 /\ disturbed = {}

WebHookNext ==
    \/ \E w \in Writers :
          \/ \E p \in Paths, op \in {"write", "delete"} : Update(w, p, op)
          \/ QueueUpdate(w)
    \/ TimerFires \/ TimerRuns \/ Flush
    \/ \E f \in flights : Sent(f) \/ SendFails(f)
    \/ \E t \in tasks : \E p \in DOMAIN t.updates : Process(t, p) \/ Skip(t, p)

WebHookSpec == WebHookInit /\ [][WebHookNext]_webHookVars

-----------------------------------------------------------------------------
(* Properties.                                                             *)

Updates == [op : {"write", "delete"}, id : 1 .. MaxWrites]
Batches == UNION {[P -> Updates] : P \in SUBSET Paths}
WriterType == [pc : {"queue"}, path : Paths, update : Updates] \cup {IdleWriter}

(* The type invariant.  The running size is the size of the batch, below   *)
(* the limit, however often a path is replaced, deleted or taken away by a *)
(* timer that fired while the update waited for the lock.                  *)
WebHookTypeOK ==
    /\ local \in [Paths -> 0 .. writes] /\ mirror \in [Paths -> 0 .. MaxWrites]
    /\ writer \in [Writers -> WriterType] /\ writes \in 0 .. MaxWrites
    /\ batch \in Batches
    /\ size = SizeOf(batch) /\ size < SizeLimit
    /\ timer \in {"none", "armed", "fired"} /\ due \in 0 .. MaxWrites
    /\ flights \subseteq [updates : Batches, tries : 0 .. MaxTries - 1, sync : BOOLEAN]
    /\ tasks \subseteq [updates : Batches, attempt : 0 .. MaxTries - 1]
    /\ flushing <=> \E f \in flights : f.sync
    /\ disturbed \subseteq Paths

(* No update stays in the batch for ever: as long as there is one, a timer *)
(* is running or has fired and waits for the lock.  Timers that fire while *)
(* an update restarts them are the hard case.                              *)
BatchHasTimer == batch # Empty => timer = "armed" \/ due > 0

(* What was updated undisturbed arrives: with nothing queued, being sent   *)
(* or in the hands of the receiver, the receiver has the last content of   *)
(* every file, through sending again what had arrived already.  A path is  *)
(* disturbed by two batches under way with it at once, by a batch that is  *)
(* given up and by an operation the receiver skips: the code does nothing  *)
(* about these, and an update may then be lost although it was answered.   *)
MirrorConverges ==
    \A p \in Paths \ disturbed :
       \/ local[p] = 0 \/ mirror[p] = local[p]
       \/ p \in DOMAIN batch
       \/ \E w \in Writers : writer[w] # IdleWriter /\ writer[w].path = p
       \/ \E x \in UnderWay : p \in DOMAIN x.updates

(* Updates arrive: none is stuck in the batch, and in the end the receiver *)
(* has what the store has of every undisturbed path.                       *)
UpdatesArrive == BatchHasTimer /\ MirrorConverges
=============================================================================
