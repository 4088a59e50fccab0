-------------------------- MODULE PendingMessages --------------------------
(***************************************************************************)
(* Messages that a client queues while its conversation is being started:  *)
(* openhands/app_server/pending_messages (router and SQL service) and      *)
(* _process_pending_messages of live_status_app_conversation_service.py.   *)
(*                                                                         *)
(* A message is queued under the id that the client knows: the start       *)
(* task's until it has seen the task READY, the conversation's afterwards  *)
(* (in the form without hyphens, which the queue takes for another id).    *)
(* When the task is READY the start renames what is queued under the task, *)
(* reads it, posts it in order to the agent server, and deletes it.  Each  *)
(* of these is a database transaction of its own; the client goes on       *)
(* meanwhile.  One start is modelled: queues of different starts are       *)
(* disjoint.                                                               *)
(***************************************************************************)
EXTENDS Integers, Sequences, FiniteSets

CONSTANTS
    MaxQueued,   \* the limit of queued messages per id (10 in the code)
    Senders,     \* concurrent requests of the client
    MaxMessages  \* bound: messages queued

ASSUME PendingAssumption ==
    MaxQueued \in Nat \ {0} /\ MaxMessages \in Nat /\ IsFiniteSet(Senders)

VARIABLES
    rows,     \* the table: messages, numbered in the order of created_at, and their ids
    sender,   \* requests that have passed the check of the limit: the id they use
    queued,   \* number of messages accepted so far
    ready,    \* whether the start task is stored as READY
    seen,     \* whether the client has seen that
    proc,     \* _process_pending_messages: where it is, what it has read
    posted,   \* messages the agent server got, in order
    failed,   \* messages whose post failed
    late      \* messages the renaming does not find: too late, or under the other id

pendingVars == <<rows, sender, queued, ready, seen, proc, posted, failed, late>>

Under(id) == {r \in rows : r.id = id}
Messages(S) == {r.msg : r \in S}

-----------------------------------------------------------------------------
(* The client: queue_pending_message.                                      *)

(* Faulty variant: off by one. *)
CheckLimitLoosely(c) ==
    /\ sender[c] = "idle"
    /\ LET id == IF seen THEN "hex" ELSE "task"
       IN  /\ Cardinality(Under(id)) <= MaxQueued
           /\ sender' = [sender EXCEPT ![c] = id]
    /\ UNCHANGED <<rows, queued, ready, seen, proc, posted, failed, late>>

(* count_pending_messages; at the limit the request is refused. *)
CheckLimit(c) ==
    /\ sender[c] = "idle"
    /\ LET id == IF seen THEN "hex" ELSE "task"
       IN  /\ Cardinality(Under(id)) < MaxQueued
           /\ sender' = [sender EXCEPT ![c] = id]
    /\ UNCHANGED <<rows, queued, ready, seen, proc, posted, failed, late>>

(* add_message *)
AddMessage(c) ==
    /\ sender[c] # "idle" /\ queued < MaxMessages
    /\ queued' = queued + 1
    /\ rows' = rows \cup {[msg |-> queued + 1, id |-> sender[c]]}
    /\ sender' = [sender EXCEPT ![c] = "idle"]
    /\ late' = IF sender[c] = "task" /\ proc.pc \in {"idle", "rename"}
               THEN late ELSE late \cup {queued + 1}
    /\ UNCHANGED <<ready, seen, proc, posted, failed>>

SeeReady ==
    /\ ready /\ ~seen
    /\ seen' = TRUE
    /\ UNCHANGED <<rows, sender, queued, ready, proc, posted, failed, late>>

-----------------------------------------------------------------------------
(* The start: the task becomes READY, then the queue is worked off.        *)

BecomesReady ==
    /\ proc.pc = "idle"
    /\ ready' = TRUE
    /\ proc' = [proc EXCEPT !.pc = "rename"]
    /\ UNCHANGED <<rows, sender, queued, seen, posted, failed, late>>

(* update_conversation_id *)
RenameQueued ==
    /\ proc.pc = "rename"
    /\ rows' = {IF r.id = "task" THEN [r EXCEPT !.id = "conversation"] ELSE r : r \in rows}
    /\ proc' = [proc EXCEPT !.pc = "read"]
    /\ UNCHANGED <<sender, queued, ready, seen, posted, failed, late>>

(* get_pending_messages; without one there is nothing to do. *)
ReadQueued ==
    /\ proc.pc = "read"
    /\ proc' = [pc |-> IF Under("conversation") = {} THEN "over" ELSE "post",
                batch |-> Under("conversation")]
    /\ UNCHANGED <<rows, sender, queued, ready, seen, posted, failed, late>>

(* The oldest of the messages is posted, or the post fails; a time-out may *)
(* come after the agent server got it.                                     *)
PostNext ==
    /\ proc.pc = "post"
    /\ \E r \in proc.batch :
          /\ \A q \in proc.batch : r.msg <= q.msg
          /\ proc' = [proc EXCEPT !.batch = @ \ {r}]
          /\ \/ posted' = Append(posted, r.msg) /\ UNCHANGED failed
             \/ failed' = failed \cup {r.msg} /\ UNCHANGED posted
             \/ posted' = Append(posted, r.msg) /\ failed' = failed \cup {r.msg}
    /\ UNCHANGED <<rows, sender, queued, ready, seen, late>>

(* Faulty variant: all that is queued is deleted, under whichever id. *)
DeleteAll ==
    /\ proc.pc = "post" /\ proc.batch = {}
    /\ rows' = {}
    /\ proc' = [proc EXCEPT !.pc = "over"]
    /\ UNCHANGED <<sender, queued, ready, seen, posted, failed, late>>

(* delete_messages_for_conversation *)
DeleteQueued ==
    /\ proc.pc = "post" /\ proc.batch = {}
    /\ rows' = rows \ Under("conversation")
    /\ proc' = [proc EXCEPT !.pc = "over"]
    /\ UNCHANGED <<sender, queued, ready, seen, posted, failed, late>>

-----------------------------------------------------------------------------
PendingInit ==
    /\ rows = {} /\ sender = [c \in Senders |-> "idle"] /\ queued = 0
    /\ ready = FALSE /\ seen = FALSE
    /\ proc = [pc |-> "idle", batch |-> {}]
    /\ posted = <<>> /\ failed = {} /\ late = {}

ProcStep == RenameQueued \/ ReadQueued \/ PostNext \/ DeleteQueued

PendingNext ==
    \/ \E c \in Senders : CheckLimit(c) \/ AddMessage(c)
    \/ SeeReady \/ BecomesReady \/ ProcStep

PendingSpec == PendingInit /\ [][PendingNext]_pendingVars

-----------------------------------------------------------------------------
(* Properties.                                                             *)

RowType == [msg : 1 .. MaxMessages, id : {"task", "hex", "conversation"}]

(* The type invariant; the check of the limit and the insertion are two    *)
(* steps, so that concurrent requests exceed the limit, by at most one     *)
(* each.                                                                   *)
PendingTypeOK ==
    /\ rows \subseteq RowType
    /\ sender \in [Senders -> {"idle", "task", "hex"}]
    /\ queued \in 0 .. MaxMessages
    /\ ready \in BOOLEAN /\ seen \in BOOLEAN
    /\ proc \in [pc : {"idle", "rename", "read", "post", "over"}, batch : SUBSET RowType]
    /\ posted \in Seq(1 .. MaxMessages)
    /\ failed \subseteq 1 .. MaxMessages /\ late \subseteq 1 .. MaxMessages
    /\ \A id \in {"task", "hex"} : Cardinality(Under(id)) < MaxQueued + Cardinality(Senders)

(* The agent server gets messages in the order in which they were queued,  *)
(* each at most once ("Process messages sequentially to preserve order",   *)
(* _process_pending_messages).                                             *)
PostedInOrder ==
    \A m, n \in 1 .. Len(posted) : m < n => posted[m] < posted[n]

(* No accepted message vanishes: it is still in the table, being posted,   *)
(* or was posted or logged as failed, although all of the conversation's   *)
(* messages are deleted in the end and the client goes on queueing         *)
(* (update_conversation_id, get_pending_messages,                          *)
(* delete_messages_for_conversation).                                      *)
NoMessageVanishes ==
    \A m \in 1 .. queued :
        \/ m \in Messages(rows) \/ m \in Messages(proc.batch)
        \/ m \in failed \/ \E i \in 1 .. Len(posted) : posted[i] = m

(* Once the queue is worked off, what is left in it came too late: nothing *)
(* is kept for a second attempt, and what came late stays for ever.        *)
LeftIsLate ==
    proc.pc = "over" => Messages(rows) \subseteq late

(* The queue loses no accepted message, posts in order, and keeps nothing  *)
(* but what came too late.                                                 *)
QueueIsFaithful == NoMessageVanishes /\ PostedInOrder /\ LeftIsLate
=============================================================================
