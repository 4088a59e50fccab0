------------------------------ MODULE EventLog ------------------------------
(***************************************************************************)
(* What the event stream promises, without threads, queues, pools, pages   *)
(* or files: events are kept for ever, each under an identifier of its     *)
(* own; what is kept may be posted, once, to a log; every subscriber reads *)
(* that one log in its order, and those that stay read all of it.  A       *)
(* restart begins a new log and loses nothing that is kept.  EventStream   *)
(* implements this, and AgentController relies on it.                      *)
(***************************************************************************)
EXTENDS Naturals, Sequences

CONSTANTS
    LogReaders, \* the subscribers
    Staying     \* those that are there from the start to the end

VARIABLES
    kept, \* the events, with their identifiers: [id, ev]
    log,  \* what was posted since the last start, in order
    got,  \* per subscriber: what it read since the last start
    open  \* FALSE once the log is being closed

logVars == <<kept, log, got, open>>

Occurs(x, s) == \E i \in 1 .. Len(s) : s[i] = x

Keep(x) ==
    /\ \A y \in kept : y.id # x.id /\ y.ev # x.ev
    /\ kept' = kept \cup {x}
    /\ UNCHANGED <<log, got, open>>

Post(x) ==
    /\ x \in kept /\ ~Occurs(x, log)
    /\ log' = Append(log, x)
    /\ UNCHANGED <<kept, got, open>>

(* The k-th entry comes after everything that was read before it. *)
ReadEntry(s, k) ==
    /\ \A i \in 1 .. Len(got[s]) : Occurs(got[s][i], SubSeq(log, 1, k - 1))
    /\ s \in Staying => k = Len(got[s]) + 1
    /\ got' = [got EXCEPT ![s] = Append(@, log[k])]
    /\ UNCHANGED <<kept, log, open>>

CloseLog == open /\ open' = FALSE /\ UNCHANGED <<kept, log, got>>

(* A log that is being closed may lose entries nobody has read yet. *)
Drop(n) ==
    /\ ~open
    /\ log' = SubSeq(log, 1, n)
    /\ \A s \in LogReaders : \A i \in 1 .. Len(got[s]) : Occurs(got[s][i], log')
    /\ UNCHANGED <<kept, got, open>>

Restart ==
    /\ log' = << >> /\ got' = [s \in LogReaders |-> << >>] /\ open' = TRUE
    /\ UNCHANGED kept

LogInit == kept = {} /\ log = << >> /\ got = [s \in LogReaders |-> << >>] /\ open = TRUE

LogNext ==
    \/ \E x \in kept' : Keep(x) \/ Post(x)
    \/ \E s \in LogReaders, k \in 1 .. Len(log) : ReadEntry(s, k)
    \/ CloseLog
    \/ \E n \in 0 .. Len(log) : Drop(n)
    \/ Restart

LogSpec == LogInit /\ [][LogNext]_logVars
=============================================================================
