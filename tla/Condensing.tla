----------------------------- MODULE Condensing -----------------------------
(***************************************************************************)
(* The condensed history of an agent: View of openhands/memory/view.py and *)
(* the rolling condensers of openhands/memory/condenser/impl, as the agent *)
(* (agenthub/codeact_agent) and its controller use them.                   *)
(*                                                                         *)
(* An event is identified by its place in the history.  A view is a        *)
(* sequence of such places; Summary stands for the summary, which is       *)
(* inserted and is not an event of the history.                            *)
(***************************************************************************)
EXTENDS Integers, SequencesExt, Places

CONSTANTS
    MaxSize,     \* max_size of the condensers
    KeepFirst,   \* keep_first of the condensers
    MaxUser,     \* bound: messages of the user
    MaxHistory   \* bound: events

(* The checks of the condensers' constructors. *)
ASSUME CondensingAssumption ==
    /\ MaxSize \in Nat \ {0} /\ KeepFirst \in Nat
    /\ KeepFirst < MaxSize \div 2
    /\ MaxUser \in Nat /\ MaxHistory \in Nat \ {0}

Condensers == {"amortized", "summarizing", "window", "pipeline"}

VARIABLES
    condenser,  \* the condenser of the agent; "none": not configured yet
    history,    \* the events
    planned,    \* the condensation that is computed and not yet in the history
    raised,     \* whether the condenser raised, which ends the agent
    arrived     \* events that arrived while the last condensation was computed

condensingVars == <<condenser, history, planned, raised, arrived>>

Summary == 0
NothingPlanned == [forgotten |-> {}, summary |-> FALSE, active |-> FALSE]
Event(kind, cause) == [kind |-> kind, cause |-> cause, forgotten |-> {}, summary |-> FALSE]
Room(n) == Len(history) + n <= MaxHistory
Is(i, kind) == i # Summary /\ history[i].kind = kind

-----------------------------------------------------------------------------
(* View.from_events *)
Forgotten(h) == UNION {
    IF h[i].kind = "condensation" THEN h[i].forgotten \cup {i}
    ELSE IF h[i].kind = "request" THEN {i} ELSE {} : i \in 1 .. Len(h)}

HasSummary(h) ==
    \E i \in 1 .. Len(h) : h[i].kind = "condensation" /\ h[i].summary

Kept(h) == 1 .. Len(h) \ Forgotten(h)

(* The summary is inserted at its offset, or at the end of a shorter list. *)
View(h) ==
    LET kept == InOrder(Kept(h))
        at == Min({KeepFirst, Len(kept)})
    IN IF HasSummary(h) THEN InsertAt(kept, at + 1, Summary) ELSE kept

(* Faulty variant: a condensation does not answer a request. *)
RequestMade(h) == \E i \in 1 .. Len(h) : h[i].kind = "request"

(* unhandled_condensation_request *)
RequestUnhandled(h) ==
    \E i \in 1 .. Len(h) :
       /\ h[i].kind = "request"
       /\ \A j \in i + 1 .. Len(h) : h[j].kind # "condensation"

-----------------------------------------------------------------------------
(* should_condense *)
TooLong(v) == Len(v) > MaxSize

ShouldCondense(c, v) ==
    \/ RequestUnhandled(history)
    \/ c # "window" /\ TooLong(v)

(* The condenser of a pipeline that answers: the first that should. *)
Chosen == CASE condenser # "pipeline" -> condenser
            [] condenser = "pipeline" /\ RequestUnhandled(history) -> "window"
            [] OTHER -> "summarizing"

(* The last n elements. *)
LastOf(v, n) == {v[i] : i \in {j \in 1 .. Len(v) : j > Len(v) - n}}
HeadOf(v) == {v[i] : i \in {j \in 1 .. Len(v) : j <= KeepFirst}}
HeadSize(v) == Min({KeepFirst, Len(v)})

(* A range of identifiers forgets all that lies between its ends. *)
AsRange(S) == IF S = {} THEN {} ELSE Min(S) .. Max(S)

(* AmortizedForgettingCondenser: the head and the tail remain. *)
AmortizedForgets(v) ==
    AsRange({v[i] : i \in 1 .. Len(v)} \ (HeadOf(v) \cup LastOf(v, MaxSize \div 2 - HeadSize(v))))

(* Faulty variant: the range reaches to the newest event. *)
SummaryForgetsToEnd(v) ==
    LET start == {v[i] : i \in KeepFirst + 1 .. Len(v)} \ {Summary}
    IN IF start = {} THEN {} ELSE Min(start) .. MaxHistory

(* LLMSummarizingCondenser: view[keep_first : -events_from_tail]; with no  *)
(* event from the tail the slice is empty.                                 *)
SummaryForgets(v) ==
    LET tail == MaxSize \div 2 - HeadSize(v) - 1
    IN IF tail = 0 THEN {}
       ELSE AsRange({v[i] : i \in KeepFirst + 1 .. Len(v) - tail} \ {Summary})

-----------------------------------------------------------------------------
(* ConversationWindowCondenser *)
IsObservation(i) == i = Summary \/ history[i].kind = "observation"

(* The system message, the first user message, its recall and the answer.  *)
Essential(v) ==
    LET ids == {v[i] : i \in 1 .. Len(v)}
        system == {i \in ids : Is(i, "system")}
        user == Min({i \in ids : Is(i, "user")})
        recall == {i \in ids : Is(i, "recall") /\ history[i].cause = user}
        answer == {i \in ids : i # Summary /\ history[i].kind = "observation"
                               /\ history[i].cause \in recall}
    IN system \cup {user} \cup recall \cup answer

(* About half of the others, from the end, without leading observations.   *)
Recent(v, essential) ==
    LET others == Len(v) - Cardinality(essential)
        keep == Max({1, others \div 2})
        valid == {i \in Len(v) - keep + 1 .. Len(v) : ~IsObservation(v[i])}
    IN IF valid = {} THEN {} ELSE {v[i] : i \in Min(valid) .. Len(v)}

WindowForgets(v) ==
    LET ids == {v[i] : i \in 1 .. Len(v)}
    IN IF \A i \in ids : ~Is(i, "user") THEN {}
       ELSE ids \ (Essential(v) \cup Recent(v, Essential(v)))

-----------------------------------------------------------------------------
(* Condenser.from_config *)
Configure(c) ==
    /\ condenser = "none" /\ condenser' = c
    /\ UNCHANGED <<history, planned, raised, arrived>>

Arrives(kind, cause) ==
    /\ condenser # "none" /\ Room(1)
    /\ history' = Append(history, Event(kind, cause))
    /\ arrived' = IF planned.active THEN arrived \cup {Len(history) + 1} ELSE arrived
    /\ UNCHANGED <<condenser, planned, raised>>

(* A message of the user, the recall for it, and the answer to a recall or *)
(* to an action.                                                           *)
UserMessage ==
    /\ Cardinality({i \in 1 .. Len(history) : history[i].kind = "user"}) < MaxUser
    /\ Arrives("user", 0)

Answered(i) == \E j \in i + 1 .. Len(history) : history[j].cause = i

Recall(u) == Is(u, "user") /\ ~Answered(u) /\ Arrives("recall", u)

Observe(a) ==
    /\ history[a].kind \in {"recall", "action"} /\ ~Answered(a)
    /\ Arrives("observation", a)

(* The agent steps when nothing is pending. *)
MayStep ==
    /\ condenser # "none" /\ ~planned.active /\ ~raised
    /\ \E i \in 1 .. Len(history) : history[i].kind = "user"
    /\ \A i \in 1 .. Len(history) : history[i].kind \in {"recall", "action"} => Answered(i)

(* The language model answers with an action, or finds the prompt too long *)
(* and the controller asks for a condensation.                             *)
Act(kind) ==
    /\ MayStep /\ ~ShouldCondense(condenser, View(history))
    /\ Arrives(kind, 0)

(* get_condensation.  The minimum of no identifiers raises; so does the    *)
(* look at the event after the head when there is none.                    *)
Condense ==
    /\ MayStep /\ ShouldCondense(condenser, View(history))
    /\ LET v == View(history)
           f == CASE Chosen = "amortized" -> AmortizedForgets(v)
                  [] Chosen = "summarizing" -> SummaryForgets(v)
                  [] OTHER -> WindowForgets(v)
       IN IF f = {} /\ Chosen # "window"
          THEN raised' = TRUE /\ UNCHANGED <<planned, arrived>>
          ELSE /\ planned' = [forgotten |-> f, summary |-> Chosen = "summarizing",
                              active |-> TRUE]
               /\ arrived' = {} /\ UNCHANGED raised
    /\ UNCHANGED <<condenser, history>>

(* The condensation becomes an event. *)
AddCondensation ==
    /\ planned.active /\ Room(1)
    /\ history' = Append(history,
          [kind |-> "condensation", cause |-> 0,
           forgotten |-> planned.forgotten, summary |-> planned.summary])
    /\ planned' = NothingPlanned
    /\ UNCHANGED <<condenser, raised, arrived>>

CondensingInit ==
    /\ condenser = "none"
    /\ history = <<Event("system", 0)>>
    /\ planned = NothingPlanned /\ raised = FALSE /\ arrived = {}

CondensingNext ==
    \/ \E c \in Condensers : Configure(c)
    \/ UserMessage
    \/ \E i \in 1 .. Len(history) : Recall(i) \/ Observe(i)
    \/ \E kind \in {"action", "request"} : Act(kind)
    \/ Condense \/ AddCondensation

CondensingSpec == CondensingInit /\ [][CondensingNext]_condensingVars

-----------------------------------------------------------------------------
(* Properties.                                                             *)

(* A condensation does what it is for: the agent is not asked to condense  *)
(* again at once, by the size or by the request, unless events arrived.    *)
(* Only where the window of a pipeline answered a request may the view     *)
(* still be too long for the condenser after it.                           *)
CondensationSettles ==
    LET last == history[Len(history)]
    IN last.kind = "condensation" /\ arrived = {} /\ ~planned.active =>
          /\ ~RequestUnhandled(history)
          /\ condenser # "pipeline" \/ last.summary => ~ShouldCondense(condenser, View(history))

(* No event is forgotten that the condenser did not see, although ranges   *)
(* of identifiers are forgotten and events arrive while the summary is     *)
(* written.                                                                *)
ArrivedIsKept == arrived \cap Forgotten(history) = {}

(* The window never loses the task: the first message of the user stays in *)
(* the view through any number of condensations.                           *)
FirstMessageStays ==
    condenser = "window" =>
       LET users == {i \in 1 .. Len(history) : history[i].kind = "user"}
       IN users # {} => Min(users) \notin Forgotten(history)

(* The type invariant.  A view has its events in their order, and at most  *)
(* one summary, which follows the head.                                    *)
CondensingTypeOK ==
    /\ condenser \in Condensers \cup {"none"}
    /\ Len(history) \in 1 .. MaxHistory
    /\ planned.forgotten \subseteq 0 .. MaxHistory
    /\ arrived \subseteq 2 .. MaxHistory
    /\ LET v == View(history)
       IN /\ \A i, j \in 1 .. Len(v) : i < j /\ v[j] # Summary => v[i] < v[j]
          /\ \A i \in 1 .. Len(v) : v[i] = Summary => i <= KeepFirst + 1

(* Nothing needed is forgotten: neither events the condenser did not see   *)
(* nor the task.                                                           *)
NothingNeededForgotten == ArrivedIsKept /\ FirstMessageStays
=============================================================================
