-------------------------- MODULE AgentController --------------------------
(***************************************************************************)
(* The loop that runs an agent: openhands/controller/agent_controller.py   *)
(* with its control flags, between the runtime that executes actions       *)
(* (openhands/runtime/base.py), the memory that answers recalls            *)
(* (openhands/memory/memory.py), the web session that turns status errors  *)
(* into the ERROR state (openhands/server/session/session.py) and the user.*)
(*                                                                         *)
(* All talk through the event stream, taken at its promise (EventLog):     *)
(* one log, delivered to every subscriber in the order of the log and one  *)
(* event at a time.  The controller's callback blocks its pool thread      *)
(* while the LLM is called, so a step has two actions: one up to the call, *)
(* one from its return.  Meanwhile the session's event loop may set ERROR. *)
(* A delegate does not subscribe: its parent forwards events to it.        *)
(***************************************************************************)
EXTENDS Integers, Sequences, FiniteSets

CONSTANTS
    ConfirmationMode, \* config.security.confirmation_mode
    Outcomes,         \* what agent.step may do
    UserInputs,       \* what the user may send
    InitialLimit,     \* max_iterations: the limit, and what it grows by
    InitialBudget,    \* max_budget_per_task in LLM calls; 0: no budget flag
    MayGetStuck,      \* whether the stuck detector may fire
    MaxInputs,        \* bound: inputs of the user
    MaxFaults         \* bound: actions and recalls that raise

AllOutcomes == {"run", "ask", "askUngated", "think", "message", "wait", "finish",
                "reject", "delegate", "delegateIdle", "condense", "malformed",
                "failure", "rateLimit", "rateLimitExhausted"}
AllInputs   == {"message", "stop", "confirm", "refuse"}

ASSUME ConfigAssumption ==
    /\ ConfirmationMode \in BOOLEAN
    /\ MayGetStuck \in BOOLEAN
    /\ Outcomes \subseteq AllOutcomes
    /\ UserInputs \subseteq AllInputs
ASSUME LimitsAssumption ==
    /\ InitialLimit \in Nat \ {0}
    /\ InitialBudget \in Nat
    /\ MaxInputs \in Nat
    /\ MaxFaults \in Nat

VARIABLES
    stream,    \* the events, in the order every subscriber gets them
    handled,   \* how many events the controller's callback got
    ran,       \* ...the runtime's
    recalled,  \* ...the memory's
    ctl,       \* per controller: agent state, pending action, history, last error
    delegated, \* whether self.delegate is set
    stepping,  \* whose LLM call is under way
    flags,     \* iteration_flag and budget_flag, shared by parent and delegate
    errors,    \* status errors queued on the session's event loop
    running,   \* the event whose action the runtime executes; 0: idle
    executed,  \* the events whose action the runtime began to execute
    inputs,    \* inputs of the user so far
    faults     \* actions and recalls that raised so far

controllerVars == <<handled, ctl, delegated, stepping, flags>>
runtimeVars    == <<ran, running, executed>>
vars == <<stream, controllerVars, runtimeVars, recalled, errors, inputs, faults>>

Controllers == {"parent", "delegate"}
AgentStates == {"LOADING", "RUNNING", "AWAITING_USER_INPUT", "STOPPED", "FINISHED",
                "REJECTED", "ERROR", "AWAITING_USER_CONFIRMATION", "USER_CONFIRMED",
                "USER_REJECTED", "RATE_LIMITED"}

(***************************************************************************)
(* Events.  cause is the index of the event an observation answers (0:     *)
(* none) or of the message a recall asks about; an event's id is its index *)
(* less one.  act stands for tool_call_metadata: the number of the LLM     *)
(* call that produced the action (0: none).                                *)
(***************************************************************************)
Event(k, x, cause, act) == [k |-> k, x |-> x, cause |-> cause, act |-> act]
ActionKinds  == {"message", "change", "recall", "run", "think", "finish", "reject",
                 "delegate", "condense"}
Confirmation == {"confirmed", "awaiting", "rejected"}
Answers      == {"result", "error", "refused", "recalled", "null", "notExecuted",
                 "delegated"}

IsAction(e)    == e.k \in ActionKinds
IsState(e, s)  == e.k = "state" /\ e.x = s
FromUser(e)    == e.k = "message" /\ e.x \in {"user", "task"}
IsChange(e, s) == e.k = "change" /\ e.x = s

(* answered: acts with an observation in the history.  asked, a history    *)
(* component: acts the controller asked the user to confirm.  lastDelegate:*)
(* act of the last AgentDelegateAction in the history.                     *)
NoAction == [k |-> "none", id |-> 0, act |-> 0, gated |-> FALSE]
Fresh    == [state |-> "LOADING", pending |-> NoAction, answered |-> {}, asked |-> {},
             lastDelegate |-> 0, err |-> "none", nested |-> FALSE]

(* What a handler reads and writes; a handler is a function on it. *)
World == [stream |-> stream, ctl |-> ctl, delegated |-> delegated,
          stepping |-> stepping, flags |-> flags, errors |-> errors]

Becomes(w) ==
    /\ stream'    = w.stream
    /\ ctl'       = w.ctl
    /\ delegated' = w.delegated
    /\ stepping'  = w.stepping
    /\ flags'     = w.flags
    /\ errors'    = w.errors

Emit(w, e) == [w EXCEPT !.stream = Append(@, e)]

HasPending(w, c) == w.ctl[c].pending # NoAction

-----------------------------------------------------------------------------
(* The control flags.                                                      *)

(* Faulty variant: the limit is reached one call late. *)
ReachedOneLate(value, max) == value > max

ReachedLimit(value, max) == value >= max

IncreaseLimits(f) ==
    [f EXCEPT !.maxIter = IF f.hitIter THEN @ + InitialLimit ELSE @,
              !.hitIter = FALSE,
              !.maxCost = IF f.hitCost THEN f.cost + InitialBudget ELSE @,
              !.hitCost = FALSE]

(* run_control_flags; the budget is looked at only after the iteration was *)
(* counted.                                                                *)
StepFlags(f) ==
    LET hit == ReachedLimit(f.iter, f.maxIter)
    IN  IF hit THEN [f EXCEPT !.hitIter = TRUE]
        ELSE [f EXCEPT !.hitIter = FALSE,
                       !.iter = @ + 1,
                       !.hitCost = InitialBudget # 0 /\ ReachedLimit(f.cost, f.maxCost)]

-----------------------------------------------------------------------------
(* set_agent_state_to and what it calls.                                   *)

(* _reset: the observation the pending action will not get otherwise. *)
Reset(w, c) ==
    LET p == w.ctl[c].pending
        told == HasPending(w, c) /\ p.act \notin w.ctl[c].answered
        w1 == IF told THEN Emit(w, Event("obs", "notExecuted", p.id, p.act)) ELSE w
    IN  [w1 EXCEPT !.ctl[c].pending = NoAction]

(* What the stream holds of a runnable action.  Events are added as the    *)
(* copy event_to_dict makes of the declared fields, and only CmdRunAction  *)
(* and IPythonRunCellAction (gated) declare confirmation_state.            *)
RunEvent(p, conf) == Event("run", IF p.gated THEN conf ELSE "confirmed", 0, p.act)

(* Faulty variant: the pending action keeps no id when it is added again. *)
ReissueWithoutId(w, c, conf) ==
    LET p == w.ctl[c].pending
        e == IF p.k = "recall" THEN w.stream[p.id] ELSE RunEvent(p, conf)
    IN  [Emit(w, e) EXCEPT !.ctl[c].pending.id = -1]

(* The pending action is added again, with the user's answer. *)
Reissue(w, c, conf) ==
    LET p == w.ctl[c].pending
        e == IF p.k = "recall" THEN w.stream[p.id] ELSE RunEvent(p, conf)
    IN  [Emit(w, e) EXCEPT !.ctl[c].pending.id = Len(w.stream) + 1]

Enter(w, c, new) ==
    LET old == w.ctl[c].state
        w1 == [w EXCEPT !.ctl[c].state = new]
        w2 == IF new \in {"STOPPED", "ERROR"} THEN Reset(w1, c) ELSE w1
        w3 == IF old = "ERROR" /\ new = "RUNNING"
              THEN [w2 EXCEPT !.flags = IncreaseLimits(@)] ELSE w2
        w4 == IF new = "USER_CONFIRMED" /\ HasPending(w3, c)
              THEN Reissue(w3, c, "confirmed")
              ELSE IF new = "USER_REJECTED" /\ HasPending(w3, c)
              THEN Reissue(w3, c, "rejected") ELSE w3
    IN  Emit(w4, Event("state", new, 0, 0))

(* Faulty variant: no early return when the state does not change. *)
SetAnyState(w, c, new) == Enter(w, c, new)

SetState(w, c, new) == IF w.ctl[c].state = new THEN w ELSE Enter(w, c, new)

(* _react_to_exception.  Only the parent has a status callback: it queues  *)
(* one more ERROR for the parent.  last_error is never cleared.            *)
ReactToException(w, c, err) ==
    LET w1 == [w EXCEPT !.ctl[c].err = err,
                        !.errors = IF c = "parent" THEN @ + 1 ELSE @]
    IN  SetState(w1, c, "ERROR")

-----------------------------------------------------------------------------
(* _handle_action                                                          *)

HandleMessage(w, c, i) ==
    LET e  == w.stream[i]
        w1 == [w EXCEPT !.ctl[c].pending =
                   [k |-> "recall", id |-> Len(w.stream) + 1, act |-> 0, gated |-> FALSE]]
    IN  CASE FromUser(e)    -> SetState(Emit(w1, Event("recall", "none", i, 0)), c, "RUNNING")
          [] e.x = "wait"   -> SetState(w, c, "AWAITING_USER_INPUT")
          [] e.x = "plain"  -> w

(* start_delegate, then the task, if the action has one, as a user         *)
(* message.  A delegate that gets a delegate action starts one of its own, *)
(* which no event ever reaches.                                            *)
StartDelegate(w, c, i) ==
    LET w1 == IF c = "parent" THEN [w EXCEPT !.delegated = TRUE, !.ctl["delegate"] = Fresh]
                              ELSE [w EXCEPT !.ctl[c].nested = TRUE]
        w2 == Emit(w1, Event("message", "task", 0, 0))
    IN  CASE w.stream[i].x # "task" -> w1
          [] w.stream[i].x = "task" /\ c = "parent" -> SetState(w2, "delegate", "RUNNING")
          [] OTHER -> Emit(w2, Event("state", "RUNNING", 0, 0))

HandleAction(w, c, i) ==
    LET e == w.stream[i]
    IN  CASE e.k = "change"   -> SetState(w, c, e.x)
          [] e.k = "message"  -> HandleMessage(w, c, i)
          [] e.k = "delegate" -> StartDelegate(w, c, i)
          [] e.k = "finish"   -> SetState(w, c, "FINISHED")
          [] e.k = "reject"   -> SetState(w, c, "REJECTED")
          [] e.k \in {"recall", "run", "think", "condense"} -> w

(* _handle_observation *)
HandleObservation(w, c, i) ==
    LET p == w.ctl[c].pending
        s == w.ctl[c].state
        answers == p # NoAction /\ w.stream[i].cause = p.id
        w1 == [w EXCEPT !.ctl[c].pending = NoAction]
    IN  CASE ~answers \/ s = "AWAITING_USER_CONFIRMATION" -> w
          [] answers /\ s = "USER_CONFIRMED" -> SetState(w1, c, "RUNNING")
          [] answers /\ s = "USER_REJECTED"  -> SetState(w1, c, "AWAITING_USER_INPUT")
          [] OTHER -> w1

(* add_history drops null observations and state changes. *)
AddHistory(w, c, i) ==
    LET e == w.stream[i]
    IN  CASE e.k = "obs" /\ e.x # "null" -> [w EXCEPT !.ctl[c].answered = @ \cup {e.act}]
          [] e.k = "delegate" -> [w EXCEPT !.ctl[c].lastDelegate = e.act]
          [] OTHER -> w

Handle(w, c, i) ==
    IF IsAction(w.stream[i]) THEN HandleAction(AddHistory(w, c, i), c, i)
                             ELSE HandleObservation(AddHistory(w, c, i), c, i)

HasDelegate(w, c) == IF c = "parent" THEN w.delegated ELSE w.ctl[c].nested

(* Faulty variant: a null observation never makes the agent step. *)
ShouldStepNotOnNull(w, c, i) ==
    LET e == w.stream[i]
    IN  /\ ~HasDelegate(w, c)
        /\ \/ FromUser(e) \/ e.k \in {"delegate", "condense"}
           \/ e.k = "message" /\ w.ctl[c].state # "AWAITING_USER_INPUT"
           \/ e.k = "obs" /\ e.x # "null"

(* should_step, asked after the event was handled. *)
ShouldStep(w, c, i) ==
    LET e == w.stream[i]
    IN  /\ ~HasDelegate(w, c)
        /\ \/ FromUser(e) \/ e.k \in {"delegate", "condense"}
           \/ e.k = "message" /\ w.ctl[c].state # "AWAITING_USER_INPUT"
           \/ e.k = "obs" /\ (e.x = "null" => e.cause > 1)

(* _step up to the call of the LLM. *)
Step(w, c, stuck) ==
    LET f == StepFlags(w.flags)
        w1 == [w EXCEPT !.flags = f]
    IN  CASE w.ctl[c].state # "RUNNING" \/ HasPending(w, c) -> w
          [] OTHER -> CASE stuck -> ReactToException(w, c, "other")
                        [] ~stuck /\ f.hitIter -> ReactToException(w1, c, "limit")
                        [] ~stuck /\ f.hitCost -> ReactToException(w1, c, "other")
                        [] OTHER -> [w1 EXCEPT !.stepping = c]

-----------------------------------------------------------------------------
(* on_event                                                                *)

Ended == {"FINISHED", "ERROR", "REJECTED"}

(* Where the event goes.  A delegate that ever hit the iteration limit is  *)
(* never ended; the text for the budget limit does not match the error's.  *)
Target ==
    CASE ~delegated -> "parent"
      [] delegated /\ (ctl["delegate"].state \notin Ended \/ ctl["delegate"].err = "limit")
            -> "delegate"
      [] OTHER -> "end"

CallbackMayRun == stepping = "none" /\ handled < Len(stream)

OnEvent(c) ==
    /\ CallbackMayRun
    /\ Target = c
    /\ handled' = handled + 1
    /\ LET w == Handle(World, c, handled + 1)
       IN  \/ ShouldStep(w, c, handled + 1)
              /\ \E stuck \in {FALSE, MayGetStuck} : Becomes(Step(w, c, stuck))
           \/ ~ShouldStep(w, c, handled + 1) /\ Becomes(w)
    /\ UNCHANGED <<runtimeVars, recalled, inputs, faults>>

(* close() stops the delegate; its result answers the last delegate action *)
(* in the parent's history.                                                *)
Report(w) == Emit(SetState(w, "delegate", "STOPPED"),
                  Event("obs", "delegated", 0, w.ctl["parent"].lastDelegate))

(* Faulty variant: the delegate is closed and reported, and kept. *)
EndDelegateKept ==
    /\ CallbackMayRun
    /\ Target = "end"
    /\ handled' = handled + 1
    /\ Becomes(Report(World))
    /\ UNCHANGED <<runtimeVars, recalled, inputs, faults>>

(* end_delegate; the event that led to it is handled by nobody. *)
EndDelegate ==
    /\ CallbackMayRun
    /\ Target = "end"
    /\ handled' = handled + 1
    /\ Becomes([Report(World) EXCEPT !.delegated = FALSE, !.ctl["delegate"] = Fresh])
    /\ UNCHANGED <<runtimeVars, recalled, inputs, faults>>

-----------------------------------------------------------------------------
(* _step from the return of the LLM.  The state is not looked at again.    *)

Runnable(w, c, gated, conf) ==
    LET p == [k |-> "run", id |-> Len(w.stream) + 1, act |-> w.flags.iter, gated |-> gated]
    IN  Emit([w EXCEPT !.ctl[c].pending = p], RunEvent(p, conf))

(* The state change is added before the action it is about. *)
Ask(w, c, gated) ==
    LET v == SetState(w, c, "AWAITING_USER_CONFIRMATION")
    IN  [Runnable(v, c, gated, "awaiting") EXCEPT !.ctl[c].asked = @ \cup {w.flags.iter}]

Produce(w, c, o) ==
    LET act == w.flags.iter
    IN  CASE o = "run"        -> Runnable(w, c, TRUE, "confirmed")
          [] o = "ask"        -> Ask(w, c, TRUE)
          [] o = "askUngated" -> Ask(w, c, FALSE)
          [] o = "message" -> Emit(w, Event("message", "plain", 0, act))
          [] o = "wait"    -> Emit(w, Event("message", "wait", 0, act))
          [] o = "malformed" -> Emit(w, Event("obs", "error", 0, 0))
          [] o = "condense"  -> Emit(w, Event("condense", "none", 0, 0))
          [] o = "failure"   -> ReactToException(w, c, "other")
          [] o = "rateLimit" -> IF c = "parent" THEN SetState(w, c, "RATE_LIMITED")
                                ELSE ReactToException(w, c, "other")
          [] o = "rateLimitExhausted" ->
                IF c = "parent" THEN SetState([w EXCEPT !.ctl[c].err = "other"], c, "ERROR")
                ELSE ReactToException(w, c, "other")
          [] o = "delegate"     -> Emit(w, Event("delegate", "task", 0, act))
          [] o = "delegateIdle" -> Emit(w, Event("delegate", "none", 0, act))
          [] o \in {"think", "finish", "reject"} -> Emit(w, Event(o, "none", 0, act))

(* A delegate is created without confirmation mode, and does not delegate. *)
MayProduce(c, o) ==
    /\ o \in {"ask", "askUngated"} => ConfirmationMode /\ c = "parent"
    /\ o \in {"delegate", "delegateIdle"} => c = "parent"

LlmReturns(o) ==
    /\ stepping # "none"
    /\ MayProduce(stepping, o)
    /\ LET w == [World EXCEPT !.stepping = "none", !.flags.cost = @ + 1]
       IN  Becomes(Produce(w, stepping, o))
    /\ UNCHANGED <<handled, runtimeVars, recalled, inputs, faults>>

(* Session._send_status_message, run later by the session's event loop. *)
ApplyStatusError ==
    /\ errors > 0
    /\ Becomes(SetState([World EXCEPT !.errors = @ - 1], "parent", "ERROR"))
    /\ UNCHANGED <<handled, runtimeVars, recalled, inputs, faults>>

-----------------------------------------------------------------------------
(* The runtime.  Its callback ignores observations, and actions that give  *)
(* a NullObservation: they are skipped.                                    *)

(* Faulty variant: an action is executed while it waits for confirmation. *)
ExecutesAny(e) == e.k = "run" /\ e.x # "rejected"

Executes(e) == e.k = "run" /\ e.x = "confirmed"

Replies(e) == e.k = "think" \/ (e.k = "run" /\ e.x = "rejected")

NextOf(P(_), from) ==
    CHOOSE i \in (from + 1) .. Len(stream) :
        P(stream[i]) /\ \A j \in (from + 1) .. (i - 1) : ~P(stream[j])

Waiting(P(_), from) == \E i \in (from + 1) .. Len(stream) : P(stream[i])

ForRuntime(e) == Executes(e) \/ Replies(e)

RuntimeTakes ==
    /\ running = 0
    /\ Waiting(ForRuntime, ran)
    /\ LET i == NextOf(ForRuntime, ran)
           e == stream[i]
       IN  /\ ran' = i
           /\ \/ /\ Executes(e)
                 /\ running' = i
                 /\ executed' = executed \cup {i}
                 /\ UNCHANGED stream
              \/ /\ Replies(e)
                 /\ stream' = Append(stream, Event("obs",
                        IF e.k = "think" THEN "result" ELSE "refused", i, e.act))
                 /\ UNCHANGED <<running, executed>>
    /\ UNCHANGED <<controllerVars, recalled, errors, inputs, faults>>

RuntimeFinishes ==
    /\ running # 0
    /\ stream' = Append(stream, Event("obs", "result", running, stream[running].act))
    /\ running' = 0
    /\ UNCHANGED <<controllerVars, ran, executed, recalled, errors, inputs, faults>>

(* Faulty variant: the exception is logged and nothing else. *)
RuntimeRaisesSilently ==
    /\ running # 0
    /\ faults < MaxFaults
    /\ faults' = faults + 1
    /\ running' = 0
    /\ UNCHANGED <<stream, controllerVars, ran, executed, recalled, errors, inputs>>

(* The exception becomes a status error, and no observation is added. *)
RuntimeRaises ==
    /\ running # 0
    /\ faults < MaxFaults
    /\ faults' = faults + 1
    /\ errors' = errors + 1
    /\ running' = 0
    /\ UNCHANGED <<stream, controllerVars, ran, executed, recalled, inputs>>

(* The memory answers recalls, and nothing else. *)
IsRecall(e) == e.k = "recall"

MemoryAnswers ==
    /\ Waiting(IsRecall, recalled)
    /\ LET i == NextOf(IsRecall, recalled)
       IN  /\ recalled' = i
           /\ \E x \in {"recalled", "null"} : stream' = Append(stream, Event("obs", x, i, 0))
    /\ UNCHANGED <<controllerVars, runtimeVars, errors, inputs, faults>>

MemoryRaises ==
    /\ Waiting(IsRecall, recalled)
    /\ faults < MaxFaults
    /\ faults' = faults + 1
    /\ recalled' = NextOf(IsRecall, recalled)
    /\ errors' = errors + 1
    /\ UNCHANGED <<stream, controllerVars, runtimeVars, inputs>>

-----------------------------------------------------------------------------
(* The user, through the web client.                                       *)

InputEvent(input) ==
    CASE input = "message" -> Event("message", "user", 0, 0)
      [] input = "stop"    -> Event("change", "STOPPED", 0, 0)
      [] input = "confirm" -> Event("change", "USER_CONFIRMED", 0, 0)
      [] input = "refuse"  -> Event("change", "USER_REJECTED", 0, 0)

(* What the client offers follows what it was sent, with any delay: a      *)
(* state it was ever in may be the one it shows.  The shortcuts of an      *)
(* action stay active when it was answered, and an answer names no action. *)
Offered(input) ==
    CASE input = "message" -> TRUE
      [] input = "stop"    -> \E i \in 1 .. Len(stream) : IsState(stream[i], "RUNNING")
      [] input \in {"confirm", "refuse"} ->
            \E i \in 1 .. Len(stream) : IsState(stream[i], "AWAITING_USER_CONFIRMATION")

UserSends(input) ==
    /\ inputs < MaxInputs
    /\ Offered(input)
    /\ inputs' = inputs + 1
    /\ stream' = Append(stream, InputEvent(input))
    /\ UNCHANGED <<controllerVars, runtimeVars, recalled, errors, faults>>

-----------------------------------------------------------------------------
(* AgentSession.start, with and without an initial message. *)
Init ==
    /\ stream \in {<<Event("message", "user", 0, 0), Event("change", "RUNNING", 0, 0)>>,
                   <<Event("change", "AWAITING_USER_INPUT", 0, 0)>>}
    /\ handled = 0
    /\ ran = 0
    /\ recalled = 0
    /\ ctl = [c \in Controllers |-> Fresh]
    /\ delegated = FALSE
    /\ stepping = "none"
    /\ flags = [iter |-> 0, maxIter |-> InitialLimit, hitIter |-> FALSE,
                cost |-> 0, maxCost |-> InitialBudget, hitCost |-> FALSE]
    /\ errors = 0
    /\ running = 0
    /\ executed = {}
    /\ inputs = 0
    /\ faults = 0

ControllerNext == (\E c \in Controllers : OnEvent(c)) \/ EndDelegate
LlmNext == \E o \in Outcomes : LlmReturns(o)

Next ==
    \/ ControllerNext
    \/ LlmNext
    \/ ApplyStatusError
    \/ RuntimeTakes \/ RuntimeFinishes \/ RuntimeRaises
    \/ MemoryAnswers \/ MemoryRaises
    \/ \E input \in UserInputs : UserSends(input)

Spec == Init /\ [][Next]_vars

(* Pool threads, the event loop, the LLM client (which has a timeout), the *)
(* runtime (whose actions have one) and the memory all make progress.      *)
Fairness ==
    /\ WF_vars(ControllerNext)
    /\ WF_vars(LlmNext)
    /\ WF_vars(ApplyStatusError)
    /\ WF_vars(RuntimeTakes)
    /\ WF_vars(RuntimeFinishes \/ RuntimeRaises)
    /\ WF_vars(MemoryAnswers \/ MemoryRaises)

FairSpec == Spec /\ Fairness

-----------------------------------------------------------------------------
(* Properties.                                                             *)

EventType == [k : ActionKinds \cup {"obs", "state"},
              x : AgentStates \cup Confirmation \cup Answers
                  \cup {"user", "task", "wait", "plain", "none"},
              cause : Nat, act : Nat]
PendingType == [k : {"none", "recall", "run"}, id : Nat, act : Nat, gated : BOOLEAN]
CtlType == [state : AgentStates, pending : PendingType, answered : SUBSET Nat,
            asked : SUBSET Nat, lastDelegate : Nat, err : {"none", "limit", "other"}, nested : BOOLEAN]
FlagsType == [iter : Nat, maxIter : Nat, hitIter : BOOLEAN,
              cost : Nat, maxCost : Nat, hitCost : BOOLEAN]

(* The type invariant.  Every cursor points into the log, and the action   *)
(* the runtime executes is an event of the log.                            *)
TypeOK ==
    /\ stream \in Seq(EventType)
    /\ handled \in 0 .. Len(stream)
    /\ ran \in 0 .. Len(stream)
    /\ recalled \in 0 .. Len(stream)
    /\ ctl \in [Controllers -> CtlType]
    /\ delegated \in BOOLEAN
    /\ stepping \in Controllers \cup {"none"}
    /\ flags \in FlagsType
    /\ errors \in Nat
    /\ running \in 0 .. Len(stream)
    /\ executed \subseteq 1 .. Len(stream)
    /\ inputs \in 0 .. MaxInputs
    /\ faults \in 0 .. MaxFaults

Confirms(n) == Cardinality({k \in 1 .. n : IsChange(stream[k], "USER_CONFIRMED")})

(* An execution the user has to answer for: of an action he was asked      *)
(* about, or of one that was executed before.                              *)
NeedsConfirm(i) ==
    \/ stream[i].act \in ctl["parent"].asked
    \/ \E j \in executed : j < i /\ stream[j].act = stream[i].act

(* Confirmation mode: every execution of an action the controller asked    *)
(* the user about, and every repeated execution, is paid for by a          *)
(* confirmation of its own, sent before the action was released: one       *)
(* answer lets one action through, though answers arrive late, twice and   *)
(* contradict each other.  Which action it lets through the code does not  *)
(* say: an answer names none (_step, set_agent_state_to,                   *)
(* Runtime._handle_action).                                                *)
NoUnconfirmedExecution ==
    \A i \in executed : NeedsConfirm(i) =>
        Cardinality({j \in executed : j <= i /\ NeedsConfirm(j)}) <= Confirms(i - 1)

(* Repeating an answer changes nothing: an action the user was asked about *)
(* is executed again only if the agent was in another state than           *)
(* USER_CONFIRMED in between, though it is added to the stream again at    *)
(* every answer (set_agent_state_to's early return, the runtime's          *)
(* confirmation check).                                                    *)
ReleasedOncePerAnswer ==
    \A i, j \in executed :
        i < j /\ stream[i].act = stream[j].act /\ stream[i].act \in ctl["parent"].asked =>
            \E s \in i + 1 .. j - 1 : stream[s].k = "state" /\ stream[s].x # "USER_CONFIRMED"

(* The controller whose turn it is. *)
Active == IF delegated THEN "delegate" ELSE "parent"

AtWork(c) ==
    LET p == ctl[c].pending
    IN  \/ p.k = "run"    /\ (p.id > ran \/ running = p.id)
        \/ p.k = "recall" /\ p.id > recalled
        \/ p = NoAction /\ \E i \in (ran + 1) .. Len(stream) : stream[i].k = "think"
        \/ errors > 0

(* No lost wake-up: when the controller without a delegate is RUNNING, has *)
(* handled every event and is in no LLM call, somebody still works on its  *)
(* pending action or its thought, or an error is about to be reported: it  *)
(* never waits for what nobody will do (should_step, _handle_observation). *)
NoLostWakeup ==
    /\ ~delegated
    /\ ctl["parent"].state = "RUNNING"
    /\ stepping = "none"
    /\ handled = Len(stream)
    => AtWork("parent")

Requests == Cardinality({i \in 1 .. handled : FromUser(stream[i])})

(* Every extension of the iteration limit is paid for by a message that    *)
(* was handled as the user's, his own or the task of a delegate: parent    *)
(* and delegate together call the LLM no more than max_iterations times    *)
(* per such message (IterationControlFlag, shared with the delegate;       *)
(* maybe_increase_control_flags_limits).                                   *)
IterationsPaidFor == flags.iter <= InitialLimit * Requests

(* A delegate that finished or rejected its task, and never hit the        *)
(* iteration limit, is ended by the time all events are handled, so that   *)
(* the parent can go on (on_event, end_delegate).                          *)
FinishedDelegateIsEnded ==
    /\ delegated
    /\ ctl["delegate"].state \in {"FINISHED", "REJECTED"}
    /\ ctl["delegate"].err # "limit"
    => handled < Len(stream)

IsDelegated(e) == e.k = "obs" /\ e.x = "delegated"

(* Every delegation is answered once: an AgentDelegateObservation reports  *)
(* on an earlier delegate action that no other reports on, and the last    *)
(* one the parent handled is unanswered as long as there is a delegate,    *)
(* and only then (start_delegate, end_delegate).                           *)
DelegationsAnsweredOnce ==
    /\ \A n \in 1 .. Len(stream) : IsDelegated(stream[n]) =>
           /\ \E i \in 1 .. n - 1 : stream[i].k = "delegate" /\ stream[i].act = stream[n].act
           /\ \A m \in 1 .. n - 1 : IsDelegated(stream[m]) => stream[m].act # stream[n].act
    /\ delegated <=> /\ ctl["parent"].lastDelegate # 0
                     /\ \A n \in 1 .. Len(stream) :
                           IsDelegated(stream[n]) => stream[n].act # ctl["parent"].lastDelegate

(* A delegation whose delegate finished is ended, and it has one answer.   *)
(* A delegate that got no task, or hit the limit, may stay.                *)
DelegationsSettled == FinishedDelegateIsEnded /\ DelegationsAnsweredOnce

(* The agent comes to rest: whoever's turn it is does not stay RUNNING for *)
(* ever, whatever the LLM answers (the control flags, the recalls and      *)
(* observations that make the agent step).                                 *)
ComesToRest == (ctl[Active].state = "RUNNING") ~> (ctl[Active].state # "RUNNING")

=============================================================================
