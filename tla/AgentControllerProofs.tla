----------------------- MODULE AgentControllerProofs -----------------------
(***************************************************************************)
(* Proofs about the agent controller, for every limit, budget and number   *)
(* of inputs and faults.                                                   *)
(*                                                                         *)
(* A handler is a function on worlds, so that the lemmas say of each one   *)
(* what world it leads to (SetStateFacts, HandleByKind, StepFacts,         *)
(* ProduceCases), and then of each action of the specification that it     *)
(* takes World to such a world (OnEventFacts and the others).  On these    *)
(* rest, one after the other, the inductive invariants:                    *)
(*                                                                         *)
(*   TypeInv   the types, and that a pending action is an event of the log;*)
(*   DelegInv  the delegations are numbered one after the other, each has  *)
(*             at most one report in the log, and the last one has none    *)
(*             exactly while its delegate exists;                          *)
(*   PaidInv   how far the limit has grown, and that nothing is called     *)
(*             before the first message of the user;                       *)
(*   WakeInv   for every pending action of a RUNNING controller, who will  *)
(*             answer it (without delegation);                             *)
(*   AskInv    every release of an action that was in the log before is    *)
(*             paid for by a confirmation already handled, and between two *)
(*             releases of one the user was asked about the agent left     *)
(*             USER_CONFIRMED (without ungated actions).                   *)
(***************************************************************************)
EXTENDS AgentController, TLAPS, SequenceTheorems, FiniteSetTheorems, WellFoundedInduction

-----------------------------------------------------------------------------
(* Well-formed events and worlds.                                          *)

(* A change names a state, a message says whose it is. *)
GoodEvent ==
    {e \in EventType :
        /\ e.k = "change"  => e.x \in AgentStates
        /\ e.k = "message" => e.x \in {"user", "task", "wait", "plain"}}

WorldType == [stream : Seq(GoodEvent), ctl : [Controllers -> CtlType],
              delegated : BOOLEAN, stepping : Controllers \cup {"none"},
              flags : FlagsType, errors : Nat]

(* A pending action is an event of the log. *)
PendingIn(s, p) ==
    \/ p = NoAction
    \/ /\ p.k \in {"recall", "run"}
       /\ p.id \in 1 .. Len(s)
       /\ s[p.id].k = p.k
       /\ s[p.id].act = p.act

Good(w) ==
    /\ w \in WorldType
    /\ \A c \in Controllers : PendingIn(w.stream, w.ctl[c].pending)

(* r is w with controller c's state and pending action changed, perhaps. *)
Frame(w, c, r) ==
    /\ r.delegated = w.delegated
    /\ r.stepping = w.stepping
    /\ r.errors = w.errors
    /\ \A d \in Controllers : d # c => r.ctl[d] = w.ctl[d]
    /\ r.ctl[c].answered = w.ctl[c].answered
    /\ r.ctl[c].asked = w.ctl[c].asked
    /\ r.ctl[c].lastDelegate = w.ctl[c].lastDelegate
    /\ r.ctl[c].err = w.ctl[c].err
    /\ r.ctl[c].nested = w.ctl[c].nested

StateEvent(s) == Event("state", s, 0, 0)

Silenced == {"STOPPED", "ERROR"}
Answer(s) == IF s = "USER_CONFIRMED" THEN "confirmed" ELSE "rejected"
AnswerStates == {"USER_CONFIRMED", "USER_REJECTED"}

NotExecuted(p) == Event("obs", "notExecuted", p.id, p.act)
Renumbered(p, n) == [p EXCEPT !.id = n]
Again(s, p, new) == IF p.k = "recall" THEN s[p.id] ELSE RunEvent(p, Answer(new))

LEMMA EventGood ==
    ASSUME NEW k \in ActionKinds \cup {"obs", "state"},
           NEW x \in AgentStates \cup Confirmation \cup Answers
                  \cup {"user", "task", "wait", "plain", "none"},
           NEW n \in Nat, NEW a \in Nat,
           k = "change" => x \in AgentStates,
           k = "message" => x \in {"user", "task", "wait", "plain"}
    PROVE  /\ Event(k, x, n, a) \in GoodEvent
           /\ Event(k, x, n, a).k = k /\ Event(k, x, n, a).x = x
           /\ Event(k, x, n, a).cause = n /\ Event(k, x, n, a).act = a
  BY DEF Event, GoodEvent, EventType

LEMMA GoodFields ==
    ASSUME NEW e \in GoodEvent
    PROVE  /\ e.k \in ActionKinds \cup {"obs", "state"} /\ e.cause \in Nat /\ e.act \in Nat
           /\ e.k = "change"  => e.x \in AgentStates
           /\ e.k = "message" => e.x \in {"user", "task", "wait", "plain"}
  BY DEF GoodEvent, EventType

LEMMA Appended ==
    ASSUME NEW S, NEW s \in Seq(S), NEW e \in S
    PROVE  /\ Append(s, e) \in Seq(S)
           /\ Len(Append(s, e)) = Len(s) + 1 /\ Len(s) \in Nat
           /\ \A i \in 1 .. Len(s) : Append(s, e)[i] = s[i]
           /\ Append(s, e)[Len(s) + 1] = e
  OBVIOUS

LEMMA EmitFacts ==
    ASSUME NEW w, Good(w), NEW e \in GoodEvent
    PROVE  /\ Good(Emit(w, e))
           /\ Emit(w, e) = [w EXCEPT !.stream = Append(w.stream, e)]
           /\ Emit(w, e).stream = Append(w.stream, e)
           /\ Emit(w, e).ctl = w.ctl /\ Emit(w, e).delegated = w.delegated
           /\ Emit(w, e).stepping = w.stepping /\ Emit(w, e).flags = w.flags
           /\ Emit(w, e).errors = w.errors
  <1> DEFINE r == Emit(w, e)
  <1>1. w \in WorldType /\ w.stream \in Seq(GoodEvent)
    BY DEF Good, WorldType
  <1>2. /\ r = [w EXCEPT !.stream = Append(w.stream, e)]
        /\ r.stream = Append(w.stream, e)
        /\ r.ctl = w.ctl /\ r.delegated = w.delegated
        /\ r.stepping = w.stepping /\ r.flags = w.flags
        /\ r.errors = w.errors
    BY <1>1 DEF Emit, WorldType
  <1>3. /\ Append(w.stream, e) \in Seq(GoodEvent)
        /\ Len(Append(w.stream, e)) = Len(w.stream) + 1 /\ Len(w.stream) \in Nat
        /\ \A i \in 1 .. Len(w.stream) : Append(w.stream, e)[i] = w.stream[i]
    BY <1>1, Appended
  <1>4. r \in WorldType
    BY <1>1, <1>2, <1>3 DEF WorldType
  <1>5. ASSUME NEW c \in Controllers PROVE PendingIn(r.stream, r.ctl[c].pending)
    BY <1>2, <1>3 DEF Good, PendingIn
  <1> QED BY <1>2, <1>4, <1>5 DEF Good

LEMMA Fields ==
    ASSUME NEW w, Good(w)
    PROVE  /\ w.stream \in Seq(GoodEvent) /\ Len(w.stream) \in Nat
           /\ w.ctl \in [Controllers -> CtlType] /\ w.delegated \in BOOLEAN
           /\ w.stepping \in Controllers \cup {"none"} /\ w.flags \in FlagsType
           /\ w.errors \in Nat
           /\ \A c \in Controllers :
                 /\ w.ctl[c] \in CtlType /\ w.ctl[c].state \in AgentStates
                 /\ w.ctl[c].pending \in PendingType
                 /\ PendingIn(w.stream, w.ctl[c].pending)
  BY DEF Good, WorldType, CtlType

LEMMA WithState ==
    ASSUME NEW w, Good(w), NEW c \in Controllers, NEW new \in AgentStates
    PROVE  LET r == [w EXCEPT !.ctl[c].state = new] IN
           /\ Good(r) /\ Frame(w, c, r) /\ r.flags = w.flags /\ r.stream = w.stream
           /\ r.ctl[c].state = new /\ r.ctl[c].pending = w.ctl[c].pending
  <1> DEFINE r == [w EXCEPT !.ctl[c].state = new]
  <1>0. w \in WorldType /\ w.ctl \in [Controllers -> CtlType] /\ w.ctl[c] \in CtlType
    BY DEF Good, WorldType
  <1>1. /\ r.stream = w.stream /\ r.flags = w.flags /\ r.delegated = w.delegated
        /\ r.stepping = w.stepping /\ r.errors = w.errors
        /\ r.ctl = [w.ctl EXCEPT ![c] = [w.ctl[c] EXCEPT !.state = new]]
    BY <1>0 DEF WorldType
  <1>2. /\ r.ctl[c] = [w.ctl[c] EXCEPT !.state = new]
        /\ \A d \in Controllers : d # c => r.ctl[d] = w.ctl[d]
    BY <1>0, <1>1
  <1>3. /\ r.ctl[c] \in CtlType /\ r.ctl[c].state = new /\ r.ctl[c].pending = w.ctl[c].pending
        /\ r.ctl[c].answered = w.ctl[c].answered
        /\ r.ctl[c].asked = w.ctl[c].asked
        /\ r.ctl[c].lastDelegate = w.ctl[c].lastDelegate
        /\ r.ctl[c].err = w.ctl[c].err
        /\ r.ctl[c].nested = w.ctl[c].nested
    BY <1>0, <1>2 DEF CtlType
  <1>4. r.ctl \in [Controllers -> CtlType]
    BY <1>0, <1>1, <1>2, <1>3
  <1>5. r \in WorldType
    BY <1>0, <1>1, <1>4 DEF WorldType
  <1>6. Good(r)
    BY <1>1, <1>2, <1>3, <1>5 DEF Good
  <1> QED BY <1>1, <1>2, <1>3, <1>6 DEF Frame

LEMMA WithPending ==
    ASSUME NEW w, Good(w), NEW c \in Controllers, NEW p \in PendingType, PendingIn(w.stream, p)
    PROVE  LET r == [w EXCEPT !.ctl[c].pending = p] IN
           /\ Good(r) /\ Frame(w, c, r) /\ r.flags = w.flags /\ r.stream = w.stream
           /\ r.ctl[c].state = w.ctl[c].state /\ r.ctl[c].pending = p
  <1> DEFINE r == [w EXCEPT !.ctl[c].pending = p]
  <1>0. w \in WorldType /\ w.ctl \in [Controllers -> CtlType] /\ w.ctl[c] \in CtlType
    BY DEF Good, WorldType
  <1>1. /\ r.stream = w.stream /\ r.flags = w.flags /\ r.delegated = w.delegated
        /\ r.stepping = w.stepping /\ r.errors = w.errors
        /\ r.ctl = [w.ctl EXCEPT ![c] = [w.ctl[c] EXCEPT !.pending = p]]
    BY <1>0 DEF WorldType
  <1>2. /\ r.ctl[c] = [w.ctl[c] EXCEPT !.pending = p]
        /\ \A d \in Controllers : d # c => r.ctl[d] = w.ctl[d]
    BY <1>0, <1>1
  <1>3. /\ r.ctl[c] \in CtlType /\ r.ctl[c].state = w.ctl[c].state /\ r.ctl[c].pending = p
        /\ r.ctl[c].answered = w.ctl[c].answered
        /\ r.ctl[c].asked = w.ctl[c].asked
        /\ r.ctl[c].lastDelegate = w.ctl[c].lastDelegate
        /\ r.ctl[c].err = w.ctl[c].err
        /\ r.ctl[c].nested = w.ctl[c].nested
    BY <1>0, <1>2 DEF CtlType
  <1>4. r.ctl \in [Controllers -> CtlType]
    BY <1>0, <1>1, <1>2, <1>3
  <1>5. r \in WorldType
    BY <1>0, <1>1, <1>4 DEF WorldType
  <1>6. Good(r)
    BY <1>1, <1>2, <1>3, <1>5 DEF Good
  <1> QED BY <1>1, <1>2, <1>3, <1>6 DEF Frame

LEMMA NoActionType == NoAction \in PendingType /\ \A s : PendingIn(s, NoAction)
  BY DEF NoAction, PendingType, PendingIn

LEMMA NotExecutedGood ==
    ASSUME NEW p \in PendingType
    PROVE  LET e == NotExecuted(p) IN
           e \in GoodEvent /\ e.k = "obs" /\ e.x = "notExecuted" /\ e.cause = p.id
  <1>1. p.id \in Nat /\ p.act \in Nat
    BY DEF PendingType
  <1>2. "obs" \in ActionKinds \cup {"obs", "state"} /\ "notExecuted" \in Answers
    BY DEF Answers
  <1>3. "notExecuted" \in AgentStates \cup Confirmation \cup Answers \cup {"user", "task", "wait", "plain", "none"}
    BY <1>2
  <1> QED BY <1>1, <1>2, <1>3, EventGood, SMTT(30) DEF NotExecuted

LEMMA ResetFacts ==
    ASSUME NEW w, Good(w), NEW c \in Controllers
    PROVE  LET r == Reset(w, c)
               p == w.ctl[c].pending
           IN  /\ Good(r) /\ Frame(w, c, r) /\ r.flags = w.flags
               /\ r.ctl[c].state = w.ctl[c].state /\ r.ctl[c].pending = NoAction
               /\ r.stream = IF p # NoAction /\ p.act \notin w.ctl[c].answered
                             THEN Append(w.stream, NotExecuted(p)) ELSE w.stream
  <1> DEFINE p == w.ctl[c].pending
             e == NotExecuted(p)
             w1 == IF p # NoAction /\ p.act \notin w.ctl[c].answered THEN Emit(w, e) ELSE w
  <1>1. p \in PendingType
    BY Fields
  <1>2. e \in GoodEvent
    BY <1>1, NotExecutedGood
  <1>3. Good(w1) /\ w1.ctl = w.ctl /\ w1.flags = w.flags /\ w1.delegated = w.delegated
        /\ w1.stepping = w.stepping /\ w1.errors = w.errors
        /\ w1.stream = IF p # NoAction /\ p.act \notin w.ctl[c].answered
                             THEN Append(w.stream, NotExecuted(p)) ELSE w.stream
    BY <1>2, EmitFacts
  <1>4. Reset(w, c) = [w1 EXCEPT !.ctl[c].pending = NoAction]
    BY DEF Reset, HasPending, NotExecuted
  <1> HIDE DEF w1
  <1> QED BY <1>3, <1>4, WithPending, NoActionType DEF Frame

LEMMA ReissueFacts ==
    ASSUME NEW w, Good(w), NEW c \in Controllers, NEW new \in AnswerStates,
           w.ctl[c].pending # NoAction
    PROVE  LET r == Reissue(w, c, Answer(new))
               p == w.ctl[c].pending
           IN  /\ Good(r) /\ Frame(w, c, r) /\ r.flags = w.flags
               /\ r.ctl[c].state = w.ctl[c].state
               /\ r.ctl[c].pending = Renumbered(p, Len(w.stream) + 1)
               /\ r.stream = Append(w.stream, Again(w.stream, p, new))
               /\ Again(w.stream, p, new) \in GoodEvent
               /\ Again(w.stream, p, new).k = p.k /\ Again(w.stream, p, new).act = p.act
  <1> DEFINE p == w.ctl[c].pending
             e == Again(w.stream, p, new)
             q == [p EXCEPT !.id = Len(w.stream) + 1]
             v == Emit(w, e)
  <1>1. p \in PendingType /\ PendingIn(w.stream, p) /\ p # NoAction /\ w.stream \in Seq(GoodEvent)
        /\ Len(w.stream) \in Nat
    BY Fields
  <1>2. e \in GoodEvent /\ e.k = p.k /\ e.act = p.act
    <2>1. CASE p.k = "recall"
      BY <1>1, <2>1 DEF PendingIn, Again
    <2>2. CASE p.k # "recall"
      <3>1. p.k = "run" /\ p.act \in Nat
        BY <1>1, <2>2 DEF PendingIn, PendingType
      <3>2. Answer(new) \in Confirmation
        BY DEF Answer, Confirmation
      <3>3. e = Event("run", IF p.gated THEN Answer(new) ELSE "confirmed", 0, p.act)
        BY <2>2 DEF Again, RunEvent
      <3>4. (IF p.gated THEN Answer(new) ELSE "confirmed") \in Confirmation
        BY <3>2 DEF Confirmation
      <3> QED BY <3>1, <3>3, <3>4, EventGood DEF ActionKinds
    <2> QED BY <2>1, <2>2
  <1>3. /\ Good(v) /\ v.ctl = w.ctl /\ v.flags = w.flags /\ v.delegated = w.delegated
        /\ v.stepping = w.stepping /\ v.errors = w.errors /\ v.stream = Append(w.stream, e)
    BY <1>2, EmitFacts
  <1>4. q \in PendingType /\ q.k = p.k /\ q.act = p.act /\ q.id = Len(w.stream) + 1
    BY <1>1 DEF PendingType
  <1>5. PendingIn(v.stream, q)
    <2>1. w.stream \in Seq(GoodEvent)
      BY Fields
    <2>2. /\ Len(v.stream) = Len(w.stream) + 1 /\ Len(w.stream) \in Nat
          /\ v.stream[Len(w.stream) + 1] = e
      BY <1>2, <1>3, <2>1, Appended
    <2>3. q.id \in 1 .. Len(v.stream)
      BY <1>4, <2>2
    <2> QED BY <1>1, <1>2, <1>4, <2>2, <2>3 DEF PendingIn
  <1>6. Reissue(w, c, Answer(new)) = [v EXCEPT !.ctl[c].pending = q]
    <2>1. v \in WorldType /\ v.ctl \in [Controllers -> CtlType] /\ v.ctl[c] \in CtlType /\ v.ctl[c].pending = p
      BY <1>3 DEF Good, WorldType
    <2>2. Reissue(w, c, Answer(new)) = [v EXCEPT !.ctl[c].pending.id = Len(w.stream) + 1]
      BY DEF Reissue, Again
    <2> QED BY <2>1, <2>2
  <1> HIDE DEF v, q, e
  <1>7. LET r == [v EXCEPT !.ctl[c].pending = q] IN
        /\ Good(r) /\ Frame(v, c, r) /\ r.flags = v.flags /\ r.stream = v.stream
        /\ r.ctl[c].state = v.ctl[c].state /\ r.ctl[c].pending = q
    BY <1>3, <1>4, <1>5, WithPending, Zenon
  <1>8. LET r == Reissue(w, c, Answer(new)) IN
        /\ Good(r) /\ Frame(v, c, r) /\ r.flags = v.flags /\ r.stream = v.stream
        /\ r.ctl[c].state = v.ctl[c].state /\ r.ctl[c].pending = q
    BY <1>6, <1>7
  <1> QED BY <1>2, <1>3, <1>8 DEF Frame, q, e, Renumbered

LEMMA WithFlags ==
    ASSUME NEW w, Good(w), NEW f \in FlagsType
    PROVE  LET r == [w EXCEPT !.flags = f] IN
           /\ Good(r) /\ r.flags = f /\ r.stream = w.stream /\ r.ctl = w.ctl
           /\ r.delegated = w.delegated /\ r.stepping = w.stepping /\ r.errors = w.errors
  <1> DEFINE r == [w EXCEPT !.flags = f]
  <1>1. w \in WorldType
    BY DEF Good
  <1>2. r \in WorldType /\ r.flags = f /\ r.stream = w.stream /\ r.ctl = w.ctl
        /\ r.delegated = w.delegated /\ r.stepping = w.stepping /\ r.errors = w.errors
    BY <1>1 DEF WorldType
  <1> QED BY <1>2 DEF Good

LEMMA IncreaseFacts ==
    ASSUME NEW f \in FlagsType
    PROVE  /\ IncreaseLimits(f) \in FlagsType
           /\ IncreaseLimits(f).iter = f.iter /\ IncreaseLimits(f).hitIter = FALSE
           /\ IncreaseLimits(f).maxIter = IF f.hitIter THEN f.maxIter + InitialLimit ELSE f.maxIter
  <1>1. /\ f.iter \in Nat /\ f.maxIter \in Nat /\ f.hitIter \in BOOLEAN
        /\ f.cost \in Nat /\ f.maxCost \in Nat /\ f.hitCost \in BOOLEAN
    BY DEF FlagsType
  <1> DEFINE m == IF f.hitIter THEN f.maxIter + InitialLimit ELSE f.maxIter
             k == IF f.hitCost THEN f.cost + InitialBudget ELSE f.maxCost
  <1>2. m \in Nat /\ k \in Nat
    BY <1>1, LimitsAssumption
  <1>3. IncreaseLimits(f) = [f EXCEPT !.maxIter = m, !.hitIter = FALSE, !.maxCost = k, !.hitCost = FALSE]
    BY DEF IncreaseLimits
  <1> HIDE DEF m, k
  <1>4. /\ IncreaseLimits(f) \in FlagsType /\ IncreaseLimits(f).iter = f.iter
        /\ IncreaseLimits(f).hitIter = FALSE /\ IncreaseLimits(f).maxIter = m
    BY <1>2, <1>3 DEF FlagsType
  <1> QED BY <1>4 DEF m

(* What set_agent_state_to makes of w: nothing, or a state change, behind  *)
(* the observation of the action it drops or the action it adds again.     *)
Dropped(w, c, new, r) ==
    /\ new \in Silenced
    /\ w.ctl[c].pending # NoAction
    /\ w.ctl[c].pending.act \notin w.ctl[c].answered
    /\ r.ctl[c].pending = NoAction
    /\ r.stream = Append(Append(w.stream, NotExecuted(w.ctl[c].pending)), StateEvent(new))

DroppedSilently(w, c, new, r) ==
    /\ new \in Silenced
    /\ w.ctl[c].pending = NoAction \/ w.ctl[c].pending.act \in w.ctl[c].answered
    /\ r.ctl[c].pending = NoAction
    /\ r.stream = Append(w.stream, StateEvent(new))

Reissued(w, c, new, r) ==
    /\ new \in AnswerStates
    /\ w.ctl[c].pending # NoAction
    /\ r.ctl[c].pending = Renumbered(w.ctl[c].pending, Len(w.stream) + 1)
    /\ r.stream = Append(Append(w.stream, Again(w.stream, w.ctl[c].pending, new)), StateEvent(new))

Plainly(w, c, new, r) ==
    /\ new \notin Silenced
    /\ new \notin AnswerStates \/ w.ctl[c].pending = NoAction
    /\ r.ctl[c].pending = w.ctl[c].pending
    /\ r.stream = Append(w.stream, StateEvent(new))

Entered(w, c, new, r) ==
    \/ Dropped(w, c, new, r)
    \/ DroppedSilently(w, c, new, r)
    \/ Reissued(w, c, new, r)
    \/ Plainly(w, c, new, r)

FlagsAfter(w, c, new) ==
    IF w.ctl[c].state = "ERROR" /\ new = "RUNNING" THEN IncreaseLimits(w.flags) ELSE w.flags

LEMMA EnterFacts ==
    ASSUME NEW w, Good(w), NEW c \in Controllers, NEW new \in AgentStates
    PROVE  LET r == Enter(w, c, new)
           IN  /\ Good(r) /\ Frame(w, c, r) /\ r.ctl[c].state = new
               /\ r.flags = FlagsAfter(w, c, new)
               /\ Entered(w, c, new, r)
               /\ StateEvent(new) \in GoodEvent
  <1> DEFINE old == w.ctl[c].state
             p   == w.ctl[c].pending
             w1 == [w EXCEPT !.ctl[c].state = new]
             w2 == IF new \in Silenced THEN Reset(w1, c) ELSE w1
             w3 == IF old = "ERROR" /\ new = "RUNNING"
                   THEN [w2 EXCEPT !.flags = IncreaseLimits(w2.flags)] ELSE w2
             w4 == IF new \in AnswerStates /\ w3.ctl[c].pending # NoAction
                   THEN Reissue(w3, c, Answer(new)) ELSE w3
  <1>1. Good(w1) /\ Frame(w, c, w1) /\ w1.flags = w.flags /\ w1.stream = w.stream
        /\ w1.ctl[c].state = new /\ w1.ctl[c].pending = p
    BY WithState
  <1>2. /\ Good(w2) /\ Frame(w, c, w2) /\ w2.flags = w.flags /\ w2.ctl[c].state = new
        /\ w2.ctl[c].pending = IF new \in Silenced THEN NoAction ELSE p
        /\ w2.stream = IF new \in Silenced /\ p # NoAction /\ p.act \notin w.ctl[c].answered
                       THEN Append(w.stream, NotExecuted(p)) ELSE w.stream
    <2> HIDE DEF w1
    <2>1. CASE new \in Silenced
      <3>1. LET r == Reset(w1, c) IN
            /\ Good(r) /\ Frame(w1, c, r) /\ r.flags = w1.flags
            /\ r.ctl[c].state = w1.ctl[c].state /\ r.ctl[c].pending = NoAction
            /\ r.stream = IF w1.ctl[c].pending # NoAction /\ w1.ctl[c].pending.act \notin w1.ctl[c].answered
                          THEN Append(w1.stream, NotExecuted(w1.ctl[c].pending)) ELSE w1.stream
        BY <1>1, ResetFacts
      <3> QED BY <1>1, <2>1, <3>1 DEF Frame
    <2>2. CASE new \notin Silenced
      BY <1>1, <2>2
    <2> QED BY <2>1, <2>2
  <1>3. /\ Good(w3) /\ Frame(w, c, w3) /\ w3.ctl[c].state = new /\ w3.ctl = w2.ctl
        /\ w3.stream = w2.stream /\ w3.flags = FlagsAfter(w, c, new)
    <2> HIDE DEF w2
    <2>1. CASE old = "ERROR" /\ new = "RUNNING"
      <3>1. w2.flags \in FlagsType
        BY <1>2, Fields
      <3> DEFINE f == IncreaseLimits(w2.flags)
      <3>2. f \in FlagsType
        BY <3>1, IncreaseFacts
      <3> HIDE DEF f
      <3>3. LET r == [w2 EXCEPT !.flags = f] IN
           /\ Good(r) /\ r.flags = f /\ r.stream = w2.stream /\ r.ctl = w2.ctl
           /\ r.delegated = w2.delegated /\ r.stepping = w2.stepping /\ r.errors = w2.errors
        BY <1>2, <3>2, WithFlags, Zenon
      <3> QED BY <1>2, <2>1, <3>3 DEF Frame, FlagsAfter, f
    <2>2. CASE ~(old = "ERROR" /\ new = "RUNNING")
      BY <1>2, <2>2 DEF FlagsAfter
    <2> QED BY <2>1, <2>2
  <1>4. /\ Good(w4) /\ Frame(w, c, w4) /\ w4.ctl[c].state = new
        /\ w4.flags = FlagsAfter(w, c, new)
        /\ w4.ctl[c].pending = IF new \in AnswerStates /\ w3.ctl[c].pending # NoAction
                               THEN Renumbered(w3.ctl[c].pending, Len(w3.stream) + 1)
                               ELSE w3.ctl[c].pending
        /\ w4.stream = IF new \in AnswerStates /\ w3.ctl[c].pending # NoAction
                       THEN Append(w3.stream, Again(w3.stream, w3.ctl[c].pending, new))
                       ELSE w3.stream
    <2> HIDE DEF w3
    <2>1. CASE new \in AnswerStates /\ w3.ctl[c].pending # NoAction
      <3>1. LET r == Reissue(w3, c, Answer(new))
                q == w3.ctl[c].pending
            IN  /\ Good(r) /\ Frame(w3, c, r) /\ r.flags = w3.flags
                /\ r.ctl[c].state = w3.ctl[c].state
                /\ r.ctl[c].pending = Renumbered(q, Len(w3.stream) + 1)
                /\ r.stream = Append(w3.stream, Again(w3.stream, q, new))
        <4>1. Good(w3) /\ c \in Controllers /\ new \in AnswerStates /\ w3.ctl[c].pending # NoAction
          BY <1>3, <2>1
        <4> QED BY <4>1, ReissueFacts
      <3> QED BY <1>3, <2>1, <3>1 DEF Frame
    <2>2. CASE ~(new \in AnswerStates /\ w3.ctl[c].pending # NoAction)
      BY <1>3, <2>2
    <2> QED BY <2>1, <2>2
  <1>5. StateEvent(new) \in GoodEvent
    BY EventGood DEF StateEvent, ActionKinds
  <1>6. Enter(w, c, new) = Emit(w4, StateEvent(new))
    BY DEF Enter, StateEvent, HasPending, Silenced, AnswerStates, Answer
  <1> HIDE DEF w4
  <1>7. LET r == Emit(w4, StateEvent(new)) IN
        /\ Good(r) /\ r.stream = Append(w4.stream, StateEvent(new)) /\ r.ctl = w4.ctl
        /\ r.delegated = w4.delegated /\ r.stepping = w4.stepping /\ r.flags = w4.flags
        /\ r.errors = w4.errors
    BY <1>4, <1>5, EmitFacts
  <1> HIDE DEF w3, w2, w1
  <1> DEFINE r == Enter(w, c, new)
  <1>8. /\ Good(r) /\ Frame(w, c, r) /\ r.ctl[c].state = new /\ r.flags = FlagsAfter(w, c, new)
        /\ r.ctl[c].pending = w4.ctl[c].pending
        /\ r.stream = Append(w4.stream, StateEvent(new))
    BY <1>4, <1>6, <1>7 DEF Frame
  <1>9. Entered(w, c, new, r)
    <2> HIDE DEF r
    <2>1. CASE new \in Silenced
      <3>1. new \notin AnswerStates
        BY <2>1 DEF Silenced, AnswerStates
      <3>2. w4.ctl[c].pending = NoAction /\ w4.stream = w2.stream
        BY <2>1, <3>1, <1>2, <1>3, <1>4
      <3> QED BY <2>1, <3>2, <1>2, <1>8 DEF Entered, Dropped, DroppedSilently
    <2>2. CASE new \notin Silenced
      <3>1. w3.ctl[c].pending = p /\ w3.stream = w.stream
        BY <2>2, <1>2, <1>3
      <3> QED BY <2>2, <3>1, <1>4, <1>8 DEF Entered, Reissued, Plainly
    <2> QED BY <2>1, <2>2
  <1> QED BY <1>5, <1>8, <1>9

(* The facts about set_agent_state_to that the proofs use. *)
LEMMA SetStateFacts ==
    ASSUME NEW w, Good(w), NEW c \in Controllers, NEW new \in AgentStates
    PROVE  LET r == SetState(w, c, new)
           IN  /\ Good(r) /\ Frame(w, c, r) /\ r.ctl[c].state = new
               /\ r.flags = FlagsAfter(w, c, new)
               /\ StateEvent(new) \in GoodEvent
               /\ \/ w.ctl[c].state = new /\ r = w
                  \/ w.ctl[c].state # new /\ Entered(w, c, new, r)
  <1>1. CASE w.ctl[c].state = new
    BY <1>1, EventGood DEF SetState, Frame, FlagsAfter, StateEvent, ActionKinds
  <1>2. CASE w.ctl[c].state # new
    <2>1. SetState(w, c, new) = Enter(w, c, new)
      BY <1>2 DEF SetState
    <2> QED BY <1>2, <2>1, EnterFacts
  <1> QED BY <1>1, <1>2

(* r's log is w's with more events, and none of them asks for a delegate,  *)
(* reports on one or asks for a change of state.                           *)
Grew(w, r) ==
    /\ Len(w.stream) <= Len(r.stream)
    /\ \A i \in 1 .. Len(w.stream) : r.stream[i] = w.stream[i]

IsQuiet(e) == ~IsDelegated(e) /\ e.k \notin {"change", "delegate"}

Quiet(w, r) ==
    /\ Grew(w, r)
    /\ \A i \in Len(w.stream) + 1 .. Len(r.stream) : IsQuiet(r.stream[i])

LEMMA GrewOne ==
    ASSUME NEW w, Good(w), NEW r, NEW e \in GoodEvent, r.stream = Append(w.stream, e)
    PROVE  /\ Grew(w, r) /\ Len(r.stream) = Len(w.stream) + 1
           /\ r.stream[Len(w.stream) + 1] = e
           /\ IsQuiet(e) => Quiet(w, r)
  <1>1. w.stream \in Seq(GoodEvent)
    BY Fields
  <1>2. /\ Len(r.stream) = Len(w.stream) + 1 /\ Len(w.stream) \in Nat
        /\ \A i \in 1 .. Len(w.stream) : r.stream[i] = w.stream[i]
        /\ r.stream[Len(w.stream) + 1] = e
    BY <1>1, Appended
  <1>3. Grew(w, r)
    BY <1>2 DEF Grew
  <1>4. \A i \in Len(w.stream) + 1 .. Len(r.stream) : i = Len(w.stream) + 1
    BY <1>2
  <1> QED BY <1>2, <1>3, <1>4 DEF Quiet

GrewBy(w, r, e, g) ==
    /\ Grew(w, r) /\ Len(r.stream) = Len(w.stream) + 2
    /\ r.stream[Len(w.stream) + 1] = e
    /\ r.stream[Len(w.stream) + 2] = g
    /\ IsQuiet(e) /\ IsQuiet(g) => Quiet(w, r)

LEMMA GrewTwo ==
    ASSUME NEW w, Good(w), NEW r, NEW e \in GoodEvent, NEW g \in GoodEvent,
           r.stream = Append(Append(w.stream, e), g)
    PROVE  GrewBy(w, r, e, g)
  <1> DEFINE t == Append(w.stream, e)
  <1>1. w.stream \in Seq(GoodEvent)
    BY Fields
  <1>2. /\ t \in Seq(GoodEvent) /\ Len(t) = Len(w.stream) + 1 /\ Len(w.stream) \in Nat
        /\ \A i \in 1 .. Len(w.stream) : t[i] = w.stream[i]
        /\ t[Len(w.stream) + 1] = e
    BY <1>1, Appended
  <1> HIDE DEF t
  <1>3. r.stream = Append(t, g)
    BY DEF t
  <1>4. /\ Len(r.stream) = Len(t) + 1
        /\ \A i \in 1 .. Len(t) : r.stream[i] = t[i]
        /\ r.stream[Len(t) + 1] = g
    BY <1>2, <1>3, Appended
  <1>5. /\ Len(r.stream) = Len(w.stream) + 2
        /\ \A i \in 1 .. Len(w.stream) : r.stream[i] = w.stream[i]
        /\ r.stream[Len(w.stream) + 1] = e
        /\ r.stream[Len(w.stream) + 2] = g
    BY <1>2, <1>4
  <1>6. Grew(w, r)
    BY <1>2, <1>5 DEF Grew
  <1>7. \A i \in Len(w.stream) + 1 .. Len(r.stream) : i = Len(w.stream) + 1 \/ i = Len(w.stream) + 2
    BY <1>2, <1>5
  <1> QED BY <1>5, <1>6, <1>7 DEF Quiet, GrewBy

LEMMA QuietSame == ASSUME NEW w, Good(w), NEW r, r.stream = w.stream PROVE Quiet(w, r) /\ Grew(w, r)
  <1>1. Len(w.stream) \in Nat
    BY Fields
  <1> QED BY <1>1 DEF Quiet, Grew

LEMMA QuietTrans ==
    ASSUME NEW w, NEW v, NEW r, Good(w), Good(v), Good(r)
    PROVE  /\ Quiet(w, v) /\ Quiet(v, r) => Quiet(w, r)
           /\ Grew(w, v) /\ Grew(v, r) => Grew(w, r)
  <1>1. Len(w.stream) \in Nat /\ Len(v.stream) \in Nat /\ Len(r.stream) \in Nat
    BY Fields
  <1>2. ASSUME Grew(w, v), Grew(v, r) PROVE Grew(w, r)
    BY <1>1, <1>2 DEF Grew
  <1>3. ASSUME Quiet(w, v), Quiet(v, r) PROVE Quiet(w, r)
    <2>1. Grew(w, r)
      BY <1>2, <1>3 DEF Quiet
    <2>2. ASSUME NEW i \in Len(w.stream) + 1 .. Len(r.stream) PROVE IsQuiet(r.stream[i])
      <3>1. CASE i <= Len(v.stream)
        <4>1. i \in Len(w.stream) + 1 .. Len(v.stream) /\ i \in 1 .. Len(v.stream)
          BY <1>1, <3>1
        <4> QED BY <1>3, <4>1 DEF Quiet, Grew
      <3>2. CASE i > Len(v.stream)
        <4>1. i \in Len(v.stream) + 1 .. Len(r.stream)
          BY <1>1, <3>2
        <4> QED BY <1>3, <4>1 DEF Quiet
      <3> QED BY <1>1, <3>1, <3>2
    <2> QED BY <2>1, <2>2 DEF Quiet
  <1> QED BY <1>2, <1>3

(* Only the user and the start of the session ask for a change of state.   *)
NoChange(w, r) ==
    \A i \in Len(w.stream) + 1 .. Len(r.stream) : r.stream[i].k # "change"

LEMMA QuietNoChange == ASSUME NEW w, NEW r, Quiet(w, r) PROVE NoChange(w, r) /\ Grew(w, r)
  BY DEF Quiet, NoChange, IsQuiet

LEMMA SetStateQuiet ==
    ASSUME NEW w, Good(w), NEW c \in Controllers, NEW new \in AgentStates
    PROVE  /\ Quiet(w, SetState(w, c, new))
           /\ w.ctl[c].state # new => Len(SetState(w, c, new).stream) > Len(w.stream)
  <1> DEFINE r == SetState(w, c, new)
             p == w.ctl[c].pending
  <1>1. /\ Good(r) /\ StateEvent(new) \in GoodEvent
        /\ \/ w.ctl[c].state = new /\ r = w
           \/ w.ctl[c].state # new /\ Entered(w, c, new, r)
    BY SetStateFacts
  <1>2. IsQuiet(StateEvent(new))
    BY DEF IsQuiet, StateEvent, Event, IsDelegated
  <1>3. p \in PendingType /\ PendingIn(w.stream, p) /\ Len(w.stream) \in Nat
    BY Fields
  <1> HIDE DEF r
  <1>4. CASE w.ctl[c].state = new /\ r = w
    BY <1>4, QuietSame DEF r
  <1>5. CASE w.ctl[c].state # new /\ Dropped(w, c, new, r)
    <2> DEFINE e == NotExecuted(p)
    <2>1. e \in GoodEvent
      BY <1>3, NotExecutedGood
    <2>2. IsQuiet(e)
      BY DEF NotExecuted, Event, IsQuiet, IsDelegated
    <2>3. r.stream = Append(Append(w.stream, e), StateEvent(new))
      BY <1>5 DEF Dropped
    <2> HIDE DEF e
    <2>4. Quiet(w, r) /\ Len(r.stream) = Len(w.stream) + 2
      <3>1. StateEvent(new) \in GoodEvent
        BY <1>1
      <3>2. GrewBy(w, r, e, StateEvent(new))
        BY <2>1, <2>3, <3>1, GrewTwo
      <3> QED BY <1>2, <2>2, <3>2 DEF GrewBy
    <2> QED BY <1>3, <2>4 DEF r
  <1>6. CASE w.ctl[c].state # new /\ r.stream = Append(w.stream, StateEvent(new))
    BY <1>1, <1>2, <1>3, <1>6, GrewOne DEF r
  <1>7. CASE w.ctl[c].state # new /\ Reissued(w, c, new, r)
    <2> DEFINE e == Again(w.stream, p, new)
    <2>1. new \in AnswerStates /\ p # NoAction /\ r.stream = Append(Append(w.stream, e), StateEvent(new))
      BY <1>7 DEF Reissued
    <2>2. e \in GoodEvent /\ e.k = p.k
      BY <2>1, ReissueFacts
    <2>3. IsQuiet(e)
      BY <2>1, <2>2, <1>3 DEF PendingIn, IsQuiet, IsDelegated
    <2> HIDE DEF e
    <2>4. r.stream = Append(Append(w.stream, e), StateEvent(new)) /\ e \in GoodEvent
      BY <2>1, <2>2
    <2>5. Quiet(w, r) /\ Len(r.stream) = Len(w.stream) + 2
      <3>1. StateEvent(new) \in GoodEvent
        BY <1>1
      <3>2. GrewBy(w, r, e, StateEvent(new))
        BY <2>4, <3>1, GrewTwo
      <3> QED BY <1>2, <2>3, <3>2 DEF GrewBy
    <2> QED BY <1>3, <2>5 DEF r
  <1> QED BY <1>1, <1>4, <1>5, <1>6, <1>7 DEF Entered, DroppedSilently, Plainly, r

Failing(w, c, x, n) == [w EXCEPT !.ctl[c].err = x, !.errors = n]

ErrKinds == {"none", "limit", "other"}

Noted(w, c, x, n, r) ==
    /\ Good(r) /\ r.flags = w.flags /\ r.stream = w.stream /\ r.delegated = w.delegated
    /\ r.stepping = w.stepping /\ r.errors = n
    /\ \A d \in Controllers : d # c => r.ctl[d] = w.ctl[d]
    /\ r.ctl[c].err = x /\ r.ctl[c].state = w.ctl[c].state /\ r.ctl[c].pending = w.ctl[c].pending
    /\ r.ctl[c].answered = w.ctl[c].answered /\ r.ctl[c].asked = w.ctl[c].asked
    /\ r.ctl[c].nested = w.ctl[c].nested /\ r.ctl[c].lastDelegate = w.ctl[c].lastDelegate

LEMMA WithErr ==
    ASSUME NEW w, Good(w), NEW c \in Controllers, NEW x \in ErrKinds, NEW n \in Nat
    PROVE  Noted(w, c, x, n, Failing(w, c, x, n))
  <1> DEFINE r == [w EXCEPT !.ctl[c].err = x, !.errors = n]
  <1>0. w \in WorldType /\ w.ctl \in [Controllers -> CtlType] /\ w.ctl[c] \in CtlType
    BY DEF Good, WorldType
  <1>1. /\ r.stream = w.stream /\ r.flags = w.flags /\ r.delegated = w.delegated
        /\ r.stepping = w.stepping /\ r.errors = n
        /\ r.ctl = [w.ctl EXCEPT ![c] = [w.ctl[c] EXCEPT !.err = x]]
    BY <1>0 DEF WorldType
  <1>2. /\ r.ctl[c] = [w.ctl[c] EXCEPT !.err = x]
        /\ \A d \in Controllers : d # c => r.ctl[d] = w.ctl[d]
    BY <1>0, <1>1
  <1>3. /\ r.ctl[c] \in CtlType /\ r.ctl[c].state = w.ctl[c].state /\ r.ctl[c].err = x
        /\ r.ctl[c].pending = w.ctl[c].pending /\ r.ctl[c].nested = w.ctl[c].nested
        /\ r.ctl[c].answered = w.ctl[c].answered /\ r.ctl[c].asked = w.ctl[c].asked
        /\ r.ctl[c].lastDelegate = w.ctl[c].lastDelegate
    BY <1>0, <1>2 DEF CtlType, ErrKinds
  <1>4. r.ctl \in [Controllers -> CtlType]
    BY <1>0, <1>1, <1>2, <1>3
  <1>5. r \in WorldType
    BY <1>0, <1>1, <1>4 DEF WorldType
  <1>6. Good(r)
    BY <1>1, <1>2, <1>3, <1>5 DEF Good
  <1> QED BY <1>1, <1>2, <1>3, <1>6 DEF Failing, Noted

(* _react_to_exception puts the controller into ERROR, and says so. *)
LEMMA ReactFacts ==
    ASSUME NEW w, Good(w), NEW c \in Controllers, NEW x \in ErrKinds
    PROVE  LET r == ReactToException(w, c, x) IN
           /\ Good(r) /\ Quiet(w, r) /\ r.flags = w.flags /\ r.delegated = w.delegated
           /\ r.stepping = w.stepping
           /\ r.errors = IF c = "parent" THEN w.errors + 1 ELSE w.errors
           /\ \A d \in Controllers : d # c => r.ctl[d] = w.ctl[d]
           /\ r.ctl[c].state = "ERROR" /\ r.ctl[c].err = x /\ r.ctl[c].nested = w.ctl[c].nested
           /\ r.ctl[c].answered = w.ctl[c].answered /\ r.ctl[c].asked = w.ctl[c].asked
           /\ r.ctl[c].lastDelegate = w.ctl[c].lastDelegate
           /\ \/ w.ctl[c].state = "ERROR" /\ r.stream = w.stream /\ r.ctl[c].pending = w.ctl[c].pending
              \/ w.ctl[c].state # "ERROR" /\ Entered(w, c, "ERROR", r)
  <1> DEFINE n == IF c = "parent" THEN w.errors + 1 ELSE w.errors
             v == Failing(w, c, x, n)
             r == SetState(v, c, "ERROR")
  <1>0. n \in Nat
    BY Fields
  <1>1. r = ReactToException(w, c, x)
    BY DEF ReactToException, Failing
  <1> HIDE DEF n
  <1>2. /\ Good(v) /\ v.flags = w.flags /\ v.stream = w.stream /\ v.delegated = w.delegated
        /\ v.stepping = w.stepping /\ v.errors = n
        /\ \A d \in Controllers : d # c => v.ctl[d] = w.ctl[d]
        /\ v.ctl[c].err = x /\ v.ctl[c].state = w.ctl[c].state /\ v.ctl[c].pending = w.ctl[c].pending
        /\ v.ctl[c].answered = w.ctl[c].answered /\ v.ctl[c].asked = w.ctl[c].asked
        /\ v.ctl[c].nested = w.ctl[c].nested /\ v.ctl[c].lastDelegate = w.ctl[c].lastDelegate
    BY <1>0, WithErr DEF Noted
  <1> HIDE DEF v
  <1>3. "ERROR" \in AgentStates
    BY DEF AgentStates
  <1>4. /\ Good(r) /\ Frame(v, c, r) /\ r.ctl[c].state = "ERROR"
        /\ r.flags = FlagsAfter(v, c, "ERROR")
        /\ \/ v.ctl[c].state = "ERROR" /\ r = v
           \/ v.ctl[c].state # "ERROR" /\ Entered(v, c, "ERROR", r)
    BY <1>2, <1>3, SetStateFacts
  <1>5. Quiet(v, r)
    BY <1>2, <1>3, SetStateQuiet
  <1>6. Quiet(w, r)
    BY <1>2, <1>5 DEF Quiet, Grew
  <1> HIDE DEF r
  <1>7. v.ctl[c].state # "ERROR" /\ Entered(v, c, "ERROR", r) => Entered(w, c, "ERROR", r)
    BY <1>2 DEF Entered, Dropped, DroppedSilently, Reissued, Plainly
  <1>8. r.flags = w.flags
    BY <1>2, <1>4 DEF FlagsAfter
  <1> QED BY <1>1, <1>2, <1>4, <1>6, <1>7, <1>8 DEF Frame, n

Recalling(n) == [k |-> "recall", id |-> n, act |-> 0, gated |-> FALSE]
RecallOf(i)  == Event("recall", "none", i, 0)

(* An action is made pending as it is added. *)
LEMMA PendingAdded ==
    ASSUME NEW w, Good(w), NEW c \in Controllers, NEW p \in PendingType, NEW e \in GoodEvent,
           p.k \in {"recall", "run"}, p.id = Len(w.stream) + 1, e.k = p.k, e.act = p.act
    PROVE  LET r == Emit([w EXCEPT !.ctl[c].pending = p], e) IN
           /\ Good(r) /\ Frame(w, c, r) /\ r.flags = w.flags /\ r.stream = Append(w.stream, e)
           /\ r.ctl[c].state = w.ctl[c].state /\ r.ctl[c].pending = p
  <1> DEFINE v == Emit(w, e)
             r == [v EXCEPT !.ctl[c].pending = p]
  <1>1. /\ Good(v) /\ v.ctl = w.ctl /\ v.flags = w.flags /\ v.delegated = w.delegated
        /\ v.stepping = w.stepping /\ v.errors = w.errors /\ v.stream = Append(w.stream, e)
    BY EmitFacts
  <1>2. /\ Len(v.stream) = Len(w.stream) + 1 /\ Len(w.stream) \in Nat
        /\ v.stream[Len(w.stream) + 1] = e
    BY <1>1, Fields, Appended
  <1>3. PendingIn(v.stream, p)
    BY <1>2 DEF PendingIn
  <1>4. r = Emit([w EXCEPT !.ctl[c].pending = p], e)
    BY DEF Emit, Good, WorldType
  <1> HIDE DEF v
  <1>5. /\ Good(r) /\ Frame(v, c, r) /\ r.flags = v.flags /\ r.stream = v.stream
        /\ r.ctl[c].state = v.ctl[c].state /\ r.ctl[c].pending = p
    BY <1>1, <1>3, WithPending, Zenon
  <1> HIDE DEF r
  <1>6. Frame(w, c, r)
    BY <1>1, <1>5 DEF Frame
  <1> QED BY <1>1, <1>4, <1>5, <1>6

(* A message of the user: a recall is added and pending, then RUNNING. *)
Recalled(w, c, i) == Emit([w EXCEPT !.ctl[c].pending = Recalling(Len(w.stream) + 1)], RecallOf(i))

LEMMA RecalledFacts ==
    ASSUME NEW w, Good(w), NEW c \in Controllers, NEW i \in Nat
    PROVE  LET r == Recalled(w, c, i) IN
           /\ Good(r) /\ Frame(w, c, r) /\ r.flags = w.flags
           /\ r.stream = Append(w.stream, RecallOf(i)) /\ RecallOf(i) \in GoodEvent
           /\ r.ctl[c].state = w.ctl[c].state /\ r.ctl[c].pending = Recalling(Len(w.stream) + 1)
           /\ Quiet(w, r) /\ Len(r.stream) > Len(w.stream)
  <1> DEFINE n == Len(w.stream) + 1
             p == Recalling(n)
             r == Recalled(w, c, i)
  <1>1. n \in Nat /\ n = Len(w.stream) + 1 /\ Len(w.stream) \in Nat
    BY Fields
  <1>2. p \in PendingType /\ p.k = "recall" /\ p.id = n /\ p.act = 0
    BY <1>1 DEF PendingType, Recalling
  <1>3. RecallOf(i) \in GoodEvent /\ RecallOf(i).k = "recall" /\ RecallOf(i).act = 0
    BY DEF RecallOf, Event, GoodEvent, EventType, ActionKinds
  <1>4. /\ Good(r) /\ Frame(w, c, r) /\ r.flags = w.flags /\ r.stream = Append(w.stream, RecallOf(i))
        /\ r.ctl[c].state = w.ctl[c].state /\ r.ctl[c].pending = p
    <2> HIDE DEF p, n
    <2>1. LET q == Emit([w EXCEPT !.ctl[c].pending = p], RecallOf(i)) IN
           /\ Good(q) /\ Frame(w, c, q) /\ q.flags = w.flags /\ q.stream = Append(w.stream, RecallOf(i))
           /\ q.ctl[c].state = w.ctl[c].state /\ q.ctl[c].pending = p
      <3>1. p.k \in {"recall", "run"} /\ p.id = Len(w.stream) + 1 /\ RecallOf(i).k = p.k /\ RecallOf(i).act = p.act
        BY <1>1, <1>2, <1>3
      <3> QED BY <3>1, <1>2, <1>3, PendingAdded, ZenonT(60)
    <2>2. r = Emit([w EXCEPT !.ctl[c].pending = p], RecallOf(i))
      BY DEF Recalled, p, n
    <2> QED BY <2>1, <2>2, Zenon
  <1>5. IsQuiet(RecallOf(i))
    BY <1>3 DEF IsQuiet, IsDelegated
  <1>6. Quiet(w, r) /\ Len(r.stream) = n
    BY <1>3, <1>4, <1>5, GrewOne
  <1> QED BY <1>1, <1>3, <1>4, <1>6

-----------------------------------------------------------------------------
(* Handling an event.                                                      *)

(* Controller c's state, pending action and history may have changed, and  *)
(* a change of state has been announced.                                   *)
Moved(w, c, r) ==
    /\ Good(r) /\ Quiet(w, r) /\ r.delegated = w.delegated /\ r.stepping = w.stepping
    /\ r.errors = w.errors
    /\ \A d \in Controllers : d # c => r.ctl[d] = w.ctl[d]
    /\ r.ctl[c].err = w.ctl[c].err /\ r.ctl[c].nested = w.ctl[c].nested
    /\ r.ctl[c].asked = w.ctl[c].asked /\ r.ctl[c].lastDelegate = w.ctl[c].lastDelegate
    /\ r.ctl[c].state = w.ctl[c].state \/ Len(w.stream) < Len(r.stream)

LEMMA MovedTrans ==
    ASSUME NEW w, NEW v, NEW r, Good(w), NEW c \in Controllers, Moved(w, c, v), Moved(v, c, r)
    PROVE  Moved(w, c, r)
  <1>1. Good(v) /\ Good(r) /\ Quiet(w, v) /\ Quiet(v, r)
    BY DEF Moved
  <1>2. Quiet(w, r)
    BY <1>1, QuietTrans
  <1>3. Len(w.stream) \in Nat /\ Len(v.stream) \in Nat /\ Len(r.stream) \in Nat
        /\ Len(w.stream) <= Len(v.stream) /\ Len(v.stream) <= Len(r.stream)
    BY <1>1, Fields DEF Quiet, Grew
  <1>4. r.ctl[c].state = w.ctl[c].state \/ Len(w.stream) < Len(r.stream)
    <2>1. r.ctl[c].state = v.ctl[c].state \/ Len(v.stream) < Len(r.stream)
      BY DEF Moved
    <2>2. v.ctl[c].state = w.ctl[c].state \/ Len(w.stream) < Len(v.stream)
      BY DEF Moved
    <2> QED BY <1>3, <2>1, <2>2
  <1> QED BY <1>1, <1>2, <1>4 DEF Moved

LEMMA MovedSame == ASSUME NEW w, Good(w), NEW c \in Controllers PROVE Moved(w, c, w)
  BY QuietSame DEF Moved

LEMMA SetStateMoved ==
    ASSUME NEW w, Good(w), NEW c \in Controllers, NEW new \in AgentStates
    PROVE  Moved(w, c, SetState(w, c, new)) /\ SetState(w, c, new).flags = FlagsAfter(w, c, new)
           /\ SetState(w, c, new).ctl[c].state = new
  <1> DEFINE r == SetState(w, c, new)
  <1>1. /\ Good(r) /\ Frame(w, c, r) /\ r.flags = FlagsAfter(w, c, new) /\ r.ctl[c].state = new
        /\ w.ctl[c].state = new \/ w.ctl[c].state # new
    BY SetStateFacts
  <1>2. Quiet(w, r) /\ (w.ctl[c].state # new => Len(r.stream) > Len(w.stream))
    BY SetStateQuiet
  <1>3. Len(w.stream) \in Nat /\ Len(r.stream) \in Nat
    BY <1>1, Fields
  <1> QED BY <1>1, <1>2, <1>3 DEF Moved, Frame

(* add_history touches the history only. *)
Remembered(w, c, i, r) ==
    /\ Good(r) /\ r.stream = w.stream /\ r.flags = w.flags /\ r.delegated = w.delegated
    /\ r.stepping = w.stepping /\ r.errors = w.errors
    /\ \A d \in Controllers : d # c => r.ctl[d] = w.ctl[d]
    /\ r.ctl[c].state = w.ctl[c].state /\ r.ctl[c].pending = w.ctl[c].pending
    /\ r.ctl[c].asked = w.ctl[c].asked /\ r.ctl[c].err = w.ctl[c].err
    /\ r.ctl[c].nested = w.ctl[c].nested
    /\ r.ctl[c].answered = IF w.stream[i].k = "obs" /\ w.stream[i].x # "null"
                           THEN w.ctl[c].answered \cup {w.stream[i].act} ELSE w.ctl[c].answered
    /\ r.ctl[c].lastDelegate = IF w.stream[i].k = "delegate" THEN w.stream[i].act
                               ELSE w.ctl[c].lastDelegate

LEMMA AddHistoryFacts ==
    ASSUME NEW w, Good(w), NEW c \in Controllers, NEW i \in 1 .. Len(w.stream)
    PROVE  Remembered(w, c, i, AddHistory(w, c, i))
  <1> DEFINE e == w.stream[i]
             r == AddHistory(w, c, i)
  <1>0. w \in WorldType /\ w.ctl \in [Controllers -> CtlType] /\ w.ctl[c] \in CtlType
    BY DEF Good, WorldType
  <1>1. e \in GoodEvent /\ e.act \in Nat
    <2>1. w.stream \in Seq(GoodEvent)
      BY Fields
    <2>2. e \in GoodEvent
      BY <2>1
    <2> QED BY <2>2, GoodFields
  <1> HIDE DEF e
  <1>2. CASE e.k = "obs" /\ e.x # "null"
    <2> DEFINE a == w.ctl[c].answered \cup {e.act}
    <2>1. a \in SUBSET Nat
      BY <1>0, <1>1 DEF CtlType
    <2>2. r = [w EXCEPT !.ctl[c].answered = a]
      BY <1>0, <1>2 DEF AddHistory, e, WorldType
    <2> HIDE DEF a
    <2>3. /\ r.stream = w.stream /\ r.flags = w.flags /\ r.delegated = w.delegated
          /\ r.stepping = w.stepping /\ r.errors = w.errors
          /\ r.ctl = [w.ctl EXCEPT ![c] = [w.ctl[c] EXCEPT !.answered = a]]
      BY <1>0, <2>2 DEF WorldType
    <2>4. /\ r.ctl[c] = [w.ctl[c] EXCEPT !.answered = a]
          /\ \A d \in Controllers : d # c => r.ctl[d] = w.ctl[d]
      BY <1>0, <2>3
    <2>5. /\ r.ctl[c] \in CtlType /\ r.ctl[c].state = w.ctl[c].state
          /\ r.ctl[c].pending = w.ctl[c].pending /\ r.ctl[c].asked = w.ctl[c].asked
          /\ r.ctl[c].err = w.ctl[c].err /\ r.ctl[c].nested = w.ctl[c].nested
          /\ r.ctl[c].answered = a /\ r.ctl[c].lastDelegate = w.ctl[c].lastDelegate
      BY <1>0, <2>1, <2>4 DEF CtlType
    <2>6. r.ctl \in [Controllers -> CtlType]
      BY <1>0, <2>3, <2>4, <2>5
    <2>7. r \in WorldType
      BY <1>0, <2>2, <2>3, <2>6 DEF WorldType
    <2>8. Good(r)
      BY <2>3, <2>4, <2>5, <2>7 DEF Good
    <2> QED BY <1>2, <2>3, <2>4, <2>5, <2>8 DEF Remembered, a, e
  <1>3. CASE e.k = "delegate"
    <2>2. r = [w EXCEPT !.ctl[c].lastDelegate = e.act]
      BY <1>0, <1>3 DEF AddHistory, e, WorldType
    <2>3. /\ r.stream = w.stream /\ r.flags = w.flags /\ r.delegated = w.delegated
          /\ r.stepping = w.stepping /\ r.errors = w.errors
          /\ r.ctl = [w.ctl EXCEPT ![c] = [w.ctl[c] EXCEPT !.lastDelegate = e.act]]
      BY <1>0, <2>2 DEF WorldType
    <2>4. /\ r.ctl[c] = [w.ctl[c] EXCEPT !.lastDelegate = e.act]
          /\ \A d \in Controllers : d # c => r.ctl[d] = w.ctl[d]
      BY <1>0, <2>3
    <2>5. /\ r.ctl[c] \in CtlType /\ r.ctl[c].state = w.ctl[c].state
          /\ r.ctl[c].pending = w.ctl[c].pending /\ r.ctl[c].asked = w.ctl[c].asked
          /\ r.ctl[c].err = w.ctl[c].err /\ r.ctl[c].nested = w.ctl[c].nested
          /\ r.ctl[c].answered = w.ctl[c].answered /\ r.ctl[c].lastDelegate = e.act
      BY <1>0, <1>1, <2>4 DEF CtlType
    <2>6. r.ctl \in [Controllers -> CtlType]
      BY <1>0, <2>3, <2>4, <2>5
    <2>7. r \in WorldType
      BY <1>0, <2>2, <2>3, <2>6 DEF WorldType
    <2>8. Good(r)
      BY <2>3, <2>4, <2>5, <2>7 DEF Good
    <2> QED BY <1>3, <2>3, <2>4, <2>5, <2>8 DEF Remembered, e
  <1>4. CASE ~(e.k = "obs" /\ e.x # "null") /\ e.k # "delegate"
    <2>1. r = w
      BY <1>4 DEF AddHistory, e
    <2> QED BY <1>4, <2>1 DEF Remembered, e
  <1> QED BY <1>2, <1>3, <1>4

LEMMA RememberedMoved ==
    ASSUME NEW w, Good(w), NEW c \in Controllers, NEW i, NEW r, Remembered(w, c, i, r),
           w.stream[i].k # "delegate"
    PROVE  Moved(w, c, r) /\ r.flags = w.flags
  BY QuietSame DEF Remembered, Moved

TaskEvent == Event("message", "task", 0, 0)

LEMMA TaskGood ==
    /\ TaskEvent \in GoodEvent /\ TaskEvent.k = "message"
    /\ FromUser(TaskEvent) /\ ~IsDelegated(TaskEvent)
  BY DEF TaskEvent, Event, GoodEvent, EventType, ActionKinds, FromUser, IsDelegated

LEMMA StateGood ==
    ASSUME NEW s \in AgentStates
    PROVE  /\ StateEvent(s) \in GoodEvent /\ StateEvent(s).k = "state" /\ StateEvent(s).x = s
           /\ IsQuiet(StateEvent(s))
  BY EventGood DEF StateEvent, ActionKinds, IsQuiet, IsDelegated

LEMMA FreshType == Fresh \in CtlType /\ Fresh.pending = NoAction /\ Fresh.state = "LOADING" /\ Fresh.err = "none"
                   /\ Fresh.nested = FALSE /\ Fresh.asked = {}
  BY DEF Fresh, CtlType, AgentStates, NoAction, PendingType

(* A delegate is put in place, or taken away. *)
Placed(w, b) == [w EXCEPT !.delegated = b, !.ctl["delegate"] = Fresh]

IsPlaced(w, b, r) ==
    /\ Good(r) /\ r.stream = w.stream /\ r.flags = w.flags /\ r.delegated = b
    /\ r.stepping = w.stepping /\ r.errors = w.errors
    /\ r.ctl["parent"] = w.ctl["parent"] /\ r.ctl["delegate"] = Fresh

LEMMA PlacedFacts ==
    ASSUME NEW w, Good(w), NEW b \in BOOLEAN
    PROVE  IsPlaced(w, b, Placed(w, b))
  <1> DEFINE r == Placed(w, b)
  <1>0. /\ w \in WorldType /\ w.ctl \in [Controllers -> CtlType]
        /\ "parent" \in Controllers /\ "delegate" \in Controllers
    BY DEF Good, WorldType, Controllers
  <1>1. /\ r.stream = w.stream /\ r.flags = w.flags /\ r.delegated = b
        /\ r.stepping = w.stepping /\ r.errors = w.errors
        /\ r.ctl = [w.ctl EXCEPT !["delegate"] = Fresh]
    BY <1>0 DEF WorldType, Placed
  <1>2. r.ctl["parent"] = w.ctl["parent"] /\ r.ctl["delegate"] = Fresh
    BY <1>0, <1>1
  <1>3. r.ctl \in [Controllers -> CtlType]
    BY <1>0, <1>1, FreshType
  <1>4. r \in WorldType
    BY <1>0, <1>1, <1>3 DEF WorldType, Placed
  <1>5. ASSUME NEW c \in Controllers PROVE PendingIn(r.stream, r.ctl[c].pending)
    <2>1. CASE c = "parent"
      BY <2>1, <1>1, <1>2 DEF Good
    <2>2. CASE c = "delegate"
      BY <2>2, <1>2, FreshType, NoActionType
    <2> QED BY <2>1, <2>2 DEF Controllers
  <1> QED BY <1>1, <1>2, <1>4, <1>5 DEF IsPlaced, Good

(* start_delegate, and the task it hands out if the action has one. *)
Started(w, c, r) ==
    /\ Good(r) /\ Quiet(w, r)
    /\ r.flags = w.flags /\ r.stepping = w.stepping /\ r.errors = w.errors
    /\ r.ctl["parent"] = w.ctl["parent"]
    /\ \A i \in Len(w.stream) + 1 .. Len(r.stream) : r.stream[i].k \in {"message", "state"}
    /\ c = "parent" => /\ r.delegated = TRUE /\ r.ctl["delegate"].state \in {"LOADING", "RUNNING"}
                       /\ r.ctl["delegate"].pending = NoAction
    /\ c = "delegate" => /\ r.delegated = w.delegated /\ r.ctl[c].state = w.ctl[c].state
                         /\ r.ctl[c].err = w.ctl[c].err /\ r.ctl[c].pending = w.ctl[c].pending

WithNested(w) == [w EXCEPT !.ctl["delegate"].nested = TRUE]

(* A delegate that starts one of its own. *)
LEMMA NestedFacts ==
    ASSUME NEW w, Good(w)
    PROVE  LET v == WithNested(w) IN
           /\ Good(v) /\ v.stream = w.stream /\ v.flags = w.flags /\ v.delegated = w.delegated
           /\ v.stepping = w.stepping /\ v.errors = w.errors
           /\ v.ctl["parent"] = w.ctl["parent"]
           /\ v.ctl["delegate"].state = w.ctl["delegate"].state
           /\ v.ctl["delegate"].pending = w.ctl["delegate"].pending
           /\ v.ctl["delegate"].err = w.ctl["delegate"].err
  <1> DEFINE c == "delegate"
             v == WithNested(w)
  <1>1. w \in WorldType /\ w.ctl \in [Controllers -> CtlType] /\ w.ctl[c] \in CtlType
        /\ (\A d \in Controllers : PendingIn(w.stream, w.ctl[d].pending))
        /\ c \in Controllers /\ "parent" \in Controllers
    BY DEF Good, WorldType, Controllers
  <1>2. /\ v.stream = w.stream /\ v.flags = w.flags /\ v.delegated = w.delegated
        /\ v.stepping = w.stepping /\ v.errors = w.errors
        /\ v.ctl = [w.ctl EXCEPT ![c] = [w.ctl[c] EXCEPT !.nested = TRUE]]
    BY <1>1 DEF WorldType, WithNested
  <1>3. /\ v.ctl[c] = [w.ctl[c] EXCEPT !.nested = TRUE]
        /\ \A d \in Controllers : d # c => v.ctl[d] = w.ctl[d]
    BY <1>1, <1>2
  <1>4. /\ v.ctl[c] \in CtlType /\ v.ctl[c].state = w.ctl[c].state
        /\ v.ctl[c].pending = w.ctl[c].pending /\ v.ctl[c].err = w.ctl[c].err
    <2> HIDE DEF v
    <2> QED BY <1>1, <1>3 DEF CtlType
  <1>5. v.ctl \in [Controllers -> CtlType]
    BY <1>1, <1>2, <1>3, <1>4
  <1>6. v \in WorldType
    BY <1>1, <1>2, <1>5 DEF WorldType, WithNested
  <1>7. Good(v)
    BY <1>1, <1>2, <1>3, <1>4, <1>6 DEF Good
  <1> QED BY <1>1, <1>2, <1>3, <1>4, <1>7

(* The task and the change of state are added behind each other. *)
LEMMA TaskAdded ==
    ASSUME NEW w, Good(w), NEW r, r.stream = Append(Append(w.stream, TaskEvent), StateEvent("RUNNING"))
    PROVE  /\ Quiet(w, r)
           /\ \A i \in Len(w.stream) + 1 .. Len(r.stream) : r.stream[i].k \in {"message", "state"}
  <1>1. /\ TaskEvent \in GoodEvent /\ TaskEvent.k = "message" /\ IsQuiet(TaskEvent)
        /\ StateEvent("RUNNING") \in GoodEvent /\ StateEvent("RUNNING").k = "state"
        /\ IsQuiet(StateEvent("RUNNING"))
    BY TaskGood, StateGood DEF AgentStates, IsQuiet
  <1>2. GrewBy(w, r, TaskEvent, StateEvent("RUNNING"))
    BY <1>1, GrewTwo
  <1>3. Len(w.stream) \in Nat /\ Len(r.stream) = Len(w.stream) + 2
    BY <1>2, Fields DEF GrewBy
  <1>4. \A i \in Len(w.stream) + 1 .. Len(r.stream) : i = Len(w.stream) + 1 \/ i = Len(w.stream) + 2
    BY <1>3
  <1> QED BY <1>1, <1>2, <1>4 DEF GrewBy

LEMMA StartDelegateFacts ==
    ASSUME NEW w, Good(w), NEW c \in Controllers, NEW i
    PROVE  Started(w, c, StartDelegate(w, c, i))
  <1> DEFINE r == StartDelegate(w, c, i)
             task == w.stream[i].x = "task"
  <1>0. "RUNNING" \in AgentStates /\ "delegate" \in Controllers /\ Len(w.stream) \in Nat
    BY Fields DEF AgentStates, Controllers
  <1>1. CASE c = "parent"
    <2> DEFINE v == Placed(w, TRUE)
               t == Emit(v, TaskEvent)
    <2>1. IsPlaced(w, TRUE, v)
      BY PlacedFacts
    <2>2. r = IF task THEN SetState(t, "delegate", "RUNNING") ELSE v
      BY <1>1 DEF StartDelegate, Placed, TaskEvent
    <2> HIDE DEF v
    <2>3. /\ Good(v) /\ v.ctl["delegate"].state = "LOADING" /\ v.ctl["delegate"].pending = NoAction
          /\ v.stream = w.stream
      BY <2>1, FreshType DEF IsPlaced
    <2>4. CASE ~task
      <3>1. r = v /\ Quiet(w, v)
        BY <2>2, <2>3, <2>4, QuietSame
      <3>2. \A k \in Len(w.stream) + 1 .. Len(v.stream) : FALSE
        BY <1>0, <2>3
      <3> HIDE DEF r
      <3> QED BY <1>1, <2>1, <2>3, <3>1, <3>2 DEF Started, IsPlaced, r
    <2>5. CASE task
      <3>1. /\ Good(t) /\ t.stream = Append(v.stream, TaskEvent) /\ t.ctl = v.ctl
            /\ t.delegated = v.delegated /\ t.stepping = v.stepping /\ t.flags = v.flags
            /\ t.errors = v.errors
        BY <2>3, EmitFacts, TaskGood
      <3>2. r = SetState(t, "delegate", "RUNNING")
        BY <2>2, <2>5
      <3> HIDE DEF t, r
      <3>3. /\ Good(r) /\ Frame(t, "delegate", r) /\ r.ctl["delegate"].state = "RUNNING"
            /\ r.flags = FlagsAfter(t, "delegate", "RUNNING")
            /\ Entered(t, "delegate", "RUNNING", r)
        BY <1>0, <2>3, <3>1, <3>2, SetStateFacts
      <3>4. r.flags = t.flags
        BY <2>3, <3>1, <3>3 DEF FlagsAfter
      <3>5. r.stream = Append(t.stream, StateEvent("RUNNING")) /\ r.ctl["delegate"].pending = NoAction
        BY <2>3, <3>1, <3>3 DEF Entered, Dropped, DroppedSilently, Reissued, Plainly, Silenced, AnswerStates
      <3>6. r.ctl["parent"] = t.ctl["parent"] /\ r.delegated = t.delegated /\ r.stepping = t.stepping
            /\ r.errors = t.errors
        BY <3>3 DEF Frame, Controllers
      <3>7. r.stream = Append(Append(w.stream, TaskEvent), StateEvent("RUNNING"))
        BY <2>3, <3>1, <3>5
      <3>8. /\ Quiet(w, r)
            /\ \A k \in Len(w.stream) + 1 .. Len(r.stream) : r.stream[k].k \in {"message", "state"}
        BY <3>7, TaskAdded
      <3> QED BY <1>1, <2>1, <3>1, <3>3, <3>4, <3>5, <3>6, <3>8 DEF Started, IsPlaced, r
    <2> QED BY <2>4, <2>5
  <1>2. CASE c = "delegate"
    <2> DEFINE v == WithNested(w)
               t == Emit(v, TaskEvent)
    <2>1. /\ Good(v) /\ v.stream = w.stream /\ v.flags = w.flags /\ v.delegated = w.delegated
          /\ v.stepping = w.stepping /\ v.errors = w.errors
          /\ v.ctl["parent"] = w.ctl["parent"]
          /\ v.ctl["delegate"].state = w.ctl["delegate"].state
          /\ v.ctl["delegate"].pending = w.ctl["delegate"].pending
          /\ v.ctl["delegate"].err = w.ctl["delegate"].err
      BY NestedFacts
    <2>2. r = IF task THEN Emit(t, StateEvent("RUNNING")) ELSE v
      BY <1>2 DEF StartDelegate, WithNested, TaskEvent, StateEvent
    <2> HIDE DEF v
    <2>3. CASE ~task
      <3>1. r = v /\ Quiet(w, v)
        BY <2>1, <2>2, <2>3, QuietSame
      <3>2. \A k \in Len(w.stream) + 1 .. Len(v.stream) : FALSE
        BY <1>0, <2>1
      <3> HIDE DEF r
      <3> QED BY <1>2, <2>1, <3>1, <3>2 DEF Started, r
    <2>4. CASE task
      <3>1. /\ Good(t) /\ t.stream = Append(v.stream, TaskEvent) /\ t.ctl = v.ctl
            /\ t.delegated = v.delegated /\ t.stepping = v.stepping /\ t.flags = v.flags
            /\ t.errors = v.errors
        BY <2>1, EmitFacts, TaskGood
      <3>2. r = Emit(t, StateEvent("RUNNING"))
        BY <2>2, <2>4
      <3> HIDE DEF t, r
      <3>3. /\ Good(r) /\ r.stream = Append(t.stream, StateEvent("RUNNING")) /\ r.ctl = t.ctl
            /\ r.delegated = t.delegated /\ r.stepping = t.stepping /\ r.flags = t.flags
            /\ r.errors = t.errors
        <4>1. StateEvent("RUNNING") \in GoodEvent
          BY StateGood DEF AgentStates
        <4> QED BY <3>1, <3>2, <4>1, EmitFacts
      <3>4. r.stream = Append(Append(w.stream, TaskEvent), StateEvent("RUNNING"))
        BY <2>1, <3>1, <3>3
      <3>5. /\ Quiet(w, r)
            /\ \A k \in Len(w.stream) + 1 .. Len(r.stream) : r.stream[k].k \in {"message", "state"}
        BY <3>4, TaskAdded
      <3> QED BY <1>2, <2>1, <3>1, <3>3, <3>5 DEF Started, r
    <2> QED BY <2>3, <2>4
  <1> QED BY <1>1, <1>2 DEF Controllers

(* The iteration limit grows only for a message handled as the user's or   *)
(* a request to be RUNNING.                                                *)
FlagsFor(w, e, r) ==
    \/ r.flags = w.flags
    \/ r.flags = IncreaseLimits(w.flags) /\ (FromUser(e) \/ IsChange(e, "RUNNING"))

LEMMA HandleMessageFacts ==
    ASSUME NEW w, Good(w), NEW c \in Controllers, NEW i \in 1 .. Len(w.stream),
           w.stream[i].k = "message"
    PROVE  /\ Moved(w, c, HandleMessage(w, c, i))
           /\ FlagsFor(w, w.stream[i], HandleMessage(w, c, i))
  <1> DEFINE e == w.stream[i]
             r == HandleMessage(w, c, i)
  <1>1. e \in GoodEvent /\ i \in Nat
    <2>1. w.stream \in Seq(GoodEvent) /\ Len(w.stream) \in Nat
      BY Fields
    <2> QED BY <2>1
  <1>2. e.x \in {"user", "task", "wait", "plain"}
    BY <1>1, GoodFields
  <1>3. "RUNNING" \in AgentStates /\ "AWAITING_USER_INPUT" \in AgentStates
    BY DEF AgentStates
  <1>4. CASE FromUser(e)
    <2> DEFINE v == Recalled(w, c, i)
    <2>1. r = SetState(v, c, "RUNNING")
      BY <1>4 DEF HandleMessage, Recalled, Recalling, RecallOf, FromUser
    <2>2. Good(v) /\ Frame(w, c, v) /\ v.flags = w.flags /\ Quiet(w, v) /\ Len(v.stream) > Len(w.stream)
      BY <1>1, RecalledFacts
    <2>3. Len(v.stream) \in Nat /\ Len(w.stream) \in Nat
      BY <2>2, Fields
    <2>4. Moved(w, c, v)
      BY <2>2, <2>3 DEF Moved, Frame
    <2> HIDE DEF v
    <2>5. Moved(v, c, r) /\ r.flags = FlagsAfter(v, c, "RUNNING")
      BY <1>3, <2>1, <2>2, SetStateMoved
    <2>6. Moved(w, c, r)
      BY <2>4, <2>5, MovedTrans
    <2> QED BY <1>4, <2>2, <2>5, <2>6 DEF FlagsFor, FlagsAfter
  <1>5. CASE ~FromUser(e) /\ e.x = "wait"
    <2>1. r = SetState(w, c, "AWAITING_USER_INPUT")
      BY <1>5 DEF HandleMessage
    <2>2. Moved(w, c, r) /\ r.flags = FlagsAfter(w, c, "AWAITING_USER_INPUT")
      BY <1>3, <2>1, SetStateMoved
    <2> QED BY <2>2 DEF FlagsFor, FlagsAfter
  <1>6. CASE ~FromUser(e) /\ e.x = "plain"
    <2>1. r = w
      BY <1>6 DEF HandleMessage
    <2> QED BY <2>1, MovedSame DEF FlagsFor
  <1> QED BY <1>2, <1>4, <1>5, <1>6 DEF FromUser

LEMMA HandleActionFacts ==
    ASSUME NEW w, Good(w), NEW c \in Controllers, NEW i \in 1 .. Len(w.stream),
           IsAction(w.stream[i])
    PROVE  LET r == HandleAction(w, c, i) IN
           /\ FlagsFor(w, w.stream[i], r)
           /\ \/ w.stream[i].k = "delegate" /\ Started(w, c, r)
              \/ w.stream[i].k # "delegate" /\ Moved(w, c, r)
  <1> DEFINE e == w.stream[i]
             r == HandleAction(w, c, i)
  <1>1. e \in GoodEvent
    <2>1. w.stream \in Seq(GoodEvent) /\ Len(w.stream) \in Nat
      BY Fields
    <2> QED BY <2>1
  <1>2. e.k \in ActionKinds /\ (e.k = "change" => e.x \in AgentStates)
    BY <1>1, GoodFields DEF IsAction
  <1>3. CASE e.k = "change"
    <2>1. r = SetState(w, c, e.x)
      BY <1>3 DEF HandleAction
    <2>2. Moved(w, c, r) /\ r.flags = FlagsAfter(w, c, e.x)
      BY <1>2, <1>3, <2>1, SetStateMoved
    <2> QED BY <1>3, <2>2 DEF FlagsFor, FlagsAfter, IsChange
  <1>4. CASE e.k = "message"
    <2>1. r = HandleMessage(w, c, i)
      BY <1>4 DEF HandleAction
    <2> QED BY <1>4, <2>1, HandleMessageFacts
  <1>5. CASE e.k = "delegate"
    <2>1. r = StartDelegate(w, c, i)
      BY <1>5 DEF HandleAction
    <2>2. Started(w, c, r)
      BY <2>1, StartDelegateFacts
    <2> QED BY <1>5, <2>2 DEF FlagsFor, Started
  <1>6. CASE e.k \in {"finish", "reject"}
    <2> DEFINE new == IF e.k = "finish" THEN "FINISHED" ELSE "REJECTED"
    <2>1. r = SetState(w, c, new) /\ new \in AgentStates /\ new # "RUNNING"
      BY <1>6 DEF HandleAction, AgentStates
    <2> HIDE DEF new
    <2>2. Moved(w, c, r) /\ r.flags = FlagsAfter(w, c, new)
      BY <2>1, SetStateMoved
    <2> QED BY <1>6, <2>1, <2>2 DEF FlagsFor, FlagsAfter
  <1>7. CASE e.k \in {"recall", "run", "think", "condense"}
    <2>1. r = w
      BY <1>7 DEF HandleAction
    <2> QED BY <1>7, <2>1, MovedSame DEF FlagsFor
  <1> QED BY <1>2, <1>3, <1>4, <1>5, <1>6, <1>7 DEF ActionKinds

LEMMA HandleObservationFacts ==
    ASSUME NEW w, Good(w), NEW c \in Controllers, NEW i \in 1 .. Len(w.stream)
    PROVE  /\ Moved(w, c, HandleObservation(w, c, i))
           /\ HandleObservation(w, c, i).flags = w.flags
  <1> DEFINE p == w.ctl[c].pending
             s == w.ctl[c].state
             v == [w EXCEPT !.ctl[c].pending = NoAction]
             answers == p # NoAction /\ w.stream[i].cause = p.id
             r == HandleObservation(w, c, i)
  <1>1. /\ Good(v) /\ Frame(w, c, v) /\ v.flags = w.flags /\ v.stream = w.stream
        /\ v.ctl[c].state = s /\ v.ctl[c].pending = NoAction
    BY NoActionType, WithPending
  <1>2. Moved(w, c, v)
    BY <1>1, QuietSame DEF Moved, Frame
  <1>3. "RUNNING" \in AgentStates /\ "AWAITING_USER_INPUT" \in AgentStates
    BY DEF AgentStates
  <1>4. \/ r = w
        \/ r = v
        \/ s = "USER_CONFIRMED" /\ r = SetState(v, c, "RUNNING")
        \/ s = "USER_REJECTED" /\ r = SetState(v, c, "AWAITING_USER_INPUT")
    BY DEF HandleObservation
  <1> HIDE DEF v, r
  <1>5. CASE r = w
    BY <1>5, MovedSame DEF r
  <1>6. CASE r = v
    BY <1>1, <1>2, <1>6 DEF r
  <1>7. CASE s = "USER_CONFIRMED" /\ r = SetState(v, c, "RUNNING")
    <2>1. Moved(v, c, r) /\ r.flags = FlagsAfter(v, c, "RUNNING")
      BY <1>1, <1>3, <1>7, SetStateMoved
    <2>2. Moved(w, c, r)
      BY <1>2, <2>1, MovedTrans
    <2> QED BY <1>1, <1>7, <2>1, <2>2 DEF r, FlagsAfter
  <1>8. CASE s = "USER_REJECTED" /\ r = SetState(v, c, "AWAITING_USER_INPUT")
    <2>1. Moved(v, c, r) /\ r.flags = FlagsAfter(v, c, "AWAITING_USER_INPUT")
      BY <1>1, <1>3, <1>8, SetStateMoved
    <2>2. Moved(w, c, r)
      BY <1>2, <2>1, MovedTrans
    <2> QED BY <1>1, <1>8, <2>1, <2>2 DEF r, FlagsAfter
  <1> QED BY <1>4, <1>5, <1>6, <1>7, <1>8

LEMMA HandleFacts ==
    ASSUME NEW w, Good(w), NEW c \in Controllers, NEW i \in 1 .. Len(w.stream)
    PROVE  LET r == Handle(w, c, i) IN
           /\ FlagsFor(w, w.stream[i], r)
           /\ \/ w.stream[i].k = "delegate"
                 /\ \E v : Remembered(w, c, i, v) /\ Started(v, c, r)
              \/ w.stream[i].k # "delegate" /\ Moved(w, c, r)
  <1> DEFINE v == AddHistory(w, c, i)
             e == w.stream[i]
             r == Handle(w, c, i)
  <1>1. Remembered(w, c, i, v)
    BY AddHistoryFacts
  <1>2. /\ Good(v) /\ v.stream = w.stream /\ v.flags = w.flags
        /\ e.k # "delegate" => Moved(w, c, v)
    BY <1>1, RememberedMoved DEF Remembered
  <1> HIDE DEF v
  <1>3. CASE IsAction(e)
    <2>1. r = HandleAction(v, c, i)
      BY <1>3 DEF Handle, v
    <2> HIDE DEF r
    <2>2. /\ FlagsFor(v, v.stream[i], r)
          /\ \/ v.stream[i].k = "delegate" /\ Started(v, c, r)
             \/ v.stream[i].k # "delegate" /\ Moved(v, c, r)
      BY <1>2, <1>3, <2>1, HandleActionFacts
    <2>3. FlagsFor(w, e, r)
      BY <1>2, <2>2 DEF FlagsFor
    <2>4. CASE e.k = "delegate" /\ Started(v, c, r)
      BY <1>1, <2>3, <2>4 DEF r
    <2>5. CASE e.k # "delegate" /\ Moved(v, c, r)
      <3>1. Moved(w, c, r)
        BY <1>2, <2>5, MovedTrans
      <3> QED BY <2>3, <2>5, <3>1 DEF r
    <2> QED BY <1>2, <2>2, <2>4, <2>5
  <1>4. CASE ~IsAction(e)
    <2>1. r = HandleObservation(v, c, i)
      BY <1>4 DEF Handle, v
    <2> HIDE DEF r
    <2>2. Moved(v, c, r) /\ r.flags = v.flags
      BY <1>2, <2>1, HandleObservationFacts
    <2>3. e.k # "delegate"
      BY <1>4 DEF IsAction, ActionKinds
    <2>4. Moved(w, c, r)
      BY <1>2, <2>2, <2>3, MovedTrans
    <2> QED BY <1>2, <2>2, <2>3, <2>4 DEF r, FlagsFor
  <1> QED BY <1>3, <1>4

-----------------------------------------------------------------------------
(* Stepping.                                                               *)

LEMMA StepFlagsFacts ==
    ASSUME NEW f \in FlagsType
    PROVE  LET g == StepFlags(f) IN
           /\ g \in FlagsType /\ g.maxIter = f.maxIter
           /\ \/ f.iter >= f.maxIter /\ g.hitIter = TRUE /\ g.iter = f.iter
              \/ f.iter < f.maxIter /\ g.hitIter = FALSE /\ g.iter = f.iter + 1
  <1>1. /\ f.iter \in Nat /\ f.maxIter \in Nat /\ f.hitIter \in BOOLEAN
        /\ f.cost \in Nat /\ f.maxCost \in Nat /\ f.hitCost \in BOOLEAN
    BY DEF FlagsType
  <1> DEFINE h == InitialBudget # 0 /\ f.cost >= f.maxCost
  <1>2. CASE f.iter >= f.maxIter
    <2>1. StepFlags(f) = [f EXCEPT !.hitIter = TRUE]
      BY <1>2 DEF StepFlags, ReachedLimit
    <2> QED BY <1>1, <1>2, <2>1 DEF FlagsType
  <1>3. CASE f.iter < f.maxIter
    <2>1. ~(f.iter >= f.maxIter)
      BY <1>1, <1>3
    <2>2. StepFlags(f) = [f EXCEPT !.hitIter = FALSE, !.iter = f.iter + 1, !.hitCost = h]
      BY <2>1 DEF StepFlags, ReachedLimit
    <2>3. h \in BOOLEAN /\ f.iter + 1 \in Nat
      BY <1>1
    <2> HIDE DEF h
    <2>4. StepFlags(f) \in FlagsType
      BY <2>2, <2>3 DEF FlagsType
    <2>5. /\ StepFlags(f).maxIter = f.maxIter /\ StepFlags(f).hitIter = FALSE
          /\ StepFlags(f).iter = f.iter + 1
      BY <2>2 DEF FlagsType
    <2> QED BY <1>3, <2>4, <2>5
  <1>4. f.iter >= f.maxIter \/ f.iter < f.maxIter
    BY <1>1
  <1> QED BY <1>2, <1>3, <1>4, Zenon

(* A step ends before it began, in an error, or calls the LLM. *)
MayCall(w, c) == w.ctl[c].state = "RUNNING" /\ w.ctl[c].pending = NoAction

Fails(w, c, r) ==
    /\ MayCall(w, c)
    /\ Good(r) /\ Quiet(w, r) /\ r.delegated = w.delegated /\ r.stepping = w.stepping
    /\ r.flags \in {w.flags, StepFlags(w.flags)}
    /\ r.errors = IF c = "parent" THEN w.errors + 1 ELSE w.errors
    /\ \A d \in Controllers : d # c => r.ctl[d] = w.ctl[d]
    /\ r.ctl[c].state = "ERROR" /\ r.ctl[c].pending = NoAction
    /\ r.ctl[c].answered = w.ctl[c].answered /\ r.ctl[c].asked = w.ctl[c].asked
    /\ r.ctl[c].lastDelegate = w.ctl[c].lastDelegate
    /\ r.stream = Append(w.stream, StateEvent("ERROR"))

Calls(w, c, r) ==
    /\ MayCall(w, c)
    /\ Good(r) /\ r.stream = w.stream /\ r.ctl = w.ctl /\ r.delegated = w.delegated
    /\ r.errors = w.errors /\ r.stepping = c
    /\ r.flags = StepFlags(w.flags) /\ ~r.flags.hitIter

LEMMA FailsFacts ==
    ASSUME NEW w, Good(w), NEW c \in Controllers, MayCall(w, c), NEW x \in ErrKinds
    PROVE  /\ Fails(w, c, ReactToException(w, c, x))
           /\ \A f \in FlagsType : f = StepFlags(w.flags) =>
                 Fails(w, c, ReactToException([w EXCEPT !.flags = f], c, x))
  <1>1. StateEvent("ERROR") \in GoodEvent
    BY StateGood DEF AgentStates
  <1>2. ASSUME NEW v, Good(v), v.stream = w.stream, v.ctl = w.ctl, v.delegated = w.delegated,
               v.stepping = w.stepping, v.errors = w.errors, v.flags \in {w.flags, StepFlags(w.flags)}
        PROVE  Fails(w, c, ReactToException(v, c, x))
    <2> DEFINE r == ReactToException(v, c, x)
    <2>1. /\ Good(r) /\ Quiet(v, r) /\ r.flags = v.flags /\ r.delegated = v.delegated
          /\ r.stepping = v.stepping
          /\ r.errors = IF c = "parent" THEN v.errors + 1 ELSE v.errors
          /\ \A d \in Controllers : d # c => r.ctl[d] = v.ctl[d]
          /\ r.ctl[c].state = "ERROR"
          /\ r.ctl[c].answered = v.ctl[c].answered /\ r.ctl[c].asked = v.ctl[c].asked
          /\ r.ctl[c].lastDelegate = v.ctl[c].lastDelegate
          /\ \/ v.ctl[c].state = "ERROR"
             \/ Entered(v, c, "ERROR", r)
      BY <1>2, ReactFacts
    <2>2. DroppedSilently(v, c, "ERROR", r)
      BY <1>2, <2>1 DEF MayCall, Entered, Dropped, DroppedSilently, Reissued, Plainly, Silenced, AnswerStates
    <2>3. Quiet(w, r)
      BY <1>2, <2>1 DEF Quiet, Grew
    <2> HIDE DEF r
    <2> QED BY <1>2, <2>1, <2>2, <2>3 DEF Fails, DroppedSilently, r
  <1>3. Fails(w, c, ReactToException(w, c, x))
    BY <1>2
  <1>4. ASSUME NEW f \in FlagsType, f = StepFlags(w.flags)
        PROVE  Fails(w, c, ReactToException([w EXCEPT !.flags = f], c, x))
    <2> DEFINE v == [w EXCEPT !.flags = f]
    <2>1. /\ Good(v) /\ v.flags = f /\ v.stream = w.stream /\ v.ctl = w.ctl
          /\ v.delegated = w.delegated /\ v.stepping = w.stepping /\ v.errors = w.errors
      BY WithFlags, Zenon
    <2> HIDE DEF v
    <2>2. Fails(w, c, ReactToException(v, c, x))
      BY <1>2, <1>4, <2>1
    <2> QED BY <2>2 DEF v
  <1> QED BY <1>3, <1>4

LEMMA StepFacts ==
    ASSUME NEW w, Good(w), NEW c \in Controllers, NEW stuck \in BOOLEAN
    PROVE  LET r == Step(w, c, stuck) IN
           \/ r = w /\ ~MayCall(w, c)
           \/ Fails(w, c, r)
           \/ Calls(w, c, r)
  <1> DEFINE f == StepFlags(w.flags)
             w1 == [w EXCEPT !.flags = f]
             r == Step(w, c, stuck)
  <1>1. w.flags \in FlagsType
    BY Fields
  <1>2. f \in FlagsType /\ f.hitIter \in BOOLEAN /\ f.hitCost \in BOOLEAN
    <2>1. f \in FlagsType
      BY <1>1, StepFlagsFacts
    <2> QED BY <2>1 DEF FlagsType
  <1>3. "other" \in ErrKinds /\ "limit" \in ErrKinds
    BY DEF ErrKinds
  <1>4. CASE ~MayCall(w, c)
    BY <1>4 DEF Step, MayCall, HasPending
  <1>5. CASE MayCall(w, c)
    <2>1. ~(w.ctl[c].state # "RUNNING" \/ HasPending(w, c))
      BY <1>5 DEF MayCall, HasPending
    <2>2. \/ r = ReactToException(w, c, "other")
          \/ r = ReactToException(w1, c, "limit")
          \/ r = ReactToException(w1, c, "other")
          \/ r = [w1 EXCEPT !.stepping = c] /\ ~f.hitIter
      <3> HIDE DEF f
      <3> QED BY <1>2, <2>1 DEF Step, f
    <2>3. CASE r = ReactToException(w, c, "other")
      BY <1>3, <1>5, <2>3, FailsFacts
    <2>4. CASE r = ReactToException(w1, c, "limit")
      <3> HIDE DEF f
      <3>1. Fails(w, c, ReactToException(w1, c, "limit"))
        BY <1>2, <1>3, <1>5, FailsFacts, Zenon DEF f
      <3> QED BY <2>4, <3>1
    <2>5. CASE r = ReactToException(w1, c, "other")
      <3> HIDE DEF f
      <3>1. Fails(w, c, ReactToException(w1, c, "other"))
        BY <1>2, <1>3, <1>5, FailsFacts, Zenon DEF f
      <3> QED BY <2>5, <3>1
    <2>6. CASE r = [w1 EXCEPT !.stepping = c] /\ ~f.hitIter
      <3> HIDE DEF f
      <3>1. /\ Good(w1) /\ w1.flags = f /\ w1.stream = w.stream /\ w1.ctl = w.ctl
            /\ w1.delegated = w.delegated /\ w1.stepping = w.stepping /\ w1.errors = w.errors
        BY <1>2, WithFlags, Zenon
      <3> HIDE DEF w1
      <3>2. w1 \in WorldType /\ \A d \in Controllers : PendingIn(w1.stream, w1.ctl[d].pending)
        BY <3>1 DEF Good
      <3>3. /\ r \in WorldType /\ r.stepping = c /\ r.stream = w1.stream /\ r.ctl = w1.ctl
            /\ r.delegated = w1.delegated /\ r.flags = w1.flags /\ r.errors = w1.errors
        BY <2>6, <3>2 DEF WorldType
      <3>4. Good(r)
        BY <3>2, <3>3 DEF Good
      <3>5. Calls(w, c, r)
        <4> HIDE DEF r
        <4> QED BY <1>5, <2>6, <3>1, <3>3, <3>4 DEF Calls, f
      <3> QED BY <3>5
    <2> QED BY <2>2, <2>3, <2>4, <2>5, <2>6
  <1> QED BY <1>4, <1>5

-----------------------------------------------------------------------------
(* What the LLM's answer leads to.                                         *)

Runs(n, a, g) == [k |-> "run", id |-> n, act |-> a, gated |-> g]

Ran(w, c, g, conf, r) ==
    /\ Good(r) /\ Frame(w, c, r) /\ r.flags = w.flags
    /\ r.ctl[c].state = w.ctl[c].state
    /\ r.ctl[c].pending = Runs(Len(w.stream) + 1, w.flags.iter, g)
    /\ r.stream = Append(w.stream, RunEvent(Runs(Len(w.stream) + 1, w.flags.iter, g), conf))

LEMMA RunEventGood ==
    ASSUME NEW p, p.act \in Nat, NEW conf \in Confirmation
    PROVE  LET e == RunEvent(p, conf) IN
           /\ e \in GoodEvent /\ e.k = "run" /\ e.act = p.act /\ IsQuiet(e)
           /\ e.x = (IF p.gated THEN conf ELSE "confirmed") /\ e.cause = 0
  <1> DEFINE x == IF p.gated THEN conf ELSE "confirmed"
  <1>1. x \in Confirmation
    BY DEF Confirmation
  <1>2. RunEvent(p, conf) = Event("run", x, 0, p.act)
    BY DEF RunEvent
  <1> HIDE DEF x
  <1>3. /\ RunEvent(p, conf) \in GoodEvent /\ RunEvent(p, conf).k = "run" /\ RunEvent(p, conf).x = x
        /\ RunEvent(p, conf).act = p.act /\ RunEvent(p, conf).cause = 0
    BY <1>1, <1>2, EventGood DEF ActionKinds
  <1>4. IsQuiet(RunEvent(p, conf))
    BY <1>3 DEF IsQuiet, IsDelegated
  <1> QED BY <1>3, <1>4 DEF x

LEMMA RunnableFacts ==
    ASSUME NEW w, Good(w), NEW c \in Controllers, NEW g \in BOOLEAN, NEW conf \in Confirmation
    PROVE  Ran(w, c, g, conf, Runnable(w, c, g, conf)) /\ Quiet(w, Runnable(w, c, g, conf))
  <1> DEFINE n == Len(w.stream) + 1
             p == Runs(n, w.flags.iter, g)
             e == RunEvent(p, conf)
             r == Runnable(w, c, g, conf)
  <1>1. n \in Nat /\ n = Len(w.stream) + 1 /\ w.flags.iter \in Nat
    BY Fields DEF FlagsType
  <1>2. p \in PendingType /\ p.k = "run" /\ p.id = n /\ p.act = w.flags.iter /\ p.act \in Nat
    BY <1>1 DEF PendingType, Runs
  <1>3. r = Emit([w EXCEPT !.ctl[c].pending = p], e)
    BY DEF Runnable, Runs
  <1> HIDE DEF p, n
  <1>4. e \in GoodEvent /\ e.k = "run" /\ e.act = p.act /\ IsQuiet(e)
    BY <1>2, RunEventGood
  <1> HIDE DEF e
  <1>5. LET q == Emit([w EXCEPT !.ctl[c].pending = p], e) IN
        /\ Good(q) /\ Frame(w, c, q) /\ q.flags = w.flags /\ q.stream = Append(w.stream, e)
        /\ q.ctl[c].state = w.ctl[c].state /\ q.ctl[c].pending = p
    <2>1. p.k \in {"recall", "run"} /\ p.id = Len(w.stream) + 1 /\ e.k = p.k /\ e.act = p.act
      BY <1>1, <1>2, <1>4
    <2> QED BY <2>1, <1>2, <1>4, PendingAdded, ZenonT(60)
  <1>6. /\ Good(r) /\ Frame(w, c, r) /\ r.flags = w.flags /\ r.stream = Append(w.stream, e)
        /\ r.ctl[c].state = w.ctl[c].state /\ r.ctl[c].pending = p
    BY <1>3, <1>5, Zenon
  <1> HIDE DEF r
  <1>7. Quiet(w, r)
    BY <1>4, <1>6, GrewOne
  <1> QED BY <1>6, <1>7 DEF Ran, r, e, p, n

(* The state change, then the action that waits for the user's answer. *)
AskedFor(w, c, g, r) ==
    LET v == SetState(w, c, "AWAITING_USER_CONFIRMATION")
        p == Runs(Len(v.stream) + 1, w.flags.iter, g)
    IN  /\ Good(r) /\ Quiet(w, r) /\ r.flags = w.flags /\ r.delegated = w.delegated
        /\ r.stepping = w.stepping /\ r.errors = w.errors
        /\ \A d \in Controllers : d # c => r.ctl[d] = w.ctl[d]
        /\ r.ctl[c].err = w.ctl[c].err /\ r.ctl[c].nested = w.ctl[c].nested
        /\ r.ctl[c].answered = w.ctl[c].answered /\ r.ctl[c].lastDelegate = w.ctl[c].lastDelegate
        /\ r.ctl[c].asked = w.ctl[c].asked \cup {w.flags.iter}
        /\ r.ctl[c].state = "AWAITING_USER_CONFIRMATION"
        /\ r.ctl[c].pending = p
        /\ r.stream = Append(v.stream, RunEvent(p, "awaiting"))

LEMMA AskFacts ==
    ASSUME NEW w, Good(w), NEW c \in Controllers, NEW g \in BOOLEAN
    PROVE  AskedFor(w, c, g, Ask(w, c, g))
  <1> DEFINE v == SetState(w, c, "AWAITING_USER_CONFIRMATION")
             q == Runnable(v, c, g, "awaiting")
             a == q.ctl[c].asked \cup {w.flags.iter}
             r == Ask(w, c, g)
  <1>0. "AWAITING_USER_CONFIRMATION" \in AgentStates /\ "awaiting" \in Confirmation
    BY DEF AgentStates, Confirmation
  <1>1. /\ Good(v) /\ Frame(w, c, v) /\ v.ctl[c].state = "AWAITING_USER_CONFIRMATION"
        /\ v.flags = FlagsAfter(w, c, "AWAITING_USER_CONFIRMATION") /\ Quiet(w, v)
    BY <1>0, SetStateFacts, SetStateQuiet
  <1>2. v.flags = w.flags
    BY <1>1 DEF FlagsAfter
  <1> HIDE DEF v
  <1>3. Ran(v, c, g, "awaiting", q) /\ Quiet(v, q)
    BY <1>0, <1>1, RunnableFacts
  <1>4. Good(q) /\ Quiet(w, q)
    BY <1>1, <1>3, QuietTrans DEF Ran
  <1>5. w.flags.iter \in Nat
    BY Fields DEF FlagsType
  <1>6. q \in WorldType /\ q.ctl \in [Controllers -> CtlType] /\ q.ctl[c] \in CtlType
        /\ \A d \in Controllers : PendingIn(q.stream, q.ctl[d].pending)
    BY <1>4 DEF Good, WorldType
  <1>7. r = [q EXCEPT !.ctl[c].asked = a]
    BY <1>6 DEF Ask, v, WorldType
  <1>8. a \in SUBSET Nat
    BY <1>5, <1>6 DEF CtlType
  <1> HIDE DEF q, a
  <1>9. /\ r.stream = q.stream /\ r.flags = q.flags /\ r.delegated = q.delegated
        /\ r.stepping = q.stepping /\ r.errors = q.errors
        /\ r.ctl = [q.ctl EXCEPT ![c] = [q.ctl[c] EXCEPT !.asked = a]]
    BY <1>6, <1>7 DEF WorldType
  <1>10. /\ r.ctl[c] = [q.ctl[c] EXCEPT !.asked = a]
         /\ \A d \in Controllers : d # c => r.ctl[d] = q.ctl[d]
    BY <1>6, <1>9
  <1>11. /\ r.ctl[c] \in CtlType /\ r.ctl[c].state = q.ctl[c].state
         /\ r.ctl[c].pending = q.ctl[c].pending /\ r.ctl[c].asked = a
         /\ r.ctl[c].err = q.ctl[c].err /\ r.ctl[c].nested = q.ctl[c].nested
         /\ r.ctl[c].answered = q.ctl[c].answered
         /\ r.ctl[c].lastDelegate = q.ctl[c].lastDelegate
    <2> HIDE DEF r
    <2> QED BY <1>6, <1>8, <1>10 DEF CtlType
  <1>12. r.ctl \in [Controllers -> CtlType]
    BY <1>6, <1>9, <1>10, <1>11
  <1>13. r \in WorldType
    BY <1>6, <1>7, <1>9, <1>12 DEF WorldType
  <1> HIDE DEF r
  <1>14. Good(r) /\ Quiet(w, r)
    BY <1>4, <1>6, <1>9, <1>10, <1>11, <1>13 DEF Good, Quiet, Grew
  <1>15. a = w.ctl[c].asked \cup {w.flags.iter}
    BY <1>1, <1>3 DEF a, Ran, Frame
  <1> QED BY <1>1, <1>2, <1>3, <1>9, <1>10, <1>11, <1>14, <1>15 DEF AskedFor, Ran, Frame, r, v

(* An answer that only adds an event, and the event it adds. *)
Adds == {"message", "wait", "malformed", "condense", "think", "finish", "reject",
         "delegate", "delegateIdle"}

Added(o, act) ==
    CASE o = "message"   -> Event("message", "plain", 0, act)
      [] o = "wait"      -> Event("message", "wait", 0, act)
      [] o = "malformed" -> Event("obs", "error", 0, 0)
      [] o = "condense"  -> Event("condense", "none", 0, 0)
      [] o = "delegate"     -> Event("delegate", "task", 0, act)
      [] o = "delegateIdle" -> Event("delegate", "none", 0, act)
      [] o \in {"think", "finish", "reject"} -> Event(o, "none", 0, act)

LEMMA AddedGood ==
    ASSUME NEW o \in Adds, NEW act \in Nat
    PROVE  LET e == Added(o, act) IN
           /\ e \in GoodEvent /\ e.cause = 0 /\ (IsQuiet(e) \/ e.k = "delegate")
           /\ e.k \in {"message", "obs", "condense", "think", "finish", "reject", "delegate"}
           /\ e.k = "message" => e.x \in {"wait", "plain"}
           /\ e.k = "obs" => e.x = "error" /\ e.act = 0
           /\ e.k = "think" => o = "think"
           /\ e.k = "delegate" => o \in {"delegate", "delegateIdle"} /\ e.act = act
           /\ e.k \in {"think", "finish", "reject"} => e.act = act
  <1>1. CASE o = "message"
    BY <1>1 DEF Added, Event, GoodEvent, EventType, ActionKinds, IsQuiet, IsDelegated
  <1>2. CASE o = "wait"
    BY <1>2 DEF Added, Event, GoodEvent, EventType, ActionKinds, IsQuiet, IsDelegated
  <1>3. CASE o = "malformed"
    BY <1>3 DEF Added, Event, GoodEvent, EventType, ActionKinds, IsQuiet, IsDelegated, Answers
  <1>4. CASE o = "condense"
    BY <1>4 DEF Added, Event, GoodEvent, EventType, ActionKinds, IsQuiet, IsDelegated
  <1>5. CASE o \in {"think", "finish", "reject"}
    BY <1>5 DEF Added, Event, GoodEvent, EventType, ActionKinds, IsQuiet, IsDelegated
  <1>6. CASE o \in {"delegate", "delegateIdle"}
    BY <1>6 DEF Added, Event, GoodEvent, EventType, ActionKinds
  <1> QED BY <1>1, <1>2, <1>3, <1>4, <1>5, <1>6 DEF Adds

(* The rest of the answers. *)
Failures == {"failure", "rateLimit", "rateLimitExhausted"}

LEMMA ProduceCases ==
    ASSUME NEW w, NEW c, NEW o \in AllOutcomes
    PROVE  LET r == Produce(w, c, o) IN
           \/ o = "run" /\ r = Runnable(w, c, TRUE, "confirmed")
           \/ o = "ask" /\ r = Ask(w, c, TRUE)
           \/ o = "askUngated" /\ r = Ask(w, c, FALSE)
           \/ o \in Adds /\ r = Emit(w, Added(o, w.flags.iter))
           \/ o \in Failures /\ r = ReactToException(w, c, "other")
           \/ o = "rateLimit" /\ c = "parent" /\ r = SetState(w, c, "RATE_LIMITED")
           \/ o = "rateLimitExhausted" /\ c = "parent"
              /\ r = SetState([w EXCEPT !.ctl[c].err = "other"], c, "ERROR")
  <1>1. CASE o = "run"
    BY <1>1 DEF Produce
  <1>2. CASE o = "ask"
    BY <1>2 DEF Produce
  <1>3. CASE o = "askUngated"
    BY <1>3 DEF Produce
  <1>4. CASE o = "message"
    BY <1>4 DEF Produce, Adds, Added
  <1>5. CASE o = "wait"
    BY <1>5 DEF Produce, Adds, Added
  <1>6. CASE o = "malformed"
    BY <1>6 DEF Produce, Adds, Added
  <1>7. CASE o = "condense"
    BY <1>7 DEF Produce, Adds, Added
  <1>8. CASE o \in {"think", "finish", "reject", "delegate", "delegateIdle"}
    BY <1>8 DEF Produce, Adds, Added
  <1>9. CASE o = "failure"
    BY <1>9 DEF Produce, Failures
  <1>10. CASE o = "rateLimit"
    BY <1>10 DEF Produce, Failures
  <1>11. CASE o = "rateLimitExhausted"
    BY <1>11 DEF Produce, Failures
  <1> QED BY <1>1, <1>2, <1>3, <1>4, <1>5, <1>6, <1>7, <1>8, <1>9, <1>10, <1>11 DEF AllOutcomes

(* The log grows quietly, or by a delegate action with the call's number. *)
Produced(w, c, r) ==
    /\ Good(r) /\ Grew(w, r) /\ NoChange(w, r)
    /\ r.delegated = w.delegated /\ r.stepping = w.stepping /\ r.flags = w.flags
    /\ \/ Quiet(w, r)
       \/ /\ Len(r.stream) = Len(w.stream) + 1
          /\ r.stream[Len(r.stream)].k = "delegate"
          /\ r.stream[Len(r.stream)].act = w.flags.iter
    /\ \A d \in Controllers : d # c => r.ctl[d] = w.ctl[d]
    /\ r.ctl[c].lastDelegate = w.ctl[c].lastDelegate
    /\ r.ctl[c].state = w.ctl[c].state \/ r.ctl[c].state \notin {"FINISHED", "REJECTED"}
    /\ r.ctl[c].err = w.ctl[c].err \/ r.ctl[c].state = "ERROR"

(* rateLimitExhausted notes the error without reporting it. *)
LEMMA ExhaustedFacts ==
    ASSUME NEW w, Good(w), NEW c \in Controllers
    PROVE  LET v == [w EXCEPT !.ctl[c].err = "other"] IN Noted(w, c, "other", w.errors, v)
  <1> DEFINE v == [w EXCEPT !.ctl[c].err = "other"]
  <1>1. w \in WorldType /\ w.errors \in Nat /\ "other" \in ErrKinds
    BY Fields DEF Good, ErrKinds
  <1>2. v = Failing(w, c, "other", w.errors)
    BY <1>1 DEF Failing, WorldType
  <1> HIDE DEF v
  <1>3. Noted(w, c, "other", w.errors, v)
    BY <1>1, <1>2, WithErr
  <1> QED BY <1>3 DEF v

LEMMA ProduceFacts ==
    ASSUME NEW w, Good(w), NEW c \in Controllers, NEW o \in AllOutcomes
    PROVE  Produced(w, c, Produce(w, c, o))
  <1> DEFINE r == Produce(w, c, o)
  <1>0. /\ "other" \in ErrKinds /\ "RATE_LIMITED" \in AgentStates /\ "ERROR" \in AgentStates
        /\ "confirmed" \in Confirmation
    BY DEF ErrKinds, AgentStates, Confirmation
  <1>1. \/ r = Runnable(w, c, TRUE, "confirmed")
        \/ \E g \in BOOLEAN : r = Ask(w, c, g)
        \/ o \in Adds /\ r = Emit(w, Added(o, w.flags.iter))
        \/ r = ReactToException(w, c, "other")
        \/ r = SetState(w, c, "RATE_LIMITED")
        \/ r = SetState([w EXCEPT !.ctl[c].err = "other"], c, "ERROR")
    BY ProduceCases
  <1> HIDE DEF r
  <1>2. CASE r = Runnable(w, c, TRUE, "confirmed")
    <2>1. Ran(w, c, TRUE, "confirmed", r) /\ Quiet(w, r)
      BY <1>0, <1>2, RunnableFacts
    <2> QED BY <2>1, QuietNoChange DEF Ran, Frame, Produced, r
  <1>3. CASE \E g \in BOOLEAN : r = Ask(w, c, g)
    <2>1. PICK g \in BOOLEAN : r = Ask(w, c, g)
      BY <1>3
    <2>2. AskedFor(w, c, g, r)
      BY <2>1, AskFacts
    <2> QED BY <2>2, QuietNoChange DEF AskedFor, Produced, r
  <1>4. CASE o \in Adds /\ r = Emit(w, Added(o, w.flags.iter))
    <2> DEFINE e == Added(o, w.flags.iter)
    <2>1. w.flags.iter \in Nat
      BY Fields DEF FlagsType
    <2>2. /\ e \in GoodEvent /\ (IsQuiet(e) \/ e.k = "delegate")
          /\ e.k = "delegate" => e.act = w.flags.iter
      BY <1>4, <2>1, AddedGood
    <2> HIDE DEF e
    <2>3. /\ Good(r) /\ r.stream = Append(w.stream, e) /\ r.ctl = w.ctl
          /\ r.delegated = w.delegated /\ r.stepping = w.stepping /\ r.flags = w.flags
          /\ r.errors = w.errors
      BY <1>4, <2>2, EmitFacts DEF e
    <2>4. /\ Grew(w, r) /\ Len(r.stream) = Len(w.stream) + 1 /\ Len(w.stream) \in Nat
          /\ r.stream[Len(w.stream) + 1] = e /\ (IsQuiet(e) => Quiet(w, r))
      BY <2>2, <2>3, GrewOne, Fields
    <2>5. CASE IsQuiet(e)
      BY <2>3, <2>4, <2>5, QuietNoChange DEF Produced, r
    <2>6. CASE e.k = "delegate"
      <3>1. \A k \in Len(w.stream) + 1 .. Len(r.stream) : k = Len(w.stream) + 1
        BY <2>4
      <3>2. NoChange(w, r)
        BY <2>4, <2>6, <3>1 DEF NoChange
      <3> QED BY <2>2, <2>3, <2>4, <2>6, <3>2 DEF Produced, r
    <2> QED BY <2>2, <2>5, <2>6
  <1>5. CASE r = ReactToException(w, c, "other")
    <2>1. /\ Good(r) /\ Quiet(w, r) /\ r.flags = w.flags /\ r.delegated = w.delegated
          /\ r.stepping = w.stepping /\ r.ctl[c].state = "ERROR"
          /\ \A d \in Controllers : d # c => r.ctl[d] = w.ctl[d]
          /\ r.ctl[c].lastDelegate = w.ctl[c].lastDelegate
      BY <1>0, <1>5, ReactFacts
    <2> QED BY <2>1, QuietNoChange DEF Produced, r
  <1>6. CASE r = SetState(w, c, "RATE_LIMITED")
    <2>1. Moved(w, c, r) /\ r.flags = FlagsAfter(w, c, "RATE_LIMITED") /\ r.ctl[c].state = "RATE_LIMITED"
      BY <1>0, <1>6, SetStateMoved
    <2> QED BY <2>1, QuietNoChange DEF Produced, r, Moved, FlagsAfter
  <1>7. CASE r = SetState([w EXCEPT !.ctl[c].err = "other"], c, "ERROR")
    <2> DEFINE v == [w EXCEPT !.ctl[c].err = "other"]
    <2>1. Noted(w, c, "other", w.errors, v)
      BY ExhaustedFacts
    <2> HIDE DEF v
    <2>2. Good(v)
      BY <2>1 DEF Noted
    <2>3. Moved(v, c, r) /\ r.flags = FlagsAfter(v, c, "ERROR") /\ r.ctl[c].state = "ERROR"
      BY <1>0, <1>7, <2>2, SetStateMoved DEF v
    <2>4. Quiet(w, r)
      BY <2>1, <2>3 DEF Noted, Moved, Quiet, Grew
    <2> QED BY <2>1, <2>3, <2>4, QuietNoChange DEF Produced, r, Moved, FlagsAfter, Noted
  <1> QED BY <1>1, <1>2, <1>3, <1>4, <1>5, <1>6, <1>7

(* end_delegate up to the observation. *)
Reported(w, r) ==
    /\ Good(r) /\ Grew(w, r) /\ r.flags = w.flags /\ r.delegated = w.delegated
    /\ r.stepping = w.stepping /\ r.errors = w.errors /\ r.ctl["parent"] = w.ctl["parent"]
    /\ Len(r.stream) > Len(w.stream)
    /\ IsDelegated(r.stream[Len(r.stream)]) /\ r.stream[Len(r.stream)].k = "obs"
    /\ r.stream[Len(r.stream)].act = w.ctl["parent"].lastDelegate
    /\ \A i \in Len(w.stream) + 1 .. Len(r.stream) - 1 : IsQuiet(r.stream[i])

LEMMA ReportFacts ==
    ASSUME NEW w, Good(w)
    PROVE  Reported(w, Report(w))
  <1> DEFINE v == SetState(w, "delegate", "STOPPED")
             e == Event("obs", "delegated", 0, w.ctl["parent"].lastDelegate)
             r == Report(w)
  <1>0. "STOPPED" \in AgentStates /\ "delegate" \in Controllers /\ "parent" \in Controllers
    BY DEF AgentStates, Controllers
  <1>1. w.ctl["parent"].lastDelegate \in Nat
    BY <1>0, Fields DEF CtlType
  <1>2. Moved(w, "delegate", v) /\ v.flags = FlagsAfter(w, "delegate", "STOPPED")
    BY <1>0, SetStateMoved
  <1>3. /\ e \in GoodEvent /\ IsDelegated(e) /\ e.k = "obs"
        /\ e.act = w.ctl["parent"].lastDelegate
    BY <1>1 DEF Event, GoodEvent, EventType, ActionKinds, IsDelegated, Answers
  <1>4. r = Emit(v, e)
    BY DEF Report
  <1> HIDE DEF v, e
  <1>5. Good(v) /\ Quiet(w, v) /\ v.flags = w.flags
    BY <1>2 DEF Moved, FlagsAfter
  <1>6. /\ Good(r) /\ r.stream = Append(v.stream, e) /\ r.ctl = v.ctl
        /\ r.delegated = v.delegated /\ r.stepping = v.stepping /\ r.flags = v.flags
        /\ r.errors = v.errors
    BY <1>3, <1>4, <1>5, EmitFacts
  <1> HIDE DEF r
  <1>7. /\ Grew(v, r) /\ Len(r.stream) = Len(v.stream) + 1 /\ r.stream[Len(v.stream) + 1] = e
    BY <1>3, <1>5, <1>6, GrewOne
  <1>8. Len(v.stream) \in Nat /\ Len(w.stream) \in Nat /\ Len(w.stream) <= Len(v.stream)
    BY <1>5, Fields DEF Quiet, Grew
  <1>9. Grew(w, r)
    BY <1>5, <1>6, <1>7, QuietTrans DEF Quiet
  <1>10. ASSUME NEW i \in Len(w.stream) + 1 .. Len(r.stream) - 1 PROVE IsQuiet(r.stream[i])
    <2>1. i \in Len(w.stream) + 1 .. Len(v.stream) /\ i \in 1 .. Len(v.stream)
      BY <1>7, <1>8
    <2> QED BY <2>1, <1>5, <1>7 DEF Quiet, Grew
  <1>11. v.ctl["parent"] = w.ctl["parent"] /\ v.delegated = w.delegated /\ v.stepping = w.stepping
         /\ v.errors = w.errors
    BY <1>0, <1>2 DEF Moved
  <1>12. Len(r.stream) > Len(w.stream)
    BY <1>7, <1>8
  <1>13. r.stream[Len(r.stream)] = e
    BY <1>7
  <1> QED BY <1>3, <1>5, <1>6, <1>9, <1>10, <1>11, <1>12, <1>13 DEF Reported, r

-----------------------------------------------------------------------------
(* The runtime's and the memory's next event.                              *)

LEMMA LeastExists ==
    ASSUME NEW T \in SUBSET Nat, T # {}
    PROVE  \E x \in T : \A y \in T : x <= y
  <1> DEFINE R == OpToRel(<, Nat)
  <1>1. PICK x \in T : \A y \in T : ~(<<y, x>> \in R)
    BY NatLessThanWellFounded, WFMin
  <1>2. \A y \in T : ~(y < x)
    BY <1>1 DEF OpToRel
  <1> QED BY <1>2

LEMMA NextForRuntime ==
    ASSUME stream \in Seq(GoodEvent), ran \in 0 .. Len(stream), Waiting(ForRuntime, ran)
    PROVE  LET i == NextOf(ForRuntime, ran) IN
           /\ i \in ran + 1 .. Len(stream) /\ i \in 1 .. Len(stream) /\ ForRuntime(stream[i])
           /\ \A j \in ran + 1 .. i - 1 : ~ForRuntime(stream[j])
  <1> DEFINE T == {i \in ran + 1 .. Len(stream) : ForRuntime(stream[i])}
  <1>0. Len(stream) \in Nat /\ ran \in Nat
    OBVIOUS
  <1>1. T \in SUBSET Nat /\ T # {}
    BY <1>0 DEF Waiting
  <1>2. PICK x \in T : \A y \in T : x <= y
    BY <1>1, LeastExists
  <1>3. x \in ran + 1 .. Len(stream) /\ ForRuntime(stream[x])
    BY <1>2
  <1>4. ASSUME NEW j \in ran + 1 .. x - 1, ForRuntime(stream[j]) PROVE FALSE
    <2>1. j \in T
      BY <1>0, <1>3, <1>4
    <2> QED BY <1>0, <1>2, <1>3, <2>1
  <1>5. \E i \in (ran + 1) .. Len(stream) :
           ForRuntime(stream[i]) /\ \A j \in (ran + 1) .. (i - 1) : ~ForRuntime(stream[j])
    BY <1>3, <1>4
  <1> DEFINE i == NextOf(ForRuntime, ran)
  <1>6. /\ i \in ran + 1 .. Len(stream) /\ ForRuntime(stream[i])
        /\ \A j \in ran + 1 .. i - 1 : ~ForRuntime(stream[j])
    BY <1>5 DEF NextOf
  <1> HIDE DEF i
  <1>7. i \in 1 .. Len(stream)
    BY <1>0, <1>6
  <1> QED BY <1>6, <1>7, Zenon DEF i

LEMMA NextRecall ==
    ASSUME stream \in Seq(GoodEvent), recalled \in 0 .. Len(stream), Waiting(IsRecall, recalled)
    PROVE  LET i == NextOf(IsRecall, recalled) IN
           /\ i \in recalled + 1 .. Len(stream) /\ i \in 1 .. Len(stream) /\ IsRecall(stream[i])
           /\ \A j \in recalled + 1 .. i - 1 : ~IsRecall(stream[j])
  <1> DEFINE T == {i \in recalled + 1 .. Len(stream) : IsRecall(stream[i])}
  <1>0. Len(stream) \in Nat /\ recalled \in Nat
    OBVIOUS
  <1>1. T \in SUBSET Nat /\ T # {}
    BY <1>0 DEF Waiting
  <1>2. PICK x \in T : \A y \in T : x <= y
    BY <1>1, LeastExists
  <1>3. x \in recalled + 1 .. Len(stream) /\ IsRecall(stream[x])
    BY <1>2
  <1>4. ASSUME NEW j \in recalled + 1 .. x - 1, IsRecall(stream[j]) PROVE FALSE
    <2>1. j \in T
      BY <1>0, <1>3, <1>4
    <2> QED BY <1>0, <1>2, <1>3, <2>1
  <1>5. \E i \in (recalled + 1) .. Len(stream) :
           IsRecall(stream[i]) /\ \A j \in (recalled + 1) .. (i - 1) : ~IsRecall(stream[j])
    BY <1>3, <1>4
  <1> DEFINE i == NextOf(IsRecall, recalled)
  <1>6. /\ i \in recalled + 1 .. Len(stream) /\ IsRecall(stream[i])
        /\ \A j \in recalled + 1 .. i - 1 : ~IsRecall(stream[j])
    BY <1>5 DEF NextOf
  <1> HIDE DEF i
  <1>7. i \in 1 .. Len(stream)
    BY <1>0, <1>6
  <1> QED BY <1>6, <1>7, Zenon DEF i

-----------------------------------------------------------------------------
(* The steps of the specification, as steps of the world.                  *)

LEMMA WorldFields ==
    /\ World.stream = stream /\ World.ctl = ctl /\ World.delegated = delegated
    /\ World.stepping = stepping /\ World.flags = flags /\ World.errors = errors
  BY DEF World

LEMMA NewWorldFields ==
    /\ World'.stream = stream' /\ World'.ctl = ctl' /\ World'.delegated = delegated'
    /\ World'.stepping = stepping' /\ World'.flags = flags' /\ World'.errors = errors'
  BY DEF World

LEMMA BecomesIs ==
    ASSUME NEW r, Good(r), Becomes(r)
    PROVE  World' = r
  <1>1. r \in WorldType
    BY DEF Good
  <1>2. World' = [stream |-> stream', ctl |-> ctl', delegated |-> delegated',
                  stepping |-> stepping', flags |-> flags', errors |-> errors']
    BY DEF World
  <1> QED BY <1>1, <1>2 DEF WorldType, Becomes

TypeInv == TypeOK /\ Good(World)

(* Handling an event: the event, and what it led to. *)
Handles(c, v) ==
    /\ handled' = handled + 1 /\ handled + 1 \in 1 .. Len(stream)
    /\ v = Handle(World, c, handled + 1)
    /\ Good(v) /\ Good(World') /\ Grew(World, v) /\ Grew(v, World') /\ Grew(World, World')
    /\ FlagsFor(World, stream[handled + 1], v)
    /\ \/ /\ stream[handled + 1].k = "delegate"
          /\ \E u : Remembered(World, c, handled + 1, u) /\ Started(u, c, v)
       \/ stream[handled + 1].k # "delegate" /\ Moved(World, c, v)
    /\ \/ ShouldStep(v, c, handled + 1) /\ (Fails(v, c, World') \/ Calls(v, c, World'))
       \/ ShouldStep(v, c, handled + 1) /\ ~MayCall(v, c) /\ World' = v
       \/ ~ShouldStep(v, c, handled + 1) /\ World' = v

LEMMA OnEventFacts ==
    ASSUME TypeInv, NEW c \in Controllers, OnEvent(c)
    PROVE  \E v : Handles(c, v)
  <1> DEFINE i == handled + 1
             v == Handle(World, c, i)
  <1>1. Good(World) /\ handled \in 0 .. Len(stream) /\ Len(stream) \in Nat
    BY Fields, WorldFields DEF TypeInv, TypeOK
  <1>2. i \in 1 .. Len(World.stream) /\ handled' = i
    BY <1>1, WorldFields DEF OnEvent, CallbackMayRun
  <1>3. /\ FlagsFor(World, stream[i], v)
        /\ \/ stream[i].k = "delegate" /\ \E u : Remembered(World, c, i, u) /\ Started(u, c, v)
           \/ stream[i].k # "delegate" /\ Moved(World, c, v)
    BY <1>1, <1>2, HandleFacts, WorldFields
  <1>4. \/ ShouldStep(v, c, i) /\ \E stuck \in {FALSE, MayGetStuck} : Becomes(Step(v, c, stuck))
        \/ ~ShouldStep(v, c, i) /\ Becomes(v)
    BY DEF OnEvent
  <1> HIDE DEF v
  <1>5. Good(v) /\ Grew(World, v)
    <2>1. CASE stream[i].k = "delegate"
      <3>1. PICK u : Remembered(World, c, i, u) /\ Started(u, c, v)
        BY <1>3, <2>1
      <3> QED BY <3>1, WorldFields DEF Remembered, Started, Quiet, Grew
    <2>2. CASE stream[i].k # "delegate"
      BY <1>3, <2>2 DEF Moved, Quiet
    <2> QED BY <2>1, <2>2
  <1>6. /\ Good(World') /\ Grew(v, World')
        /\ \/ ShouldStep(v, c, i) /\ (Fails(v, c, World') \/ Calls(v, c, World'))
           \/ ShouldStep(v, c, i) /\ ~MayCall(v, c) /\ World' = v
           \/ ~ShouldStep(v, c, i) /\ World' = v
    <2>1. CASE ShouldStep(v, c, i)
      <3>1. PICK stuck \in {FALSE, MayGetStuck} : Becomes(Step(v, c, stuck))
        BY <1>4, <2>1
      <3>2. stuck \in BOOLEAN
        BY ConfigAssumption
      <3> DEFINE r == Step(v, c, stuck)
      <3>3. \/ r = v /\ ~MayCall(v, c)
            \/ Fails(v, c, r)
            \/ Calls(v, c, r)
        BY <1>5, <3>2, StepFacts
      <3> HIDE DEF r
      <3>4. Good(r)
        BY <1>5, <3>3 DEF Fails, Calls
      <3>5. World' = r
        BY <3>1, <3>4, BecomesIs DEF r
      <3>6. Grew(v, r)
        BY <1>5, <3>3, QuietSame DEF Fails, Calls, Quiet
      <3> QED BY <2>1, <3>3, <3>4, <3>5, <3>6
    <2>2. CASE ~ShouldStep(v, c, i)
      <3>1. World' = v
        BY <1>4, <1>5, <2>2, BecomesIs
      <3> QED BY <1>5, <2>2, <3>1, QuietSame
    <2> QED BY <2>1, <2>2
  <1>7. Grew(World, World')
    BY <1>1, <1>5, <1>6, QuietTrans
  <1> QED BY <1>1, <1>2, <1>3, <1>5, <1>6, <1>7, WorldFields DEF Handles, v

(* Ending a delegate. *)
Ends(v) ==
    /\ handled' = handled + 1 /\ handled + 1 \in 1 .. Len(stream)
    /\ v = Report(World) /\ Reported(World, v) /\ IsPlaced(v, FALSE, World')
    /\ Good(World') /\ Grew(World, World')

LEMMA EndDelegateFacts ==
    ASSUME TypeInv, EndDelegate
    PROVE  \E v : Ends(v)
  <1> DEFINE v == Report(World)
             r == Placed(v, FALSE)
  <1>1. Good(World) /\ handled \in 0 .. Len(stream) /\ Len(stream) \in Nat
    BY Fields, WorldFields DEF TypeInv, TypeOK
  <1>2. handled + 1 \in 1 .. Len(stream) /\ handled' = handled + 1
    BY <1>1 DEF EndDelegate, CallbackMayRun
  <1>3. Reported(World, v)
    BY <1>1, ReportFacts
  <1>4. Becomes(r)
    BY DEF EndDelegate, Placed
  <1> HIDE DEF v
  <1>5. Good(v) /\ Grew(World, v)
    BY <1>3 DEF Reported
  <1>6. IsPlaced(v, FALSE, r)
    BY <1>5, PlacedFacts
  <1> HIDE DEF r
  <1>7. World' = r
    BY <1>4, <1>6, BecomesIs DEF IsPlaced
  <1>8. Grew(World, World')
    BY <1>5, <1>6, <1>7 DEF Grew, IsPlaced
  <1> QED BY <1>2, <1>3, <1>6, <1>7, <1>8 DEF Ends, IsPlaced, v

(* The LLM's answer. *)
Answering == [World EXCEPT !.stepping = "none", !.flags.cost = @ + 1]

LEMMA AnsweringFacts ==
    ASSUME TypeInv
    PROVE  /\ Good(Answering) /\ Answering.stream = stream /\ Answering.ctl = ctl
           /\ Answering.delegated = delegated /\ Answering.stepping = "none"
           /\ Answering.errors = errors
           /\ Answering.flags.iter = flags.iter /\ Answering.flags.maxIter = flags.maxIter
           /\ Answering.flags.hitIter = flags.hitIter
  <1> DEFINE f == [flags EXCEPT !.cost = flags.cost + 1]
             a == [World EXCEPT !.stepping = "none", !.flags = f]
  <1>1. Good(World) /\ World \in WorldType /\ flags \in FlagsType
    BY Fields, WorldFields DEF TypeInv, Good
  <1>2. flags.cost + 1 \in Nat
    BY <1>1 DEF FlagsType
  <1>3. /\ f \in FlagsType /\ f.iter = flags.iter /\ f.maxIter = flags.maxIter
        /\ f.hitIter = flags.hitIter
    BY <1>1, <1>2 DEF FlagsType
  <1>4. Answering = a
    BY <1>1, WorldFields DEF Answering, WorldType
  <1> HIDE DEF f
  <1>5. /\ a \in WorldType /\ a.stream = stream /\ a.ctl = ctl /\ a.delegated = delegated
        /\ a.stepping = "none" /\ a.errors = errors /\ a.flags = f
    BY <1>1, <1>3, WorldFields DEF WorldType
  <1> HIDE DEF a
  <1>6. Good(a)
    BY <1>1, <1>5, WorldFields DEF Good
  <1> QED BY <1>3, <1>4, <1>5, <1>6

LEMMA LlmReturnsFacts ==
    ASSUME TypeInv, NEW o \in Outcomes, LlmReturns(o)
    PROVE  /\ stepping \in Controllers /\ World' = Produce(Answering, stepping, o)
           /\ Produced(Answering, stepping, World') /\ handled' = handled
           /\ Good(World') /\ Grew(World, World') /\ NoChange(World, World')
  <1> DEFINE r == Produce(Answering, stepping, o)
  <1>1. stepping \in Controllers
    BY DEF LlmReturns, TypeInv, TypeOK
  <1>2. Good(Answering)
    BY AnsweringFacts
  <1>3. o \in AllOutcomes
    BY ConfigAssumption
  <1>4. Produced(Answering, stepping, r)
    BY <1>1, <1>2, <1>3, ProduceFacts
  <1>5. Becomes(r)
    BY DEF LlmReturns, Answering
  <1> HIDE DEF r
  <1>6. World' = r
    BY <1>4, <1>5, BecomesIs DEF Produced
  <1>7. handled' = handled
    BY DEF LlmReturns
  <1>8. Grew(World, World') /\ NoChange(World, World')
    BY <1>4, <1>6, AnsweringFacts, WorldFields DEF Produced, NoChange, Grew
  <1> QED BY <1>1, <1>4, <1>6, <1>7, <1>8 DEF Produced, r

(* The session's ERROR. *)
Lowered == [World EXCEPT !.errors = @ - 1]

LEMMA ApplyStatusErrorFacts ==
    ASSUME TypeInv, ApplyStatusError
    PROVE  /\ Good(Lowered) /\ Lowered.stream = stream /\ Lowered.ctl = ctl
           /\ Lowered.delegated = delegated /\ Lowered.stepping = stepping
           /\ Lowered.flags = flags /\ Lowered.errors = errors - 1
           /\ World' = SetState(Lowered, "parent", "ERROR") /\ handled' = handled
           /\ Moved(Lowered, "parent", World') /\ flags' = flags
           /\ Good(World') /\ Quiet(World, World') /\ errors > 0
  <1>0. "parent" \in Controllers /\ "ERROR" \in AgentStates
    BY DEF Controllers, AgentStates
  <1>1. World \in WorldType /\ Good(World) /\ errors - 1 \in Nat /\ errors > 0
    BY WorldFields DEF TypeInv, Good, ApplyStatusError, TypeOK
  <1>2. Lowered = [World EXCEPT !.errors = errors - 1]
    BY WorldFields, <1>1 DEF Lowered, WorldType
  <1>3. /\ Lowered \in WorldType /\ Lowered.stream = stream /\ Lowered.ctl = ctl
        /\ Lowered.delegated = delegated /\ Lowered.stepping = stepping
        /\ Lowered.flags = flags /\ Lowered.errors = errors - 1
    BY <1>1, <1>2, WorldFields DEF WorldType
  <1>4. Good(Lowered)
    BY <1>1, <1>3, WorldFields DEF Good
  <1> DEFINE r == SetState(Lowered, "parent", "ERROR")
  <1>5. Moved(Lowered, "parent", r) /\ r.flags = FlagsAfter(Lowered, "parent", "ERROR")
    BY <1>0, <1>4, SetStateMoved
  <1>6. Becomes(r)
    BY DEF ApplyStatusError, Lowered
  <1> HIDE DEF r
  <1>7. World' = r
    BY <1>5, <1>6, BecomesIs DEF Moved
  <1>8. flags' = flags
    BY <1>3, <1>5, <1>6 DEF FlagsAfter, Becomes
  <1>9. Quiet(World, World')
    BY <1>3, <1>5, <1>7, WorldFields DEF Moved, Quiet, Grew
  <1>10. handled' = handled
    BY DEF ApplyStatusError
  <1> QED BY <1>1, <1>3, <1>4, <1>5, <1>7, <1>8, <1>9, <1>10 DEF Moved, r

(* An actor beside the controller adds an event, or nothing. *)
Beside(e) == ~IsDelegated(e) /\ ~IsChange(e, "RUNNING") /\ e.k # "delegate"

AddsEvent(e) ==
    /\ e \in GoodEvent /\ Beside(e)
    /\ stream' = Append(stream, e)
    /\ World' = Emit(World, e)
    /\ Good(World') /\ Grew(World, World')

LEMMA AddsEventFacts ==
    ASSUME TypeInv, NEW e \in GoodEvent, Beside(e), stream' = Append(stream, e),
           UNCHANGED <<ctl, delegated, stepping, flags, errors>>
    PROVE  AddsEvent(e)
  <1>1. Good(World) /\ World \in WorldType
    BY DEF TypeInv, Good
  <1> DEFINE r == Emit(World, e)
  <1>2. /\ Good(r) /\ r.stream = Append(stream, e)
        /\ r.ctl = ctl /\ r.delegated = delegated
        /\ r.stepping = stepping /\ r.flags = flags
        /\ r.errors = errors
    BY <1>1, EmitFacts, WorldFields
  <1> HIDE DEF r
  <1>3. Becomes(r)
    BY <1>2 DEF Becomes
  <1>4. World' = r
    BY <1>2, <1>3, BecomesIs
  <1>5. Grew(World, r)
    BY <1>1, <1>2, GrewOne, WorldFields
  <1> QED BY <1>2, <1>4, <1>5 DEF AddsEvent, r

LEMMA StreamType ==
    ASSUME TypeInv
    PROVE  /\ stream \in Seq(GoodEvent) /\ Len(stream) \in Nat
           /\ \A i \in 1 .. Len(stream) : stream[i] \in GoodEvent /\ stream[i].act \in Nat
                                          /\ stream[i].cause \in Nat
  <1>1. stream \in Seq(GoodEvent) /\ Len(stream) \in Nat
    BY Fields, WorldFields DEF TypeInv
  <1>2. \A i \in 1 .. Len(stream) : stream[i] \in GoodEvent
    BY <1>1
  <1> QED BY <1>1, <1>2, GoodFields

ReplyTo(i) == Event("obs", IF stream[i].k = "think" THEN "result" ELSE "refused", i, stream[i].act)

LEMMA RuntimeTakesFacts ==
    ASSUME TypeInv, RuntimeTakes
    PROVE  \E i \in 1 .. Len(stream) :
             /\ i > ran /\ ForRuntime(stream[i]) /\ running = 0
             /\ \A j \in ran + 1 .. i - 1 : ~ForRuntime(stream[j])
             /\ ran' = i
             /\ \/ /\ Executes(stream[i]) /\ running' = i /\ executed' = executed \cup {i}
                   /\ stream' = stream
                \/ /\ Replies(stream[i]) /\ AddsEvent(ReplyTo(i))
                   /\ running' = running /\ executed' = executed
  <1>1. stream \in Seq(GoodEvent) /\ Len(stream) \in Nat /\ ran \in 0 .. Len(stream)
    BY StreamType DEF TypeInv, TypeOK
  <1> DEFINE i == NextOf(ForRuntime, ran)
  <1>2. /\ i \in ran + 1 .. Len(stream) /\ i \in 1 .. Len(stream) /\ ForRuntime(stream[i])
        /\ \A j \in ran + 1 .. i - 1 : ~ForRuntime(stream[j])
    BY <1>1, NextForRuntime, Zenon DEF RuntimeTakes
  <1>3. /\ ran' = i /\ running = 0
        /\ \/ /\ Executes(stream[i]) /\ running' = i /\ executed' = executed \cup {i}
              /\ UNCHANGED stream
           \/ /\ Replies(stream[i]) /\ stream' = Append(stream, ReplyTo(i))
              /\ UNCHANGED <<running, executed>>
        /\ UNCHANGED <<ctl, delegated, stepping, flags, errors>>
    BY Zenon DEF RuntimeTakes, controllerVars, ReplyTo
  <1> HIDE DEF i
  <1>4. ReplyTo(i) \in GoodEvent /\ Beside(ReplyTo(i))
    <2>1. stream[i].act \in Nat /\ i \in Nat
      BY <1>1, <1>2, StreamType
    <2> QED BY <2>1 DEF ReplyTo, Event, GoodEvent, EventType, ActionKinds, Answers,
                        Beside, IsDelegated, IsChange
  <1>5. i > ran
    BY <1>1, <1>2
  <1>6. CASE Executes(stream[i]) /\ running' = i /\ executed' = executed \cup {i} /\ UNCHANGED stream
    BY <1>2, <1>3, <1>5, <1>6
  <1>7. CASE /\ Replies(stream[i]) /\ stream' = Append(stream, ReplyTo(i))
             /\ UNCHANGED <<running, executed>>
    <2>1. AddsEvent(ReplyTo(i))
      BY <1>3, <1>4, <1>7, AddsEventFacts
    <2> QED BY <1>2, <1>3, <1>5, <1>7, <2>1
  <1> QED BY <1>3, <1>6, <1>7

ResultOf(i) == Event("obs", "result", i, stream[i].act)

LEMMA RuntimeFinishesFacts ==
    ASSUME TypeInv, RuntimeFinishes
    PROVE  running \in 1 .. Len(stream) /\ AddsEvent(ResultOf(running))
  <1>1. running \in 1 .. Len(stream) /\ Len(stream) \in Nat
    BY StreamType DEF TypeInv, TypeOK, RuntimeFinishes
  <1>2. stream[running].act \in Nat /\ running \in Nat
    BY <1>1, StreamType
  <1>3. ResultOf(running) \in GoodEvent /\ Beside(ResultOf(running))
    BY <1>2 DEF ResultOf, Event, GoodEvent, EventType, ActionKinds, Answers,
                Beside, IsDelegated, IsChange
  <1>4. stream' = Append(stream, ResultOf(running)) /\ UNCHANGED <<ctl, delegated, stepping, flags, errors>>
    BY DEF RuntimeFinishes, ResultOf, controllerVars
  <1> QED BY <1>1, <1>3, <1>4, AddsEventFacts

RecalledAs(x, i) == Event("obs", x, i, 0)

LEMMA MemoryAnswersFacts ==
    ASSUME TypeInv, MemoryAnswers
    PROVE  \E i \in 1 .. Len(stream) :
             /\ i > recalled /\ IsRecall(stream[i]) /\ recalled' = i
             /\ \A j \in recalled + 1 .. i - 1 : ~IsRecall(stream[j])
             /\ \E x \in {"recalled", "null"} : AddsEvent(RecalledAs(x, i))
  <1>1. stream \in Seq(GoodEvent) /\ Len(stream) \in Nat /\ recalled \in 0 .. Len(stream)
    BY StreamType DEF TypeInv, TypeOK
  <1> DEFINE i == NextOf(IsRecall, recalled)
  <1>2. /\ i \in recalled + 1 .. Len(stream) /\ i \in 1 .. Len(stream) /\ IsRecall(stream[i])
        /\ \A j \in recalled + 1 .. i - 1 : ~IsRecall(stream[j])
    BY <1>1, NextRecall, Zenon DEF MemoryAnswers
  <1>3. /\ recalled' = i
        /\ \E x \in {"recalled", "null"} : stream' = Append(stream, RecalledAs(x, i))
        /\ UNCHANGED <<ctl, delegated, stepping, flags, errors>>
    BY Zenon DEF MemoryAnswers, controllerVars, RecalledAs
  <1> HIDE DEF i
  <1>4. PICK x \in {"recalled", "null"} : stream' = Append(stream, RecalledAs(x, i))
    BY <1>3
  <1>5. RecalledAs(x, i) \in GoodEvent /\ Beside(RecalledAs(x, i))
    <2>1. i \in Nat
      BY <1>1, <1>2
    <2> QED BY <2>1 DEF RecalledAs, Event, GoodEvent, EventType, ActionKinds, Answers,
                        Beside, IsDelegated, IsChange
  <1>6. AddsEvent(RecalledAs(x, i))
    BY <1>3, <1>4, <1>5, AddsEventFacts
  <1>7. i > recalled
    BY <1>1, <1>2
  <1> QED BY <1>2, <1>3, <1>6, <1>7

LEMMA MemoryRaisesFacts ==
    ASSUME TypeInv, MemoryRaises
    PROVE  \E i \in 1 .. Len(stream) :
             /\ i > recalled /\ IsRecall(stream[i]) /\ recalled' = i
             /\ \A j \in recalled + 1 .. i - 1 : ~IsRecall(stream[j])
  <1>1. stream \in Seq(GoodEvent) /\ Len(stream) \in Nat /\ recalled \in 0 .. Len(stream)
    BY StreamType DEF TypeInv, TypeOK
  <1> DEFINE i == NextOf(IsRecall, recalled)
  <1>2. /\ i \in recalled + 1 .. Len(stream) /\ i \in 1 .. Len(stream) /\ IsRecall(stream[i])
        /\ \A j \in recalled + 1 .. i - 1 : ~IsRecall(stream[j])
    BY <1>1, NextRecall, Zenon DEF MemoryRaises
  <1>3. recalled' = i
    BY Zenon DEF MemoryRaises
  <1> HIDE DEF i
  <1>4. i > recalled
    BY <1>1, <1>2
  <1> QED BY <1>2, <1>3, <1>4

(* What the user may ask for. *)
LEMMA UserSendsFacts ==
    ASSUME TypeInv, NEW input \in UserInputs, UserSends(input)
    PROVE  LET e == InputEvent(input) IN
           /\ AddsEvent(e) /\ e.cause = 0 /\ e.act = 0 /\ Offered(input)
           /\ \/ input = "message" /\ e.k = "message" /\ e.x = "user"
              \/ input = "stop" /\ IsChange(e, "STOPPED")
              \/ input = "confirm" /\ IsChange(e, "USER_CONFIRMED")
              \/ input = "refuse" /\ IsChange(e, "USER_REJECTED")
  <1> DEFINE e == InputEvent(input)
  <1>1. input \in AllInputs
    BY ConfigAssumption
  <1>2. /\ e \in GoodEvent /\ Beside(e) /\ e.cause = 0 /\ e.act = 0
        /\ \/ input = "message" /\ e.k = "message" /\ e.x = "user"
           \/ input = "stop" /\ IsChange(e, "STOPPED")
           \/ input = "confirm" /\ IsChange(e, "USER_CONFIRMED")
           \/ input = "refuse" /\ IsChange(e, "USER_REJECTED")
    <2>1. CASE input = "message"
      BY <2>1 DEF InputEvent, Event, GoodEvent, EventType, ActionKinds, Beside, IsDelegated, IsChange
    <2>2. CASE input = "stop"
      BY <2>2 DEF InputEvent, Event, GoodEvent, EventType, ActionKinds, Beside, IsDelegated, IsChange, AgentStates
    <2>3. CASE input = "confirm"
      BY <2>3 DEF InputEvent, Event, GoodEvent, EventType, ActionKinds, Beside, IsDelegated, IsChange, AgentStates
    <2>4. CASE input = "refuse"
      BY <2>4 DEF InputEvent, Event, GoodEvent, EventType, ActionKinds, Beside, IsDelegated, IsChange, AgentStates
    <2> QED BY <1>1, <2>1, <2>2, <2>3, <2>4 DEF AllInputs
  <1>3. stream' = Append(stream, e) /\ UNCHANGED <<ctl, delegated, stepping, flags, errors>> /\ Offered(input)
    BY DEF UserSends, controllerVars
  <1> HIDE DEF e
  <1>4. AddsEvent(e)
    BY <1>2, <1>3, AddsEventFacts
  <1> QED BY <1>2, <1>3, <1>4 DEF e

-----------------------------------------------------------------------------
(* Type correctness.                                                       *)

LEMMA GoodIsEventType == GoodEvent \subseteq EventType
  BY DEF GoodEvent

LEMMA GoodWorldType ==
    ASSUME NEW w, Good(w)
    PROVE  /\ w.stream \in Seq(EventType) /\ w.ctl \in [Controllers -> CtlType]
           /\ w.delegated \in BOOLEAN /\ w.stepping \in Controllers \cup {"none"}
           /\ w.flags \in FlagsType /\ w.errors \in Nat
  <1>1. w.stream \in Seq(GoodEvent)
    BY Fields
  <1>2. w.stream \in Seq(EventType)
    BY <1>1, GoodIsEventType
  <1> QED BY <1>2, Fields

(* The conjuncts of the type invariant that speak of the cursors. *)
Cursors ==
    /\ handled \in 0 .. Len(stream)
    /\ ran \in 0 .. Len(stream)
    /\ recalled \in 0 .. Len(stream)
    /\ running \in 0 .. Len(stream)
    /\ executed \subseteq 1 .. Len(stream)
    /\ inputs \in 0 .. MaxInputs
    /\ faults \in 0 .. MaxFaults

LEMMA TypeFromParts == ASSUME Good(World), Cursors PROVE TypeInv
  BY GoodWorldType, WorldFields DEF TypeInv, TypeOK, Cursors

LEMMA InitTypeInv == ASSUME Init PROVE TypeInv
  <1> DEFINE u == Event("message", "user", 0, 0)
             a == Event("change", "RUNNING", 0, 0)
             b == Event("change", "AWAITING_USER_INPUT", 0, 0)
  <1>1. u \in GoodEvent /\ a \in GoodEvent /\ b \in GoodEvent
    BY DEF Event, GoodEvent, EventType, ActionKinds, AgentStates
  <1> HIDE DEF u, a, b
  <1>2. stream \in {<<u, a>>, <<b>>}
    BY DEF Init, u, a, b
  <1>3. stream \in Seq(GoodEvent) /\ Len(stream) \in Nat
    <2>1. <<u, a>> \in Seq(GoodEvent) /\ <<b>> \in Seq(GoodEvent)
      BY <1>1
    <2>2. stream \in Seq(GoodEvent)
      BY <1>2, <2>1
    <2> QED BY <2>2
  <1>4. ctl \in [Controllers -> CtlType] /\ \A c \in Controllers : ctl[c].pending = NoAction
    BY FreshType DEF Init
  <1>5. flags \in FlagsType
    BY LimitsAssumption DEF Init, FlagsType
  <1>6. World \in WorldType
    BY <1>3, <1>4, <1>5 DEF World, WorldType, Init
  <1>7. Good(World)
    BY <1>4, <1>6, NoActionType, WorldFields DEF Good
  <1>8. Cursors
    BY <1>3, LimitsAssumption DEF Init, Cursors
  <1> QED BY <1>7, <1>8, TypeFromParts

(* The cursors stay inside a log that grows. *)
LEMMA CursorsKept ==
    ASSUME TypeInv, Grew(World, World'), Good(World'),
           handled' \in 0 .. Len(stream'),
           ran' = ran, recalled' = recalled, running' = running, executed' = executed,
           inputs' \in 0 .. MaxInputs, faults' \in 0 .. MaxFaults
    PROVE  Cursors'
  <1>1. Len(stream) \in Nat /\ Len(stream') \in Nat /\ Len(stream) <= Len(stream')
    <2>1. World'.stream = stream' /\ Len(World'.stream) \in Nat
      BY Fields, NewWorldFields
    <2> QED BY <2>1, StreamType, WorldFields DEF Grew
  <1> QED BY <1>1 DEF TypeInv, TypeOK, Cursors

LEMMA NextTypeInv == ASSUME TypeInv, [Next]_vars PROVE TypeInv'
  <1>0. Len(stream) \in Nat /\ handled \in 0 .. Len(stream) /\ ran \in 0 .. Len(stream)
        /\ recalled \in 0 .. Len(stream) /\ running \in 0 .. Len(stream)
        /\ executed \subseteq 1 .. Len(stream) /\ inputs \in 0 .. MaxInputs
        /\ faults \in 0 .. MaxFaults
    BY StreamType DEF TypeInv, TypeOK
  <1>00. World'.stream = stream' /\ World.stream = stream
    BY WorldFields, NewWorldFields
  <1>01. Grew(World, World') /\ Good(World') => Len(stream') \in Nat /\ Len(stream) <= Len(stream')
    BY <1>00, Fields DEF Grew
  <1>02. Good(World') /\ Cursors' => TypeInv'
    <2>1. ASSUME Good(World'), Cursors' PROVE TypeInv'
      <3>1. /\ stream' \in Seq(EventType) /\ ctl' \in [Controllers -> CtlType]
            /\ delegated' \in BOOLEAN /\ stepping' \in Controllers \cup {"none"}
            /\ flags' \in FlagsType /\ errors' \in Nat
        BY <2>1, GoodWorldType, NewWorldFields
      <3> QED BY <2>1, <3>1 DEF TypeInv, TypeOK, Cursors, Good
    <2> QED BY <2>1
  <1>1. ASSUME NEW c \in Controllers, OnEvent(c) PROVE TypeInv'
    <2>1. PICK v : Handles(c, v)
      BY <1>1, OnEventFacts
    <2>2. Good(World') /\ Grew(World, World') /\ handled' = handled + 1 /\ handled + 1 \in 1 .. Len(stream)
      BY <2>1 DEF Handles
    <2>3. UNCHANGED <<ran, recalled, running, executed, inputs, faults>>
      BY <1>1 DEF OnEvent, runtimeVars
    <2>4. Cursors'
      BY <1>0, <1>01, <2>2, <2>3, CursorsKept
    <2> QED BY <1>02, <2>2, <2>4
  <1>2. ASSUME EndDelegate PROVE TypeInv'
    <2>1. PICK v : Ends(v)
      BY <1>2, EndDelegateFacts
    <2>2. Good(World') /\ Grew(World, World') /\ handled' = handled + 1 /\ handled + 1 \in 1 .. Len(stream)
      BY <2>1 DEF Ends
    <2>3. UNCHANGED <<ran, recalled, running, executed, inputs, faults>>
      BY <1>2 DEF EndDelegate, runtimeVars
    <2>4. Cursors'
      BY <1>0, <1>01, <2>2, <2>3, CursorsKept
    <2> QED BY <1>02, <2>2, <2>4
  <1>3. ASSUME NEW o \in Outcomes, LlmReturns(o) PROVE TypeInv'
    <2>1. Good(World') /\ Grew(World, World') /\ handled' = handled
      BY <1>3, LlmReturnsFacts
    <2>2. UNCHANGED <<ran, recalled, running, executed, inputs, faults>>
      BY <1>3 DEF LlmReturns, runtimeVars
    <2>3. Cursors'
      BY <1>0, <1>01, <2>1, <2>2, CursorsKept
    <2> QED BY <1>02, <2>1, <2>3
  <1>4. ASSUME ApplyStatusError PROVE TypeInv'
    <2>1. Good(World') /\ Grew(World, World') /\ handled' = handled
      BY <1>4, ApplyStatusErrorFacts DEF Quiet
    <2>2. UNCHANGED <<ran, recalled, running, executed, inputs, faults>>
      BY <1>4 DEF ApplyStatusError, runtimeVars
    <2>3. Cursors'
      BY <1>0, <1>01, <2>1, <2>2, CursorsKept
    <2> QED BY <1>02, <2>1, <2>3
  <1>5. ASSUME RuntimeTakes PROVE TypeInv'
    <2>1. PICK i \in 1 .. Len(stream) :
             /\ ran' = i
             /\ \/ /\ running' = i /\ executed' = executed \cup {i}
                   /\ stream' = stream
                \/ /\ AddsEvent(ReplyTo(i))
                   /\ running' = running /\ executed' = executed
      BY <1>5, RuntimeTakesFacts
    <2>2. UNCHANGED <<handled, ctl, delegated, stepping, flags, recalled, errors, inputs, faults>>
      BY <1>5 DEF RuntimeTakes, controllerVars
    <2>3. CASE running' = i /\ executed' = executed \cup {i} /\ stream' = stream
      <3>1. World' = World
        BY <2>2, <2>3 DEF World
      <3>2. Good(World')
        BY <3>1 DEF TypeInv
      <3>3. Cursors'
        BY <1>0, <2>1, <2>2, <2>3 DEF Cursors
      <3> QED BY <1>02, <3>2, <3>3
    <2>4. CASE AddsEvent(ReplyTo(i)) /\ running' = running /\ executed' = executed
      <3>1. Good(World') /\ Grew(World, World')
        BY <2>4 DEF AddsEvent
      <3>2. Cursors'
        BY <1>0, <1>01, <2>1, <2>2, <2>4, <3>1 DEF Cursors
      <3> QED BY <1>02, <3>1, <3>2
    <2> QED BY <2>1, <2>3, <2>4
  <1>6. ASSUME RuntimeFinishes PROVE TypeInv'
    <2>1. Good(World') /\ Grew(World, World')
      BY <1>6, RuntimeFinishesFacts DEF AddsEvent
    <2>2. running' = 0 /\ UNCHANGED <<handled, ran, recalled, executed, inputs, faults>>
      BY <1>6 DEF RuntimeFinishes, controllerVars
    <2>3. Cursors'
      BY <1>0, <1>01, <2>1, <2>2 DEF Cursors
    <2> QED BY <1>02, <2>1, <2>3
  <1>7. ASSUME RuntimeRaises PROVE TypeInv'
    <2>1. /\ stream' = stream /\ UNCHANGED <<ctl, delegated, stepping, flags>>
          /\ errors' = errors + 1
          /\ running' = 0 /\ UNCHANGED <<handled, ran, recalled, executed, inputs>>
          /\ faults < MaxFaults /\ faults' = faults + 1
      BY <1>7 DEF RuntimeRaises, controllerVars
    <2>2. Good(World')
      <3>1. World \in WorldType /\ \A c \in Controllers : PendingIn(stream, ctl[c].pending)
        BY WorldFields DEF TypeInv, Good
      <3>2. World' = [World EXCEPT !.errors = errors + 1]
        BY <2>1 DEF World
      <3>3. errors + 1 \in Nat
        BY DEF TypeInv, TypeOK
      <3>4. World' \in WorldType
        BY <3>1, <3>2, <3>3 DEF WorldType
      <3> QED BY <2>1, <3>1, <3>4, NewWorldFields DEF Good
    <2>3. Cursors'
      BY <1>0, <2>1, LimitsAssumption DEF Cursors
    <2> QED BY <1>02, <2>2, <2>3
  <1>8. ASSUME MemoryAnswers PROVE TypeInv'
    <2>1. PICK i \in 1 .. Len(stream) :
             /\ recalled' = i
             /\ \E x \in {"recalled", "null"} : AddsEvent(RecalledAs(x, i))
      BY <1>8, MemoryAnswersFacts
    <2>2. Good(World') /\ Grew(World, World')
      BY <2>1 DEF AddsEvent
    <2>3. UNCHANGED <<handled, ran, running, executed, inputs, faults>>
      BY <1>8 DEF MemoryAnswers, controllerVars, runtimeVars
    <2>4. Cursors'
      BY <1>0, <1>01, <2>1, <2>2, <2>3 DEF Cursors
    <2> QED BY <1>02, <2>2, <2>4
  <1>9. ASSUME MemoryRaises PROVE TypeInv'
    <2>0. PICK i \in 1 .. Len(stream) : recalled' = i
      BY <1>9, MemoryRaisesFacts
    <2>1. /\ stream' = stream /\ UNCHANGED <<ctl, delegated, stepping, flags>>
          /\ errors' = errors + 1
          /\ UNCHANGED <<handled, ran, running, executed, inputs>>
          /\ faults < MaxFaults /\ faults' = faults + 1
      BY <1>9, Zenon DEF MemoryRaises, controllerVars, runtimeVars
    <2>2. Good(World')
      <3>1. World \in WorldType /\ \A c \in Controllers : PendingIn(stream, ctl[c].pending)
        BY WorldFields DEF TypeInv, Good
      <3>2. World' = [World EXCEPT !.errors = errors + 1]
        BY <2>1 DEF World
      <3>3. errors + 1 \in Nat
        BY DEF TypeInv, TypeOK
      <3>4. World' \in WorldType
        BY <3>1, <3>2, <3>3 DEF WorldType
      <3> QED BY <2>1, <3>1, <3>4, NewWorldFields DEF Good
    <2>3. Cursors'
      BY <1>0, <2>0, <2>1, LimitsAssumption DEF Cursors
    <2> QED BY <1>02, <2>2, <2>3
  <1>10. ASSUME NEW input \in UserInputs, UserSends(input) PROVE TypeInv'
    <2>1. Good(World') /\ Grew(World, World')
      BY <1>10, UserSendsFacts DEF AddsEvent
    <2>2. /\ UNCHANGED <<handled, ran, recalled, running, executed, faults>>
          /\ inputs < MaxInputs /\ inputs' = inputs + 1
      BY <1>10 DEF UserSends, controllerVars, runtimeVars
    <2>3. Cursors'
      BY <1>0, <1>01, <2>1, <2>2, LimitsAssumption DEF Cursors
    <2> QED BY <1>02, <2>1, <2>3
  <1>11. CASE UNCHANGED vars
    <2>1. UNCHANGED <<stream, ctl, delegated, stepping, flags, errors, handled, ran, recalled,
                      running, executed, inputs, faults>>
      BY <1>11 DEF vars, controllerVars, runtimeVars
    <2>2. World' = World
      BY <2>1 DEF World
    <2>3. Good(World')
      BY <2>2 DEF TypeInv
    <2>4. Cursors'
      BY <1>0, <2>1 DEF Cursors
    <2> QED BY <1>02, <2>3, <2>4
  <1> QED BY <1>1, <1>2, <1>3, <1>4, <1>5, <1>6, <1>7, <1>8, <1>9, <1>10, <1>11
          DEF Next, ControllerNext, LlmNext

LEMMA TypeInvariant == Spec => []TypeInv
  <1>1. Init => TypeInv
    BY InitTypeInv
  <1>2. TypeInv /\ [Next]_vars => TypeInv'
    BY NextTypeInv
  <1> QED BY <1>1, <1>2, PTL DEF Spec

(* Type correctness of the agent controller, for every configuration: the  *)
(* cursors of the controller, the runtime and the memory stay inside the   *)
(* log, and the action the runtime executes is an event of it.             *)
THEOREM TypeCorrect == Spec => []TypeOK
  <1>1. TypeInv => TypeOK
    BY DEF TypeInv
  <1> QED BY <1>1, TypeInvariant, PTL

-----------------------------------------------------------------------------
(* Delegations.                                                            *)

(* The number of the last LLM call that returned: an action of the agent   *)
(* has a number no event of the log has.                                   *)
Top(w) == IF w.stepping = "none" THEN w.flags.iter ELSE w.flags.iter - 1

IsDelegate(e) == e.k = "delegate"

(* The delegate actions of the log. *)
Numbered(w) ==
    /\ Top(w) >= 0
    /\ \A i \in 1 .. Len(w.stream) : IsDelegate(w.stream[i]) => w.stream[i].act \in 1 .. Top(w)
    /\ \A i, j \in 1 .. Len(w.stream) :
          IsDelegate(w.stream[i]) /\ IsDelegate(w.stream[j]) /\ i # j => w.stream[i].act # w.stream[j].act

(* Every report is on an action the controller handled, and on one that    *)
(* no other is on.                                                         *)
ReportsOn(w, h) ==
    /\ \A n \in 1 .. Len(w.stream) : IsDelegated(w.stream[n]) =>
          \E i \in 1 .. n - 1 : i <= h /\ IsDelegate(w.stream[i]) /\ w.stream[i].act = w.stream[n].act
    /\ \A m, n \in 1 .. Len(w.stream) :
          IsDelegated(w.stream[m]) /\ IsDelegated(w.stream[n]) /\ m # n => w.stream[m].act # w.stream[n].act

Last(w) == w.ctl["parent"].lastDelegate
Unreported(w) == \A n \in 1 .. Len(w.stream) : IsDelegated(w.stream[n]) => w.stream[n].act # Last(w)

(* The last delegate action the parent handled. *)
Open(w, h) ==
    /\ Last(w) # 0 => \E i \in 1 .. h : IsDelegate(w.stream[i]) /\ w.stream[i].act = Last(w)
    /\ w.delegated <=> Last(w) # 0 /\ Unreported(w)

Once(w, h) == Numbered(w) /\ ReportsOn(w, h) /\ Open(w, h)

IsFinished(w) ==
    /\ w.delegated
    /\ w.ctl["delegate"].state \in {"FINISHED", "REJECTED"}
    /\ w.ctl["delegate"].err # "limit"

DelegInv ==
    /\ Once(World, handled)
    /\ IsFinished(World) => handled < Len(stream)

LEMMA DelegInvNext ==
    DelegInv' <=> Once(World', handled') /\ (IsFinished(World') => handled' < Len(stream'))
  BY DEF DelegInv, Once, Numbered, ReportsOn, Open, IsFinished, Last, Unreported, Top,
         IsDelegate, IsDelegated

LEMMA TopType == ASSUME NEW w, Good(w) PROVE Top(w) \in Int /\ w.flags.iter \in Nat
  <1>1. w.flags.iter \in Nat
    BY Fields DEF FlagsType
  <1> QED BY <1>1 DEF Top

LEMMA LogFacts ==
    ASSUME NEW w, Good(w)
    PROVE  Len(w.stream) \in Nat /\ \A i \in 1 .. Len(w.stream) : w.stream[i] \in GoodEvent /\ w.stream[i].act \in Nat
  <1>1. w.stream \in Seq(GoodEvent) /\ Len(w.stream) \in Nat
    BY Fields
  <1>2. \A i \in 1 .. Len(w.stream) : w.stream[i] \in GoodEvent
    BY <1>1
  <1> QED BY <1>1, <1>2, GoodFields

(* Nobody asks for a delegate and nobody reports on one. *)
Apart(w, v) ==
    /\ Grew(w, v)
    /\ \A i \in Len(w.stream) + 1 .. Len(v.stream) : ~IsDelegate(v.stream[i]) /\ ~IsDelegated(v.stream[i])

LEMMA OnceKept ==
    ASSUME NEW w, NEW v, Good(w), Good(v), NEW h \in 0 .. Len(w.stream), NEW g \in Nat, h <= g,
           Once(w, h), Apart(w, v), v.delegated = w.delegated, Last(v) = Last(w), Top(w) <= Top(v)
    PROVE  Once(v, g)
  <1> DEFINE s == w.stream
             t == v.stream
             m == Len(s)
             n == Len(t)
  <1>1. /\ m \in Nat /\ n \in Nat /\ m <= n /\ \A i \in 1 .. m : t[i] = s[i]
    BY Fields DEF Apart, Grew
  <1>2. \A i \in 1 .. n : IsDelegate(t[i]) \/ IsDelegated(t[i]) => i \in 1 .. m
    <2>1. \A i \in m + 1 .. n : ~IsDelegate(t[i]) /\ ~IsDelegated(t[i])
      BY DEF Apart
    <2>2. \A i \in 1 .. n : i \in 1 .. m \/ i \in m + 1 .. n
      BY <1>1
    <2> QED BY <2>1, <2>2
  <1>3. Top(w) \in Int /\ Top(v) \in Int /\ \A i \in 1 .. n : t[i].act \in Nat
    BY TopType, LogFacts
  <1>4. Numbered(v)
    <2> HIDE DEF s, t, m, n
    <2>1. /\ Top(w) >= 0
          /\ \A i \in 1 .. m : IsDelegate(s[i]) => s[i].act \in 1 .. Top(w)
          /\ \A i, j \in 1 .. m : IsDelegate(s[i]) /\ IsDelegate(s[j]) /\ i # j => s[i].act # s[j].act
      BY DEF Once, Numbered, s, m
    <2>2. ASSUME NEW i \in 1 .. n, IsDelegate(t[i]) PROVE t[i].act \in 1 .. Top(v)
      <3>1. t[i].act \in 1 .. Top(w)
        BY <1>1, <1>2, <2>1, <2>2
      <3> QED BY <1>3, <3>1
    <2>3. ASSUME NEW i \in 1 .. n, NEW j \in 1 .. n, IsDelegate(t[i]), IsDelegate(t[j]), i # j
          PROVE  t[i].act # t[j].act
      <3>1. i \in 1 .. m /\ j \in 1 .. m
        BY <1>2, <2>3
      <3>2. t[i] = s[i] /\ t[j] = s[j]
        BY <1>1, <3>1
      <3> QED BY <2>1, <2>3, <3>1, <3>2
    <2>4. Top(v) >= 0
      BY <1>3, <2>1
    <2> QED BY <2>2, <2>3, <2>4 DEF Numbered, t, n
  <1>5. ReportsOn(v, g)
    <2>1. ASSUME NEW k \in 1 .. n, IsDelegated(t[k])
          PROVE \E i \in 1 .. k - 1 : i <= g /\ IsDelegate(t[i]) /\ t[i].act = t[k].act
      <3>1. k \in 1 .. m /\ IsDelegated(s[k]) /\ t[k] = s[k]
        BY <1>1, <1>2, <2>1
      <3>2. PICK i \in 1 .. k - 1 : i <= h /\ IsDelegate(s[i]) /\ s[i].act = s[k].act
        BY <3>1 DEF Once, ReportsOn
      <3>3. i \in 1 .. m /\ i <= g
        BY <1>1, <3>1, <3>2
      <3> QED BY <1>1, <3>1, <3>2, <3>3
    <2>2. ASSUME NEW k \in 1 .. n, NEW j \in 1 .. n, IsDelegated(t[k]), IsDelegated(t[j]), k # j
          PROVE  t[k].act # t[j].act
      <3>1. k \in 1 .. m /\ j \in 1 .. m
        BY <1>2, <2>2
      <3>2. t[k] = s[k] /\ t[j] = s[j]
        BY <1>1, <3>1
      <3> QED BY <2>2, <3>1, <3>2 DEF Once, ReportsOn
    <2> QED BY <2>1, <2>2 DEF ReportsOn
  <1>6. Open(v, g)
    <2>1. Unreported(v) <=> Unreported(w)
      <3>1. ASSUME Unreported(w) PROVE Unreported(v)
        BY <1>1, <1>2, <3>1 DEF Unreported
      <3>2. ASSUME Unreported(v) PROVE Unreported(w)
        <4>1. \A i \in 1 .. m : i \in 1 .. n
          BY <1>1
        <4> QED BY <1>1, <3>2, <4>1 DEF Unreported
      <3> QED BY <3>1, <3>2
    <2>2. ASSUME Last(v) # 0 PROVE \E i \in 1 .. g : IsDelegate(t[i]) /\ t[i].act = Last(v)
      <3>1. PICK i \in 1 .. h : IsDelegate(s[i]) /\ s[i].act = Last(w)
        BY <2>2 DEF Once, Open
      <3>2. i \in 1 .. g /\ i \in 1 .. m
        BY <1>1, <3>1
      <3> QED BY <1>1, <3>1, <3>2
    <2> QED BY <2>1, <2>2 DEF Once, Open
  <1> QED BY <1>4, <1>5, <1>6 DEF Once

LEMMA OnceQuiet ==
    ASSUME NEW w, NEW v, Good(w), Good(v), NEW h \in 0 .. Len(w.stream), NEW g \in Nat, h <= g,
           Once(w, h), Quiet(w, v), v.delegated = w.delegated, Last(v) = Last(w), Top(w) <= Top(v)
    PROVE  Once(v, g)
  <1>1. Apart(w, v)
    BY DEF Quiet, IsQuiet, Apart, IsDelegate
  <1> QED BY <1>1, OnceKept

(* The parent handles a delegate action: the delegate is there, and no     *)
(* report is on this action.                                               *)
LEMMA OnceStarted ==
    ASSUME NEW w, NEW v, Good(w), Good(v), NEW h \in 0 .. Len(w.stream) - 1, Once(w, h),
           v.stream = w.stream, Top(v) = Top(w), v.delegated = TRUE,
           IsDelegate(w.stream[h + 1]), Last(v) = w.stream[h + 1].act
    PROVE  Once(v, h + 1)
  <1> DEFINE s == w.stream
             n == Len(s)
  <1>1. n \in Nat /\ h + 1 \in 1 .. n /\ Top(w) \in Int
    BY Fields, TopType
  <1>2. s[h + 1].act \in 1 .. Top(w)
    BY <1>1 DEF Once, Numbered
  <1>3. Numbered(v)
    BY DEF Once, Numbered
  <1>4. ReportsOn(v, h + 1)
    <2>1. \A i \in 1 .. n : i <= h => i <= h + 1
      BY <1>1
    <2>2. ASSUME NEW k \in 1 .. n, IsDelegated(s[k])
          PROVE \E i \in 1 .. k - 1 : i <= h + 1 /\ IsDelegate(s[i]) /\ s[i].act = s[k].act
      <3>1. PICK i \in 1 .. k - 1 : i <= h /\ IsDelegate(s[i]) /\ s[i].act = s[k].act
        BY <2>2 DEF Once, ReportsOn
      <3> QED BY <1>1, <3>1
    <2> QED BY <2>2 DEF Once, ReportsOn
  <1>5. Unreported(v)
    <2> SUFFICES ASSUME NEW k \in 1 .. n, IsDelegated(s[k]), s[k].act = s[h + 1].act PROVE FALSE
      BY DEF Unreported
    <2>1. PICK i \in 1 .. k - 1 : i <= h /\ IsDelegate(s[i]) /\ s[i].act = s[k].act
      BY DEF Once, ReportsOn
    <2>2. i \in 1 .. n /\ i # h + 1
      BY <1>1, <2>1
    <2> QED BY <1>1, <2>1, <2>2 DEF Once, Numbered
  <1>6. Last(v) # 0
    BY <1>1, <1>2
  <1>7. h + 1 \in 1 .. h + 1 /\ IsDelegate(v.stream[h + 1]) /\ v.stream[h + 1].act = Last(v)
    BY <1>1
  <1>8. Open(v, h + 1)
    BY <1>5, <1>6, <1>7 DEF Open
  <1> QED BY <1>3, <1>4, <1>8 DEF Once

(* A delegate action is added, with the number of the call. *)
LEMMA OnceAsked ==
    ASSUME NEW w, NEW v, Good(w), Good(v), NEW h \in 0 .. Len(w.stream), Once(w, h), Grew(w, v),
           Len(v.stream) = Len(w.stream) + 1, IsDelegate(v.stream[Len(v.stream)]),
           v.stream[Len(v.stream)].act = Top(v), Top(v) = Top(w) + 1,
           v.delegated = w.delegated, Last(v) = Last(w)
    PROVE  Once(v, h)
  <1> DEFINE s == w.stream
             t == v.stream
             m == Len(s)
  <1>1. /\ m \in Nat /\ Len(t) = m + 1 /\ \A i \in 1 .. m : t[i] = s[i]
    BY Fields DEF Grew
  <1>2. Top(w) \in Int /\ Top(v) \in Int /\ Top(w) >= 0
    BY TopType DEF Once, Numbered
  <1>3. \A i \in 1 .. m + 1 : i = m + 1 \/ i \in 1 .. m
    BY <1>1
  <1>4. IsDelegate(t[m + 1]) /\ t[m + 1].act = Top(w) + 1 /\ ~IsDelegated(t[m + 1])
    BY <1>1 DEF IsDelegate, IsDelegated
  <1>5. /\ \A i \in 1 .. m : IsDelegate(s[i]) => s[i].act \in 1 .. Top(w)
        /\ \A i, j \in 1 .. m : IsDelegate(s[i]) /\ IsDelegate(s[j]) /\ i # j => s[i].act # s[j].act
    BY DEF Once, Numbered
  <1> HIDE DEF s, t, m
  <1>6. Numbered(v)
    <2>1. ASSUME NEW i \in 1 .. m + 1, IsDelegate(t[i]) PROVE t[i].act \in 1 .. Top(v)
      <3>1. t[i].act \in 1 .. Top(w) \/ t[i].act = Top(w) + 1
        BY <1>1, <1>3, <1>4, <1>5, <2>1
      <3> QED BY <1>2, <3>1
    <2>2. ASSUME NEW i \in 1 .. m + 1, NEW j \in 1 .. m + 1, IsDelegate(t[i]), IsDelegate(t[j]), i # j
          PROVE  t[i].act # t[j].act
      <3>1. CASE i \in 1 .. m /\ j \in 1 .. m
        <4>1. t[i] = s[i] /\ t[j] = s[j]
          BY <1>1, <3>1
        <4> QED BY <1>5, <2>2, <3>1, <4>1
      <3>2. CASE i \in 1 .. m /\ j = m + 1
        <4>1. t[i].act \in 1 .. Top(w) /\ t[j].act = Top(w) + 1
          BY <1>1, <1>4, <1>5, <2>2, <3>2
        <4> QED BY <1>2, <4>1
      <3>3. CASE j \in 1 .. m /\ i = m + 1
        <4>1. t[j].act \in 1 .. Top(w) /\ t[i].act = Top(w) + 1
          BY <1>1, <1>4, <1>5, <2>2, <3>3
        <4> QED BY <1>2, <4>1
      <3> QED BY <1>3, <2>2, <3>1, <3>2, <3>3
    <2>3. Top(v) >= 0
      BY <1>2
    <2> QED BY <1>1, <2>1, <2>2, <2>3 DEF Numbered, t
  <1>7. ReportsOn(v, h)
    <2>1. ASSUME NEW k \in 1 .. m + 1, IsDelegated(t[k])
          PROVE \E i \in 1 .. k - 1 : i <= h /\ IsDelegate(t[i]) /\ t[i].act = t[k].act
      <3>1. k \in 1 .. m /\ t[k] = s[k]
        BY <1>1, <1>3, <1>4, <2>1
      <3>2. PICK i \in 1 .. k - 1 : i <= h /\ IsDelegate(s[i]) /\ s[i].act = s[k].act
        BY <2>1, <3>1 DEF Once, ReportsOn, s, m
      <3>3. i \in 1 .. m
        BY <1>1, <3>1, <3>2
      <3> QED BY <1>1, <3>1, <3>2, <3>3
    <2>2. ASSUME NEW k \in 1 .. m + 1, NEW j \in 1 .. m + 1, IsDelegated(t[k]), IsDelegated(t[j]), k # j
          PROVE  t[k].act # t[j].act
      <3>1. k \in 1 .. m /\ j \in 1 .. m
        BY <1>3, <1>4, <2>2
      <3>2. t[k] = s[k] /\ t[j] = s[j]
        BY <1>1, <3>1
      <3> QED BY <2>2, <3>1, <3>2 DEF Once, ReportsOn, s, m
    <2> QED BY <1>1, <2>1, <2>2 DEF ReportsOn, t
  <1>8. Open(v, h)
    <2>1. Unreported(v) <=> Unreported(w)
      <3>1. ASSUME Unreported(w) PROVE Unreported(v)
        <4>1. \A i \in 1 .. m : IsDelegated(s[i]) => s[i].act # Last(w)
          BY <3>1 DEF Unreported, s, m
        <4>2. \A i \in 1 .. m + 1 : IsDelegated(t[i]) => t[i].act # Last(v)
          BY <1>1, <1>3, <1>4, <4>1
        <4> QED BY <1>1, <4>2 DEF Unreported, t
      <3>2. ASSUME Unreported(v) PROVE Unreported(w)
        <4>1. \A i \in 1 .. m + 1 : IsDelegated(t[i]) => t[i].act # Last(v)
          BY <1>1, <3>2 DEF Unreported, t
        <4>2. \A i \in 1 .. m : i \in 1 .. m + 1
          BY <1>1
        <4>3. \A i \in 1 .. m : IsDelegated(s[i]) => s[i].act # Last(w)
          BY <1>1, <4>1, <4>2
        <4> QED BY <4>3 DEF Unreported, s, m
      <3> QED BY <3>1, <3>2
    <2>2. ASSUME Last(v) # 0 PROVE \E i \in 1 .. h : IsDelegate(t[i]) /\ t[i].act = Last(v)
      <3>1. PICK i \in 1 .. h : IsDelegate(s[i]) /\ s[i].act = Last(w)
        BY <2>2 DEF Once, Open, s
      <3>2. h \in 0 .. m /\ i \in 1 .. m
        BY <1>1, <3>1 DEF s, m
      <3> QED BY <1>1, <3>1, <3>2
    <2> QED BY <2>1, <2>2 DEF Once, Open, t
  <1> QED BY <1>6, <1>7, <1>8 DEF Once

(* The report on the delegate, which is then gone. *)
LEMMA OnceEnded ==
    ASSUME NEW w, NEW v, NEW r, Good(w), Good(v), Good(r), NEW h \in 0 .. Len(w.stream) - 1,
           w.delegated = TRUE, Once(w, h), Reported(w, v), r.stream = v.stream,
           r.delegated = FALSE, Last(r) = Last(w), Top(r) = Top(w)
    PROVE  Once(r, h + 1)
  <1> DEFINE s == w.stream
             t == r.stream
             m == Len(s)
             n == Len(t)
  <1>1. /\ m \in Nat /\ n \in Nat /\ m < n /\ \A i \in 1 .. m : t[i] = s[i]
        /\ IsDelegated(t[n]) /\ t[n].k = "obs" /\ t[n].act = Last(w)
    BY Fields DEF Reported, Grew, Last
  <1>2. \A i \in 1 .. n : i \in 1 .. m \/ i = n \/ i \in m + 1 .. n - 1
    BY <1>1
  <1>3. \A i \in m + 1 .. n - 1 : ~IsDelegate(t[i]) /\ ~IsDelegated(t[i])
    BY DEF Reported, IsQuiet, IsDelegate
  <1>4. \A i \in 1 .. n : (IsDelegate(t[i]) => i \in 1 .. m) /\ (IsDelegated(t[i]) => i \in 1 .. m \/ i = n)
    BY <1>1, <1>2, <1>3 DEF IsDelegate
  <1>5. Last(w) # 0 /\ Unreported(w)
    BY DEF Once, Open
  <1>6. PICK b \in 1 .. h : IsDelegate(s[b]) /\ s[b].act = Last(w)
    BY <1>5 DEF Once, Open
  <1>7. b \in 1 .. m /\ b \in 1 .. n - 1 /\ b <= h + 1 /\ h + 1 \in Nat
    BY <1>1, <1>6
  <1>8. Numbered(r)
    <2>1. ASSUME NEW i \in 1 .. n, IsDelegate(t[i]) PROVE t[i].act \in 1 .. Top(w)
      <3>1. i \in 1 .. m /\ t[i] = s[i]
        BY <1>1, <1>4, <2>1
      <3> QED BY <2>1, <3>1 DEF Once, Numbered
    <2>2. ASSUME NEW i \in 1 .. n, NEW j \in 1 .. n, IsDelegate(t[i]), IsDelegate(t[j]), i # j
          PROVE  t[i].act # t[j].act
      <3>1. i \in 1 .. m /\ j \in 1 .. m
        BY <1>4, <2>2
      <3>2. t[i] = s[i] /\ t[j] = s[j]
        BY <1>1, <3>1
      <3> QED BY <2>2, <3>1, <3>2 DEF Once, Numbered
    <2> QED BY <2>1, <2>2 DEF Once, Numbered
  <1>9. ReportsOn(r, h + 1)
    <2>1. ASSUME NEW k \in 1 .. n, IsDelegated(t[k])
          PROVE \E i \in 1 .. k - 1 : i <= h + 1 /\ IsDelegate(t[i]) /\ t[i].act = t[k].act
      <3>1. CASE k \in 1 .. m
        <4>1. t[k] = s[k]
          BY <1>1, <3>1
        <4>2. PICK i \in 1 .. k - 1 : i <= h /\ IsDelegate(s[i]) /\ s[i].act = s[k].act
          BY <2>1, <3>1, <4>1 DEF Once, ReportsOn
        <4>3. i \in 1 .. m /\ i <= h + 1
          BY <1>1, <3>1, <4>2
        <4> QED BY <1>1, <4>1, <4>2, <4>3
      <3>2. CASE k = n
        BY <1>1, <1>6, <1>7, <3>2
      <3> QED BY <1>4, <2>1, <3>1, <3>2
    <2>2. ASSUME NEW k \in 1 .. n, NEW j \in 1 .. n, IsDelegated(t[k]), IsDelegated(t[j]), k # j
          PROVE  t[k].act # t[j].act
      <3>1. CASE k \in 1 .. m /\ j \in 1 .. m
        <4>1. t[k] = s[k] /\ t[j] = s[j]
          BY <1>1, <3>1
        <4> QED BY <2>2, <3>1, <4>1 DEF Once, ReportsOn
      <3>2. CASE k \in 1 .. m /\ j = n
        BY <1>1, <1>5, <2>2, <3>2 DEF Unreported
      <3>3. CASE j \in 1 .. m /\ k = n
        BY <1>1, <1>5, <2>2, <3>3 DEF Unreported
      <3> QED BY <1>4, <2>2, <3>1, <3>2, <3>3
    <2> QED BY <2>1, <2>2 DEF ReportsOn
  <1>10. ~Unreported(r)
    <2>1. n \in 1 .. n
      BY <1>1
    <2> QED BY <1>1, <2>1 DEF Unreported
  <1>11. Open(r, h + 1)
    <2>1. b \in 1 .. h + 1 /\ IsDelegate(t[b]) /\ t[b].act = Last(r)
      BY <1>1, <1>6, <1>7
    <2> QED BY <1>10, <2>1 DEF Open
  <1> QED BY <1>8, <1>9, <1>11 DEF Once

(* The flags after a step: the number of calls that returned never falls.  *)
LEMMA TopStep ==
    ASSUME NEW v, Good(v), NEW r, Good(r), NEW c \in Controllers, v.stepping = "none",
           Fails(v, c, r) \/ Calls(v, c, r) \/ r = v
    PROVE  Top(v) <= Top(r) /\ Top(v) = v.flags.iter
  <1>1. v.flags \in FlagsType /\ v.flags.iter \in Nat /\ c # "none"
    BY Fields DEF FlagsType, Controllers
  <1>2. CASE Fails(v, c, r)
    <2>1. r.stepping = "none" /\ (r.flags = v.flags \/ r.flags = StepFlags(v.flags))
      BY <1>2 DEF Fails
    <2>2. r.flags.iter = v.flags.iter \/ r.flags.iter = v.flags.iter + 1
      BY <1>1, <2>1, StepFlagsFacts
    <2> QED BY <1>1, <2>1, <2>2 DEF Top
  <1>3. CASE Calls(v, c, r)
    <2>1. r.stepping = c /\ r.flags = StepFlags(v.flags) /\ ~r.flags.hitIter
      BY <1>3 DEF Calls
    <2>2. r.flags.iter = v.flags.iter + 1
      BY <1>1, <2>1, StepFlagsFacts
    <2> QED BY <1>1, <2>1, <2>2 DEF Top
  <1>4. CASE r = v
    BY <1>1, <1>4 DEF Top
  <1> QED BY <1>2, <1>3, <1>4

(* Handling an event calls nobody and counts nothing. *)
LEMMA TopHandled ==
    ASSUME TypeInv, NEW c \in Controllers, NEW v, Handles(c, v), stepping = "none"
    PROVE  v.stepping = "none" /\ v.flags.iter = flags.iter /\ Top(v) = Top(World)
  <1>1. flags \in FlagsType
    BY DEF TypeInv, TypeOK
  <1>2. v.flags = flags \/ v.flags = IncreaseLimits(flags)
    BY WorldFields DEF Handles, FlagsFor
  <1>3. v.flags.iter = flags.iter
    BY <1>1, <1>2, IncreaseFacts
  <1>4. v.stepping = stepping
    <2>1. CASE stream[handled + 1].k = "delegate"
      <3>1. PICK u : Remembered(World, c, handled + 1, u) /\ Started(u, c, v)
        BY <2>1 DEF Handles
      <3> QED BY <3>1, WorldFields DEF Remembered, Started
    <2>2. CASE stream[handled + 1].k # "delegate"
      BY <2>2, WorldFields DEF Handles, Moved
    <2> QED BY <2>1, <2>2
  <1> QED BY <1>3, <1>4, WorldFields DEF Top

(* An LLM call that returned is counted. *)
LEMMA TopReturns ==
    ASSUME TypeInv, NEW o \in Outcomes, LlmReturns(o)
    PROVE  /\ Top(World') = Top(World) + 1 /\ Top(World') = flags.iter
           /\ Top(World') = Answering.flags.iter /\ World'.stepping = "none"
  <1>1. /\ stepping # "none" /\ Answering.stepping = "none" /\ Answering.flags.iter = flags.iter
        /\ Produced(Answering, stepping, World')
    BY LlmReturnsFacts, AnsweringFacts DEF LlmReturns
  <1>2. World'.stepping = "none" /\ World'.flags.iter = flags.iter
    BY <1>1 DEF Produced
  <1>3. flags.iter \in Nat
    BY DEF TypeInv, TypeOK, FlagsType
  <1> QED BY <1>1, <1>2, <1>3, WorldFields DEF Top

LEMMA NextDeleg == ASSUME TypeInv, DelegInv, [Next]_vars PROVE DelegInv'
  <1>0. /\ Good(World) /\ Once(World, handled) /\ (IsFinished(World) => handled < Len(stream))
        /\ handled \in 0 .. Len(World.stream) /\ Len(stream) \in Nat /\ handled \in Nat
        /\ World.stream = stream
    BY StreamType, WorldFields DEF TypeInv, TypeOK, DelegInv
  <1>00. "parent" \in Controllers /\ "delegate" \in Controllers
    BY DEF Controllers
  <1>01. ASSUME Good(World'), Grew(World, World'), IsFinished(World') => IsFinished(World), handled' = handled
         PROVE  IsFinished(World') => handled' < Len(stream')
    <2>1. Len(stream) <= Len(stream') /\ Len(stream') \in Nat
      BY <1>01, Fields, WorldFields, NewWorldFields DEF Grew
    <2> QED BY <1>0, <1>01, <2>1
  <1>02. ASSUME NEW e, AddsEvent(e), UNCHANGED <<handled, ctl, delegated, stepping, flags>> PROVE DelegInv'
    <2>1. Good(World') /\ Grew(World, World') /\ World'.delegated = World.delegated
          /\ World'.stream = Append(World.stream, e) /\ e \in GoodEvent
          /\ ~IsDelegated(e) /\ ~IsDelegate(e)
      BY <1>02, WorldFields, NewWorldFields DEF AddsEvent, Beside, IsDelegate
    <2>2. \A i \in Len(World.stream) + 1 .. Len(World'.stream) : i = Len(World.stream) + 1
          /\ World'.stream[i] = e
      BY <1>0, <2>1, GrewOne, WorldFields
    <2>3. Last(World') = Last(World) /\ Top(World') = Top(World)
      BY <1>02, WorldFields, NewWorldFields DEF Last, Top
    <2>4. Once(World', handled)
      <3>1. Apart(World, World')
        BY <2>1, <2>2 DEF Apart
      <3>2. Top(World) <= Top(World') /\ handled <= handled
        BY <1>0, <2>3, TopType
      <3> QED BY <1>0, <2>1, <2>3, <3>1, <3>2, OnceKept
    <2>5. IsFinished(World') => IsFinished(World)
      BY <1>02, WorldFields, NewWorldFields DEF IsFinished
    <2> QED BY <1>01, <1>02, <2>1, <2>4, <2>5, DelegInvNext
  <1>03. ASSUME UNCHANGED <<stream, handled, ctl, delegated, stepping, flags>> PROVE DelegInv'
    <2>1. /\ World'.stream = World.stream /\ World'.ctl = World.ctl /\ World'.delegated = World.delegated
          /\ World'.stepping = World.stepping /\ World'.flags = World.flags
      BY <1>03, WorldFields, NewWorldFields
    <2>2. Once(World', handled)
      <3>1. Top(World') = Top(World) /\ Last(World') = Last(World)
        BY <2>1 DEF Top, Last
      <3>2. Numbered(World')
        BY <1>0, <2>1, <3>1 DEF Once, Numbered
      <3>3. ReportsOn(World', handled)
        BY <1>0, <2>1 DEF Once, ReportsOn
      <3>4. Open(World', handled)
        BY <1>0, <2>1, <3>1 DEF Once, Open, Unreported
      <3> QED BY <3>2, <3>3, <3>4 DEF Once
    <2> QED BY <1>0, <1>03, <2>1, <2>2, DelegInvNext, WorldFields, NewWorldFields DEF IsFinished
  <1>1. ASSUME NEW c \in Controllers, OnEvent(c) PROVE DelegInv'
    <2> DEFINE i == handled + 1
    <2>1. PICK v : Handles(c, v)
      BY <1>1, OnEventFacts
    <2>2. /\ handled' = i /\ i \in 1 .. Len(stream) /\ Good(v) /\ Good(World')
          /\ Grew(World, v) /\ Grew(v, World')
          /\ \/ Fails(v, c, World')
             \/ Calls(v, c, World')
             \/ World' = v
      BY <2>1 DEF Handles
    <2>3. World'.delegated = v.delegated /\ Quiet(v, World')
      BY <2>2, QuietSame DEF Fails, Calls
    <2>4. /\ stepping = "none" /\ v.stepping = "none" /\ Top(v) = Top(World)
          /\ Top(v) <= Top(World')
      <3>1. stepping = "none"
        BY <1>1 DEF OnEvent, CallbackMayRun
      <3>2. v.stepping = "none" /\ Top(v) = Top(World)
        BY <2>1, <3>1, TopHandled
      <3> QED BY <2>2, <3>1, <3>2, TopStep
    <2>5. Top(World) <= Top(v) /\ Top(World) \in Int
      BY <1>0, <2>4, TopType
    <2>6. Once(v, i)
      <3>1. CASE stream[i].k = "delegate"
        <4>1. PICK u : Remembered(World, c, i, u) /\ Started(u, c, v)
          BY <2>1, <3>1 DEF Handles
        <4>2. /\ u.stream = World.stream /\ u.delegated = World.delegated /\ Good(u)
              /\ u.stepping = World.stepping /\ u.flags = World.flags
          BY <4>1 DEF Remembered
        <4>3. CASE c = "parent"
          <5> DEFINE x == Placed(u, TRUE)
          <5>1. IsPlaced(u, TRUE, x)
            BY <4>2, PlacedFacts
          <5> HIDE DEF x
          <5>2. /\ Good(x) /\ x.stream = World.stream /\ x.delegated = TRUE /\ Top(x) = Top(World)
                /\ Last(x) = stream[i].act
            BY <3>1, <4>1, <4>2, <4>3, <5>1, <1>0 DEF IsPlaced, Top, Last, Remembered
          <5>3. handled \in 0 .. Len(World.stream) - 1
            BY <1>0, <2>2
          <5>4. Once(x, i)
            BY <1>0, <3>1, <5>2, <5>3, OnceStarted DEF IsDelegate
          <5>5. v.delegated = x.delegated /\ Last(v) = Last(x) /\ Quiet(x, v) /\ Top(x) <= Top(v)
            BY <2>4, <2>5, <4>1, <4>2, <4>3, <5>1, <5>2 DEF Started, IsPlaced, Last, Quiet, Grew
          <5>6. i \in 0 .. Len(x.stream) /\ i \in Nat /\ i <= i
            BY <1>0, <2>2, <5>2
          <5> QED BY <2>2, <5>2, <5>4, <5>5, <5>6, OnceQuiet
        <4>4. CASE c = "delegate"
          <5>1. v.delegated = World.delegated /\ Last(v) = Last(World) /\ Quiet(World, v)
            BY <4>1, <4>2, <4>4, <1>00 DEF Started, Remembered, Last, Quiet, Grew
          <5>2. i \in Nat /\ handled <= i
            BY <1>0
          <5> QED BY <1>0, <2>2, <2>5, <5>1, <5>2, OnceQuiet
        <4> QED BY <4>3, <4>4 DEF Controllers
      <3>2. CASE stream[i].k # "delegate"
        <4>1. Moved(World, c, v)
          BY <2>1, <3>2 DEF Handles
        <4>2. v.delegated = World.delegated /\ Last(v) = Last(World) /\ Quiet(World, v)
          <5>1. CASE c = "parent"
            BY <4>1, <5>1 DEF Moved, Last
          <5>2. CASE c # "parent"
            BY <1>00, <4>1, <5>2 DEF Moved, Last
          <5> QED BY <5>1, <5>2
        <4>3. i \in Nat /\ handled <= i
          BY <1>0
        <4> QED BY <1>0, <2>2, <2>5, <4>2, <4>3, OnceQuiet
      <3> QED BY <3>1, <3>2
    <2>7. Once(World', i)
      <3>1. Last(World') = Last(v)
        <4>1. CASE c = "parent"
          BY <2>2, <4>1 DEF Fails, Calls, Last
        <4>2. CASE c # "parent"
          BY <1>00, <2>2, <4>2 DEF Fails, Calls, Last
        <4> QED BY <4>1, <4>2
      <3>2. i \in 0 .. Len(v.stream) /\ i \in Nat /\ i <= i
        BY <1>0, <2>2, Fields DEF Grew
      <3> QED BY <2>2, <2>3, <2>4, <2>6, <3>1, <3>2, OnceQuiet
    <2>8. ASSUME IsFinished(World') PROVE i < Len(stream')
      <3>1. World' = v \/ Calls(v, c, World') \/ (Fails(v, c, World') /\ c # "delegate")
        BY <2>2, <2>8 DEF Fails, IsFinished
      <3>2. IsFinished(v)
        BY <1>00, <2>3, <2>8, <3>1 DEF IsFinished, Calls, Fails
      <3>3. stream[i].k # "delegate"
        <4> SUFFICES ASSUME stream[i].k = "delegate" PROVE FALSE
          OBVIOUS
        <4>1. PICK u : Remembered(World, c, i, u) /\ Started(u, c, v)
          BY <2>1 DEF Handles
        <4>2. CASE c = "parent"
          BY <3>2, <4>1, <4>2 DEF Started, IsFinished
        <4>3. CASE c = "delegate"
          <5>1. ctl["delegate"].state \notin Ended \/ ctl["delegate"].err = "limit"
            BY <1>1, <4>3 DEF OnEvent, Target
          <5>2. v.ctl["delegate"].state = ctl["delegate"].state /\ v.ctl["delegate"].err = ctl["delegate"].err
            BY <4>1, <4>3, WorldFields DEF Started, Remembered
          <5> QED BY <3>2, <5>1, <5>2 DEF IsFinished, Ended
        <4> QED BY <4>2, <4>3 DEF Controllers
      <3>4. Moved(World, c, v)
        BY <2>1, <3>3 DEF Handles
      <3>5. CASE c = "parent"
        <4>1. delegated = TRUE
          BY <3>2, <3>4, WorldFields DEF IsFinished, Moved
        <4> QED BY <1>1, <3>5, <4>1 DEF OnEvent, Target
      <3>6. CASE c = "delegate"
        <4>1. ctl["delegate"].state \notin Ended \/ ctl["delegate"].err = "limit"
          BY <1>1, <3>6 DEF OnEvent, Target
        <4>2. v.ctl["delegate"].err = ctl["delegate"].err
          BY <3>4, <3>6, WorldFields DEF Moved
        <4>3. v.ctl["delegate"].state # ctl["delegate"].state
          BY <3>2, <4>1, <4>2 DEF IsFinished, Ended
        <4>4. Len(stream) < Len(v.stream)
          BY <3>4, <3>6, <4>3, WorldFields DEF Moved
        <4>5. Len(v.stream) <= Len(stream') /\ Len(v.stream) \in Nat /\ Len(stream') \in Nat
          BY <2>2, Fields, NewWorldFields DEF Grew
        <4> QED BY <1>0, <2>2, <4>4, <4>5
      <3> QED BY <3>5, <3>6 DEF Controllers
    <2> QED BY <2>2, <2>7, <2>8, DelegInvNext
  <1>2. ASSUME EndDelegate PROVE DelegInv'
    <2>1. PICK v : Ends(v)
      BY <1>2, EndDelegateFacts
    <2>2. Reported(World, v) /\ IsPlaced(v, FALSE, World') /\ Good(v) /\ Good(World')
          /\ handled' = handled + 1 /\ handled + 1 \in 1 .. Len(stream)
      BY <2>1 DEF Ends, Reported
    <2>3. World.delegated = TRUE
      BY <1>2, WorldFields DEF EndDelegate, Target, TypeInv, TypeOK
    <2>4. Last(World') = Last(World) /\ Top(World') = Top(World)
      BY <2>2 DEF IsPlaced, Reported, Last, Top
    <2>5. handled \in 0 .. Len(World.stream) - 1
      BY <1>0, <2>2
    <2>6. World'.stream = v.stream /\ World'.delegated = FALSE
      BY <2>2 DEF IsPlaced
    <2>7. Once(World', handled + 1)
      BY <1>0, <2>2, <2>3, <2>4, <2>5, <2>6, OnceEnded
    <2>8. ~IsFinished(World')
      BY <2>6 DEF IsFinished
    <2> QED BY <2>2, <2>7, <2>8, DelegInvNext
  <1>3. ASSUME NEW o \in Outcomes, LlmReturns(o) PROVE DelegInv'
    <2>1. /\ stepping \in Controllers /\ Produced(Answering, stepping, World')
          /\ handled' = handled /\ Good(World') /\ Grew(World, World')
      BY <1>3, LlmReturnsFacts
    <2>2. Answering.delegated = delegated /\ Answering.ctl = ctl /\ Answering.stream = stream
      BY AnsweringFacts
    <2>3. World'.delegated = World.delegated /\ Last(World') = Last(World)
      <3>1. CASE stepping = "parent"
        BY <2>1, <2>2, <3>1, WorldFields DEF Produced, Last
      <3>2. CASE stepping = "delegate"
        BY <1>00, <2>1, <2>2, <3>2, WorldFields DEF Produced, Last
      <3> QED BY <2>1, <3>1, <3>2 DEF Controllers
    <2>4. /\ Top(World') = Top(World) + 1 /\ Top(World') = Answering.flags.iter
          /\ Top(World) \in Int /\ Top(World') \in Int
      BY <1>0, <1>3, <2>1, TopReturns, TopType
    <2>5. Once(World', handled)
      <3>1. CASE Quiet(Answering, World')
        <4>1. Quiet(World, World')
          BY <2>2, <3>1, WorldFields DEF Quiet, Grew
        <4>2. Top(World) <= Top(World') /\ handled <= handled
          BY <1>0, <2>4
        <4> QED BY <1>0, <2>1, <2>3, <4>1, <4>2, OnceQuiet
      <3>2. CASE ~Quiet(Answering, World')
        <4>1. /\ Len(World'.stream) = Len(World.stream) + 1
              /\ IsDelegate(World'.stream[Len(World'.stream)])
              /\ World'.stream[Len(World'.stream)].act = Top(World')
          BY <2>1, <2>2, <2>4, <3>2, WorldFields DEF Produced, IsDelegate
        <4> QED BY <1>0, <2>1, <2>3, <2>4, <4>1, OnceAsked
      <3> QED BY <3>1, <3>2
    <2>6. IsFinished(World') => IsFinished(World)
      <3>1. CASE stepping = "delegate"
        BY <2>1, <2>2, <2>3, <3>1, WorldFields DEF Produced, IsFinished
      <3>2. CASE stepping = "parent"
        BY <1>00, <2>1, <2>2, <2>3, <3>2, WorldFields DEF Produced, IsFinished
      <3> QED BY <2>1, <3>1, <3>2 DEF Controllers
    <2> QED BY <1>01, <2>1, <2>5, <2>6, DelegInvNext
  <1>4. ASSUME ApplyStatusError PROVE DelegInv'
    <2>1. /\ Moved(Lowered, "parent", World') /\ handled' = handled /\ Good(World')
          /\ Quiet(World, World') /\ Lowered.ctl = ctl /\ Lowered.delegated = delegated
          /\ Lowered.stepping = stepping /\ flags' = flags
      BY <1>4, ApplyStatusErrorFacts
    <2>2. /\ World'.delegated = World.delegated /\ World'.ctl["delegate"] = World.ctl["delegate"]
          /\ Last(World') = Last(World)
      BY <1>00, <2>1, WorldFields DEF Moved, Last
    <2>3. Top(World') = Top(World) /\ Top(World) \in Int
      BY <1>0, <2>1, TopType, WorldFields, NewWorldFields DEF Moved, Top
    <2>4. Once(World', handled)
      <3>1. Top(World) <= Top(World') /\ handled <= handled
        BY <1>0, <2>3
      <3> QED BY <1>0, <2>1, <2>2, <3>1, OnceQuiet
    <2>5. IsFinished(World') => IsFinished(World)
      BY <2>2 DEF IsFinished
    <2> QED BY <1>01, <2>1, <2>4, <2>5, DelegInvNext DEF Quiet
  <1>5. ASSUME RuntimeTakes PROVE DelegInv'
    <2>1. \E j \in 1 .. Len(stream) : stream' = stream \/ AddsEvent(ReplyTo(j))
      BY <1>5, RuntimeTakesFacts
    <2>2. UNCHANGED <<handled, ctl, delegated, stepping, flags>>
      BY <1>5 DEF RuntimeTakes, controllerVars
    <2> QED BY <1>02, <1>03, <2>1, <2>2
  <1>6. ASSUME RuntimeFinishes PROVE DelegInv'
    <2>1. AddsEvent(ResultOf(running))
      BY <1>6, RuntimeFinishesFacts
    <2>2. UNCHANGED <<handled, ctl, delegated, stepping, flags>>
      BY <1>6 DEF RuntimeFinishes, controllerVars
    <2> QED BY <1>02, <2>1, <2>2
  <1>7. ASSUME RuntimeRaises PROVE DelegInv'
    <2>1. UNCHANGED <<stream, handled, ctl, delegated, stepping, flags>>
      BY <1>7 DEF RuntimeRaises, controllerVars
    <2> QED BY <1>03, <2>1
  <1>8. ASSUME MemoryAnswers PROVE DelegInv'
    <2>1. \E e : AddsEvent(e)
      BY <1>8, MemoryAnswersFacts
    <2>2. UNCHANGED <<handled, ctl, delegated, stepping, flags>>
      BY <1>8, Zenon DEF MemoryAnswers, controllerVars
    <2> QED BY <1>02, <2>1, <2>2
  <1>9. ASSUME MemoryRaises PROVE DelegInv'
    <2>1. UNCHANGED <<stream, handled, ctl, delegated, stepping, flags>>
      BY <1>9, Zenon DEF MemoryRaises, controllerVars
    <2> QED BY <1>03, <2>1
  <1>10. ASSUME NEW input \in UserInputs, UserSends(input) PROVE DelegInv'
    <2>1. AddsEvent(InputEvent(input))
      BY <1>10, UserSendsFacts
    <2>2. UNCHANGED <<handled, ctl, delegated, stepping, flags>>
      BY <1>10 DEF UserSends, controllerVars
    <2> QED BY <1>02, <2>1, <2>2
  <1>11. CASE UNCHANGED vars
    BY <1>03, <1>11 DEF vars, controllerVars
  <1> QED BY <1>1, <1>2, <1>3, <1>4, <1>5, <1>6, <1>7, <1>8, <1>9, <1>10, <1>11
          DEF Next, ControllerNext, LlmNext

LEMMA InitDeleg == ASSUME Init PROVE DelegInv
  <1>1. /\ delegated = FALSE /\ stepping = "none" /\ flags.iter = 0 /\ handled = 0
        /\ ctl["parent"].lastDelegate = 0
    BY DEF Init, Controllers, Fresh
  <1>2. Len(stream) \in {1, 2} /\ \A i \in 1 .. Len(stream) : ~IsDelegate(stream[i]) /\ ~IsDelegated(stream[i])
    BY DEF Init, Event, IsDelegate, IsDelegated
  <1> QED BY <1>1, <1>2, WorldFields
          DEF DelegInv, Once, Numbered, ReportsOn, Open, IsFinished, Last, Unreported, Top

LEMMA DelegInvariant == Spec => []DelegInv
  <1>1. Init => DelegInv
    BY InitDeleg
  <1>2. TypeInv /\ DelegInv /\ [Next]_vars => DelegInv'
    BY NextDeleg
  <1> QED BY <1>1, <1>2, TypeInvariant, PTL DEF Spec

(* Every delegation is settled, for every configuration: a delegate that   *)
(* finished, and never hit the limit, is ended once the log is handled,    *)
(* every report is on a delegate action no other report is on, and the     *)
(* last one handled is unanswered just as long as there is a delegate, be  *)
(* it one that was given no task (on_event, start_delegate, end_delegate). *)
THEOREM DelegationsAreSettled == Spec => []DelegationsSettled
  <1>1. DelegInv => DelegationsSettled
    <2> SUFFICES ASSUME DelegInv PROVE DelegationsSettled
      OBVIOUS
    <2>1. FinishedDelegateIsEnded
      BY WorldFields DEF DelegInv, FinishedDelegateIsEnded, IsFinished
    <2>2. ASSUME NEW n \in 1 .. Len(stream), IsDelegated(stream[n])
          PROVE  /\ \E i \in 1 .. n - 1 : stream[i].k = "delegate" /\ stream[i].act = stream[n].act
                 /\ \A m \in 1 .. n - 1 : IsDelegated(stream[m]) => stream[m].act # stream[n].act
      <3>1. \E i \in 1 .. n - 1 : stream[i].k = "delegate" /\ stream[i].act = stream[n].act
        BY <2>2, WorldFields DEF DelegInv, Once, ReportsOn, IsDelegate
      <3>2. ASSUME NEW m \in 1 .. n - 1, IsDelegated(stream[m]) PROVE stream[m].act # stream[n].act
        <4>1. m \in 1 .. Len(stream) /\ m # n
          BY <2>2
        <4> QED BY <2>2, <3>2, <4>1, WorldFields DEF DelegInv, Once, ReportsOn
      <3> QED BY <3>1, <3>2
    <2>3. delegated <=> /\ ctl["parent"].lastDelegate # 0
                        /\ \A n \in 1 .. Len(stream) :
                              IsDelegated(stream[n]) => stream[n].act # ctl["parent"].lastDelegate
      BY WorldFields DEF DelegInv, Once, Open, Last, Unreported
    <2> QED BY <2>1, <2>2, <2>3 DEF DelegationsSettled, DelegationsAnsweredOnce
  <1> QED BY <1>1, DelegInvariant, PTL

-----------------------------------------------------------------------------
(* Handling, by the kind of the event.                                     *)

IsAnswer(u, c, i) == u.ctl[c].pending # NoAction /\ u.stream[i].cause = u.ctl[c].pending.id
Cleared(u, c) == [u EXCEPT !.ctl[c].pending = NoAction]

(* What an observation leads to. *)
Observed(u, c, i, v) ==
    \/ (~IsAnswer(u, c, i) \/ u.ctl[c].state = "AWAITING_USER_CONFIRMATION") /\ v = u
    \/ /\ IsAnswer(u, c, i) /\ u.ctl[c].state = "USER_CONFIRMED"
       /\ v = SetState(Cleared(u, c), c, "RUNNING")
    \/ /\ IsAnswer(u, c, i) /\ u.ctl[c].state = "USER_REJECTED"
       /\ v = SetState(Cleared(u, c), c, "AWAITING_USER_INPUT")
    \/ /\ IsAnswer(u, c, i)
       /\ u.ctl[c].state \notin {"AWAITING_USER_CONFIRMATION", "USER_CONFIRMED", "USER_REJECTED"}
       /\ v = Cleared(u, c)

ByKind(u, c, i, v) ==
    LET e == u.stream[i] IN
    \/ e.k = "change" /\ e.x \in AgentStates /\ v = SetState(u, c, e.x)
    \/ FromUser(e) /\ v = SetState(Recalled(u, c, i), c, "RUNNING")
    \/ e.k = "message" /\ e.x = "wait" /\ v = SetState(u, c, "AWAITING_USER_INPUT")
    \/ e.k = "message" /\ e.x = "plain" /\ v = u
    \/ e.k = "delegate"
    \/ e.k = "finish" /\ v = SetState(u, c, "FINISHED")
    \/ e.k = "reject" /\ v = SetState(u, c, "REJECTED")
    \/ e.k \in {"recall", "run", "think", "condense"} /\ v = u
    \/ e.k \in {"obs", "state"} /\ Observed(u, c, i, v)

LEMMA HandleByKind ==
    ASSUME NEW w, Good(w), NEW c \in Controllers, NEW i \in 1 .. Len(w.stream)
    PROVE  \E u : Remembered(w, c, i, u) /\ ByKind(u, c, i, Handle(w, c, i))
  <1> DEFINE u == AddHistory(w, c, i)
             e == w.stream[i]
             v == Handle(w, c, i)
  <1>1. Remembered(w, c, i, u) /\ u.stream = w.stream
    <2>1. Remembered(w, c, i, u)
      BY AddHistoryFacts
    <2> HIDE DEF u
    <2> QED BY <2>1 DEF Remembered
  <1>2. e \in GoodEvent
    <2>1. w.stream \in Seq(GoodEvent)
      BY Fields
    <2> QED BY <2>1
  <1>3. /\ e.k \in ActionKinds \cup {"obs", "state"}
        /\ e.k = "change"  => e.x \in AgentStates
        /\ e.k = "message" => e.x \in {"user", "task", "wait", "plain"}
    BY <1>2, GoodFields
  <1> HIDE DEF u
  <1>4. CASE e.k \in {"obs", "state"}
    <2>1. v = HandleObservation(u, c, i)
      BY <1>4 DEF Handle, IsAction, ActionKinds, u
    <2>2. Observed(u, c, i, HandleObservation(u, c, i))
      BY DEF HandleObservation, Observed, IsAnswer, Cleared
    <2> QED BY <1>1, <1>4, <2>1, <2>2 DEF ByKind
  <1>5. CASE e.k \in ActionKinds
    <2>1. v = HandleAction(u, c, i)
      BY <1>5 DEF Handle, IsAction, u
    <2> HIDE DEF v
    <2>2. CASE e.k = "change"
      BY <1>1, <1>3, <2>1, <2>2 DEF HandleAction, ByKind, v
    <2>3. CASE e.k = "message"
      <3>1. v = HandleMessage(u, c, i)
        BY <1>1, <2>1, <2>3 DEF HandleAction
      <3>2. CASE FromUser(e)
        <4>1. v = SetState(Recalled(u, c, i), c, "RUNNING")
          BY <1>1, <3>1, <3>2 DEF HandleMessage, Recalled, Recalling, RecallOf, FromUser
        <4> QED BY <1>1, <3>2, <4>1 DEF ByKind, v
      <3>3. CASE e.x = "wait"
        <4>1. v = SetState(u, c, "AWAITING_USER_INPUT")
          BY <1>1, <3>1, <3>3 DEF HandleMessage, FromUser
        <4> QED BY <1>1, <2>3, <3>3, <4>1 DEF ByKind, v
      <3>4. CASE e.x = "plain"
        <4>1. v = u
          BY <1>1, <3>1, <3>4 DEF HandleMessage, FromUser
        <4> QED BY <1>1, <2>3, <3>4, <4>1 DEF ByKind, v
      <3> QED BY <1>3, <2>3, <3>2, <3>3, <3>4 DEF FromUser
    <2>4. CASE e.k = "delegate"
      BY <1>1, <2>4 DEF ByKind
    <2>5. CASE e.k = "finish"
      BY <1>1, <2>1, <2>5 DEF HandleAction, ByKind, v
    <2>6. CASE e.k = "reject"
      BY <1>1, <2>1, <2>6 DEF HandleAction, ByKind, v
    <2>7. CASE e.k \in {"recall", "run", "think", "condense"}
      <3>1. v = u
        BY <1>1, <2>1, <2>7 DEF HandleAction
      <3> QED BY <1>1, <2>7, <3>1 DEF ByKind, v
    <2> QED BY <1>5, <2>2, <2>3, <2>4, <2>5, <2>6, <2>7 DEF ActionKinds
  <1> QED BY <1>3, <1>4, <1>5

(* A message of the user leaves a recall pending. *)
LEMMA RequestFacts ==
    ASSUME NEW u, Good(u), NEW c \in Controllers, NEW i \in Nat
    PROVE  LET v == SetState(Recalled(u, c, i), c, "RUNNING") IN
           /\ v.ctl[c].state = "RUNNING" /\ v.ctl[c].pending = Recalling(Len(u.stream) + 1)
           /\ v.ctl[c].pending # NoAction /\ ~MayCall(v, c)
  <1> DEFINE q == Recalled(u, c, i)
             v == SetState(q, c, "RUNNING")
  <1>1. Good(q) /\ q.ctl[c].pending = Recalling(Len(u.stream) + 1)
    BY RecalledFacts
  <1>2. "RUNNING" \in AgentStates
    BY DEF AgentStates
  <1> HIDE DEF q
  <1>3. /\ v.ctl[c].state = "RUNNING"
        /\ \/ v = q
           \/ Entered(q, c, "RUNNING", v)
    BY <1>1, <1>2, SetStateFacts
  <1> HIDE DEF v
  <1>4. v.ctl[c].pending = q.ctl[c].pending
    BY <1>3 DEF Entered, Dropped, DroppedSilently, Reissued, Plainly, Silenced, AnswerStates
  <1>5. Recalling(Len(u.stream) + 1) # NoAction
    <2>1. Recalling(Len(u.stream) + 1).k = "recall" /\ NoAction.k = "none"
      BY DEF Recalling, NoAction
    <2> QED BY <2>1
  <1> QED BY <1>1, <1>3, <1>4, <1>5 DEF MayCall, q, v

-----------------------------------------------------------------------------
(* The iteration limit.                                                    *)

Handled(n) == {i \in 1 .. n : FromUser(stream[i])}

LEMMA RequestsFacts ==
    ASSUME TypeInv
    PROVE  /\ Requests = Cardinality(Handled(handled)) /\ Requests \in Nat
           /\ IsFiniteSet(Handled(handled))
           /\ Requests = 0 <=> \A i \in 1 .. handled : ~FromUser(stream[i])
  <1>1. handled \in Nat
    BY DEF TypeInv, TypeOK
  <1>2. IsFiniteSet(1 .. handled)
    BY <1>1, FS_Interval
  <1>3. Handled(handled) \in SUBSET (1 .. handled)
    BY DEF Handled
  <1>4. IsFiniteSet(Handled(handled))
    BY <1>2, <1>3, FS_Subset
  <1>5. Cardinality(Handled(handled)) \in Nat
    BY <1>4, FS_CardinalityType
  <1>6. Cardinality(Handled(handled)) = 0 <=> Handled(handled) = {}
    BY <1>4, FS_EmptySet
  <1>7. Handled(handled) = {} <=> \A i \in 1 .. handled : ~FromUser(stream[i])
    BY DEF Handled
  <1>8. Requests = Cardinality(Handled(handled))
    BY DEF Requests, Handled
  <1> QED BY <1>4, <1>5, <1>6, <1>7, <1>8

(* Handling one more event counts it when it is a message of the user. *)
LEMMA RequestsStep ==
    ASSUME TypeInv, Grew(World, World')
    PROVE  /\ handled' = handled => Requests' = Requests
           /\ handled' = handled + 1 /\ handled < Len(stream) =>
                 Requests' = IF FromUser(stream[handled + 1]) THEN Requests + 1 ELSE Requests
  <1>0. handled \in Nat /\ Len(stream) \in Nat /\ handled <= Len(stream)
    BY StreamType DEF TypeInv, TypeOK
  <1>1. \A i \in 1 .. Len(stream) : stream'[i] = stream[i]
    BY WorldFields, NewWorldFields DEF Grew
  <1>2. Requests' = Cardinality({i \in 1 .. handled' : FromUser(stream'[i])})
    BY DEF Requests, FromUser
  <1>3. ASSUME handled' = handled PROVE Requests' = Requests
    <2>1. {i \in 1 .. handled' : FromUser(stream'[i])} = Handled(handled)
      BY <1>0, <1>1, <1>3 DEF Handled
    <2> QED BY <1>2, <2>1, RequestsFacts
  <1>4. ASSUME handled' = handled + 1, handled < Len(stream)
        PROVE Requests' = IF FromUser(stream[handled + 1]) THEN Requests + 1 ELSE Requests
    <2>1. {i \in 1 .. handled' : FromUser(stream'[i])} = Handled(handled + 1)
      BY <1>0, <1>1, <1>4 DEF Handled
    <2>2. CASE FromUser(stream[handled + 1])
      <3>1. Handled(handled + 1) = Handled(handled) \cup {handled + 1} /\ handled + 1 \notin Handled(handled)
        BY <1>0, <1>4, <2>2 DEF Handled
      <3>2. Cardinality(Handled(handled) \cup {handled + 1}) = Cardinality(Handled(handled)) + 1
        BY <3>1, RequestsFacts, FS_AddElement
      <3> QED BY <1>2, <2>1, <2>2, <3>1, <3>2, RequestsFacts
    <2>3. CASE ~FromUser(stream[handled + 1])
      <3>1. Handled(handled + 1) = Handled(handled)
        BY <1>0, <1>4, <2>3 DEF Handled
      <3> QED BY <1>2, <2>1, <2>3, <3>1, RequestsFacts
    <2> QED BY <2>2, <2>3
  <1> QED BY <1>3, <1>4

(* Before the first message of the user was handled. *)
Early(e) ==
    \/ e.k = "message" /\ e.x = "user"
    \/ e.k = "change" /\ e.x \in {"RUNNING", "AWAITING_USER_INPUT"}
    \/ IsState(e, "AWAITING_USER_INPUT")

NotStarted ==
    /\ flags.iter = 0 /\ flags.hitIter = FALSE /\ flags.maxIter = InitialLimit
    /\ stepping = "none" /\ delegated = FALSE /\ errors = 0 /\ running = 0
    /\ ctl["parent"].pending = NoAction
    /\ \A i \in 1 .. Len(stream) : Early(stream[i])

(* The request to be RUNNING is the one added when the session starts. *)
OneStart ==
    /\ \A i \in 1 .. Len(stream) : IsChange(stream[i], "RUNNING") => i = 2 /\ FromUser(stream[1])
    /\ handled <= 1 => flags.hitIter = FALSE /\ stepping = "none"

PaidInv ==
    /\ OneStart
    /\ Requests = 0 => NotStarted
    /\ flags.iter <= flags.maxIter
    /\ Requests > 0 => flags.maxIter <= InitialLimit * Requests

LEMMA InitPaid == ASSUME Init, TypeInv PROVE PaidInv
  <1>1. handled = 0 /\ Requests = 0
    <2>1. handled = 0
      BY DEF Init
    <2>2. \A i \in 1 .. handled : ~FromUser(stream[i])
      BY <2>1
    <2> QED BY <2>1, <2>2, RequestsFacts
  <1>2. Len(stream) \in {1, 2} /\ \A i \in 1 .. Len(stream) : Early(stream[i])
    BY DEF Init, Event, Early
  <1>3. \A i \in 1 .. Len(stream) : IsChange(stream[i], "RUNNING") => i = 2 /\ FromUser(stream[1])
    BY DEF Init, Event, IsChange, FromUser
  <1>4. ctl["parent"].pending = NoAction
    BY FreshType DEF Init, Controllers
  <1>5. flags.iter = 0 /\ flags.hitIter = FALSE /\ flags.maxIter = InitialLimit
    BY DEF Init
  <1>6. NotStarted
    BY <1>2, <1>4, <1>5 DEF NotStarted, Init
  <1> QED BY <1>1, <1>3, <1>5, <1>6, LimitsAssumption DEF PaidInv, OneStart, Init

(* The limits of a step that is no more than a step of the flags. *)
LEMMA PaidFlags ==
    ASSUME TypeInv, NEW R \in Nat, NEW Q \in Nat, NEW f \in FlagsType, NEW g \in FlagsType,
           f.iter <= f.maxIter, R > 0 => f.maxIter <= InitialLimit * R,
           R = 0 => f.iter = 0 /\ f.hitIter = FALSE /\ f.maxIter = InitialLimit,
           Q = R \/ Q = R + 1,
           \/ g = f
           \/ g = IncreaseLimits(f) /\ (Q = R + 1 \/ f.hitIter = FALSE)
    PROVE  g.iter <= g.maxIter /\ (Q > 0 => g.maxIter <= InitialLimit * Q)
  <1>1. /\ f.iter \in Nat /\ f.maxIter \in Nat /\ f.hitIter \in BOOLEAN
        /\ g.iter \in Nat /\ g.maxIter \in Nat /\ InitialLimit \in Nat
    BY LimitsAssumption DEF FlagsType
  <1>2. /\ g.iter = f.iter
        /\ \/ g.maxIter = f.maxIter
           \/ g.maxIter = f.maxIter + InitialLimit /\ Q = R + 1 /\ f.hitIter = TRUE
    <2>1. CASE g = f
      BY <2>1
    <2>2. CASE g = IncreaseLimits(f) /\ (Q = R + 1 \/ f.hitIter = FALSE)
      <3>1. g.iter = f.iter /\ g.maxIter = IF f.hitIter THEN f.maxIter + InitialLimit ELSE f.maxIter
        BY <2>2, IncreaseFacts
      <3> QED BY <1>1, <2>2, <3>1
    <2> QED BY <2>1, <2>2
  <1>3. g.iter <= g.maxIter
    BY <1>1, <1>2
  <1>4. InitialLimit * (R + 1) = InitialLimit * R + InitialLimit /\ InitialLimit * 1 = InitialLimit
        /\ InitialLimit * R \in Nat
    BY <1>1
  <1>5. ASSUME Q > 0 PROVE g.maxIter <= InitialLimit * Q
    <2>1. CASE R = 0
      <3>1. Q = 1 /\ g.maxIter = InitialLimit
        BY <1>2, <1>5, <2>1
      <3> QED BY <1>1, <1>4, <3>1
    <2>2. CASE R > 0
      <3>1. CASE Q = R
        BY <1>1, <1>2, <2>2, <3>1
      <3>2. CASE Q = R + 1
        <4> DEFINE a == InitialLimit * R
        <4>1. a \in Nat /\ f.maxIter <= a /\ InitialLimit * Q = a + InitialLimit
          BY <1>4, <2>2, <3>2
        <4> HIDE DEF a
        <4> QED BY <1>1, <1>2, <4>1
      <3> QED BY <3>1, <3>2
    <2> QED BY <2>1, <2>2
  <1> QED BY <1>3, <1>5

(* A step that leaves the controllers and the flags alone. *)
LEMMA PaidBeside ==
    ASSUME TypeInv, PaidInv, NEW e, AddsEvent(e), UNCHANGED <<handled, ctl, delegated, stepping, flags, errors>>,
           Requests = 0 => Early(e) /\ running' = 0
    PROVE  PaidInv'
  <1>1. Grew(World, World') /\ Beside(e) /\ stream' = Append(stream, e) /\ e \in GoodEvent
    BY DEF AddsEvent
  <1>2. Requests' = Requests
    BY <1>1, RequestsStep
  <1>3. /\ Len(stream') = Len(stream) + 1 /\ Len(stream) \in Nat /\ stream'[Len(stream) + 1] = e
        /\ \A i \in 1 .. Len(stream) : stream'[i] = stream[i]
    BY <1>1, StreamType, Appended
  <1>4. \A i \in 1 .. Len(stream') : i \in 1 .. Len(stream) \/ i = Len(stream) + 1
    BY <1>3
  <1>5. OneStart'
    <2>1. ASSUME NEW i \in 1 .. Len(stream'), IsChange(stream'[i], "RUNNING")
          PROVE  i = 2 /\ FromUser(stream'[1])
      <3>1. i \in 1 .. Len(stream)
        BY <1>1, <1>3, <1>4, <2>1 DEF Beside
      <3>2. i = 2 /\ FromUser(stream[1])
        BY <1>3, <2>1, <3>1 DEF PaidInv, OneStart
      <3>3. 1 \in 1 .. Len(stream)
        BY <1>3, <3>1
      <3> QED BY <1>3, <3>2, <3>3
    <2> QED BY <2>1 DEF PaidInv, OneStart, IsChange, FromUser
  <1>6. Requests = 0 => NotStarted'
    BY <1>3, <1>4 DEF PaidInv, NotStarted, Early, IsState
  <1> QED BY <1>2, <1>5, <1>6 DEF PaidInv

LEMMA PaidSame ==
    ASSUME TypeInv, PaidInv, UNCHANGED <<stream, handled, ctl, delegated, stepping, flags>>,
           Requests = 0 => errors' = 0 /\ running' = 0
    PROVE  PaidInv'
  <1>1. Requests' = Requests
    BY DEF Requests
  <1>2. OneStart'
    BY DEF PaidInv, OneStart
  <1>3. Requests = 0 => NotStarted'
    BY DEF PaidInv, NotStarted
  <1> QED BY <1>1, <1>2, <1>3 DEF PaidInv

(* New events that ask for nothing keep OneStart's first part. *)
LEMMA StartsKept ==
    ASSUME TypeInv, PaidInv, Grew(World, World'), Good(World'),
           \A i \in Len(stream) + 1 .. Len(stream') : ~IsChange(stream'[i], "RUNNING")
    PROVE  \A i \in 1 .. Len(stream') : IsChange(stream'[i], "RUNNING") => i = 2 /\ FromUser(stream'[1])
  <1>1. /\ Len(stream) \in Nat /\ Len(stream') \in Nat /\ Len(stream) <= Len(stream')
        /\ \A i \in 1 .. Len(stream) : stream'[i] = stream[i]
    BY StreamType, Fields, WorldFields, NewWorldFields DEF Grew
  <1> SUFFICES ASSUME NEW i \in 1 .. Len(stream'), IsChange(stream'[i], "RUNNING")
               PROVE  i = 2 /\ FromUser(stream'[1])
    OBVIOUS
  <1>2. i \in 1 .. Len(stream) \/ i \in Len(stream) + 1 .. Len(stream')
    BY <1>1
  <1>3. i \in 1 .. Len(stream)
    BY <1>2
  <1>4. i = 2 /\ FromUser(stream[1])
    BY <1>1, <1>3 DEF PaidInv, OneStart
  <1>5. 1 \in 1 .. Len(stream)
    BY <1>1, <1>3
  <1> QED BY <1>1, <1>4, <1>5

(* The first event handled, and every event before the first message of    *)
(* the user: the agent does not step.                                      *)
LEMMA FirstEvent ==
    ASSUME TypeInv, PaidInv, Requests = 0, NEW c \in Controllers, NEW v, Handles(c, v), OnEvent(c)
    PROVE  /\ World' = v /\ v.flags.hitIter = FALSE /\ v.stepping = "none"
           /\ Requests' = 0 => NotStarted'
  <1> DEFINE i == handled + 1
             e == stream[i]
  <1>0. /\ i \in 1 .. Len(stream) /\ v = Handle(World, c, i) /\ Good(World) /\ handled' = i
        /\ Good(v) /\ Len(stream) \in Nat /\ handled \in Nat /\ Grew(World, v) /\ Grew(World, World')
        /\ \/ ShouldStep(v, c, i) /\ (Fails(v, c, World') \/ Calls(v, c, World'))
           \/ ShouldStep(v, c, i) /\ ~MayCall(v, c) /\ World' = v
           \/ ~ShouldStep(v, c, i) /\ World' = v
    BY StreamType DEF Handles, TypeInv, TypeOK
  <1>1. NotStarted
    BY DEF PaidInv
  <1>2. c = "parent"
    BY <1>1 DEF OnEvent, Target, NotStarted
  <1>3. PICK u : Remembered(World, c, i, u) /\ ByKind(u, c, i, v)
    BY <1>0, HandleByKind, WorldFields
  <1>4. /\ Good(u) /\ u.stream = stream /\ u.flags = flags /\ u.stepping = "none" /\ u.errors = 0
        /\ u.delegated = FALSE
        /\ u.ctl[c].pending = NoAction
    BY <1>1, <1>2, <1>3, WorldFields DEF Remembered, NotStarted
  <1>5. Early(e) /\ flags.hitIter = FALSE /\ flags \in FlagsType
    BY <1>0, <1>1, Fields, WorldFields DEF NotStarted
  <1>6. FlagsFor(World, e, v)
    BY DEF Handles
  <1>7. v.flags.hitIter = FALSE
    BY <1>5, <1>6, IncreaseFacts, WorldFields DEF FlagsFor
  <1>8. v.stepping = "none"
    <2>1. e.k # "delegate"
      BY <1>5 DEF Early, IsState
    <2>2. Moved(World, c, v)
      BY <2>1 DEF Handles
    <2> QED BY <1>1, <2>2, WorldFields DEF Moved, NotStarted
  <1>9. CASE FromUser(e)
    <2>1. v = SetState(Recalled(u, c, i), c, "RUNNING")
      BY <1>3, <1>4, <1>9 DEF ByKind, FromUser
    <2>2. ~MayCall(v, c)
      BY <1>0, <1>4, <2>1, RequestFacts
    <2>3. World' = v
      BY <1>0, <2>2 DEF Fails, Calls
    <2>4. Requests' # 0
      <3>1. Requests' = Requests + 1
        BY <1>0, <1>9, RequestsStep
      <3> QED BY <3>1
    <2> QED BY <1>7, <1>8, <2>3, <2>4
  <1>10. CASE ~FromUser(e)
    <2>1. e.k # "message"
      BY <1>5, <1>10 DEF Early, FromUser, IsState
    <2>2. ~ShouldStep(v, c, i)
      <3>1. v.stream[i] = e
        BY <1>0, WorldFields DEF Grew
      <3>2. e.k \in {"change", "state"}
        BY <1>5, <2>1 DEF Early, IsState
      <3> QED BY <1>10, <3>1, <3>2 DEF ShouldStep
    <2>3. World' = v
      BY <1>0, <2>2
    <2>4. CASE e.k = "change"
      <3>1. e.x # "RUNNING"
        <4> SUFFICES ASSUME e.x = "RUNNING" PROVE FALSE
          OBVIOUS
        <4>1. i = 2 /\ FromUser(stream[1])
          BY <1>0, <2>4 DEF PaidInv, OneStart, IsChange
        <4>2. 1 \in 1 .. handled
          BY <1>0, <4>1
        <4> QED BY <4>1, <4>2, RequestsFacts
      <3>2. v = SetState(u, c, "AWAITING_USER_INPUT")
        BY <1>3, <1>4, <1>5, <2>4, <3>1 DEF ByKind, Early, IsState, FromUser
      <3>3. "AWAITING_USER_INPUT" \in AgentStates
        BY DEF AgentStates
      <3>4. /\ Frame(u, c, v) /\ v.flags = FlagsAfter(u, c, "AWAITING_USER_INPUT")
            /\ \/ v = u
               \/ Entered(u, c, "AWAITING_USER_INPUT", v)
        BY <1>4, <3>2, <3>3, SetStateFacts
      <3>5. /\ v.flags = flags /\ v.stepping = "none" /\ v.delegated = FALSE /\ v.errors = 0
            /\ v.ctl[c].pending = NoAction
            /\ v.stream = stream \/ v.stream = Append(stream, StateEvent("AWAITING_USER_INPUT"))
        BY <1>4, <3>4 DEF Frame, FlagsAfter, Entered, Dropped, DroppedSilently, Reissued, Plainly,
                          Silenced, AnswerStates
      <3>6. \A k \in 1 .. Len(v.stream) : Early(v.stream[k])
        <4>1. CASE v.stream = stream
          BY <1>1, <4>1 DEF NotStarted
        <4>2. CASE v.stream = Append(stream, StateEvent("AWAITING_USER_INPUT"))
          <5>1. /\ StateEvent("AWAITING_USER_INPUT") \in GoodEvent
                /\ Early(StateEvent("AWAITING_USER_INPUT"))
            BY <3>3, StateGood DEF Early, IsState
          <5>2. /\ Len(v.stream) = Len(stream) + 1
                /\ \A k \in 1 .. Len(stream) : v.stream[k] = stream[k]
                /\ v.stream[Len(stream) + 1] = StateEvent("AWAITING_USER_INPUT")
            BY <4>2, <5>1, StreamType, Appended
          <5> QED BY <1>0, <1>1, <5>1, <5>2 DEF NotStarted
        <4> QED BY <3>5, <4>1, <4>2
      <3>7. NotStarted'
        <4>1. running' = 0
          BY <1>1 DEF OnEvent, runtimeVars, NotStarted
        <4> QED BY <1>1, <1>2, <2>3, <3>5, <3>6, <4>1, NewWorldFields DEF NotStarted, Early, IsState
      <3> QED BY <1>7, <1>8, <2>3, <3>7
    <2>5. CASE e.k = "state"
      <3>1. v = u
        BY <1>3, <1>4, <2>5 DEF ByKind, FromUser, Observed, IsAnswer
      <3>2. NotStarted'
        <4>1. running' = 0
          BY <1>1 DEF OnEvent, runtimeVars, NotStarted
        <4> QED BY <1>1, <1>2, <1>4, <2>3, <3>1, <4>1, NewWorldFields DEF NotStarted, Early, IsState
      <3> QED BY <1>7, <1>8, <2>3, <3>2
    <2> QED BY <1>5, <2>1, <2>4, <2>5 DEF Early, IsState
  <1> QED BY <1>9, <1>10

LEMMA NoChangeTrans ==
    ASSUME NEW w, NEW v, NEW r, Good(w), Good(v), Good(r), Grew(w, v), Grew(v, r),
           NoChange(w, v), NoChange(v, r)
    PROVE  NoChange(w, r)
  <1>1. Len(w.stream) \in Nat /\ Len(v.stream) \in Nat /\ Len(r.stream) \in Nat
    BY Fields
  <1>2. Len(w.stream) <= Len(v.stream) /\ Len(v.stream) <= Len(r.stream)
        /\ \A i \in 1 .. Len(v.stream) : r.stream[i] = v.stream[i]
    BY DEF Grew
  <1> SUFFICES ASSUME NEW i \in Len(w.stream) + 1 .. Len(r.stream) PROVE r.stream[i].k # "change"
    BY DEF NoChange
  <1>3. CASE i <= Len(v.stream)
    <2>1. i \in Len(w.stream) + 1 .. Len(v.stream) /\ i \in 1 .. Len(v.stream)
      BY <1>1, <1>2, <1>3
    <2> QED BY <1>2, <2>1 DEF NoChange
  <1>4. CASE i > Len(v.stream)
    <2>1. i \in Len(v.stream) + 1 .. Len(r.stream)
      BY <1>1, <1>2, <1>4
    <2> QED BY <2>1 DEF NoChange
  <1> QED BY <1>1, <1>3, <1>4

LEMMA HandlesNoChange ==
    ASSUME TypeInv, NEW c \in Controllers, NEW v, Handles(c, v)
    PROVE  NoChange(World, v) /\ NoChange(World, World')
  <1> DEFINE i == handled + 1
  <1>1. /\ Good(World) /\ Good(v) /\ Good(World') /\ Grew(World, v) /\ Grew(v, World')
        /\ Fails(v, c, World') \/ Calls(v, c, World') \/ World' = v
    BY DEF Handles, TypeInv
  <1>2. Quiet(v, World')
    BY <1>1, QuietSame DEF Fails, Calls
  <1>3. NoChange(World, v)
    <2>1. CASE stream[i].k = "delegate"
      <3>1. PICK u : Remembered(World, c, i, u) /\ Started(u, c, v)
        BY <2>1 DEF Handles
      <3>2. Quiet(World, v)
        BY <3>1 DEF Started, Remembered, Quiet, Grew
      <3> QED BY <3>2, QuietNoChange
    <2>2. CASE stream[i].k # "delegate"
      <3>1. Moved(World, c, v)
        BY <2>2 DEF Handles
      <3> QED BY <3>1, QuietNoChange DEF Moved
    <2> QED BY <2>1, <2>2
  <1> QED BY <1>1, <1>2, <1>3, NoChangeTrans, QuietNoChange

(* A step of the flags stays within the limit. *)
LEMMA PaidStep ==
    ASSUME NEW f \in FlagsType, NEW g, g \in {f, StepFlags(f)}, f.iter <= f.maxIter
    PROVE  g.iter <= g.maxIter /\ g.maxIter = f.maxIter
  <1>1. f.iter \in Nat /\ f.maxIter \in Nat
    BY DEF FlagsType
  <1>2. CASE g = f
    BY <1>2
  <1>3. CASE g = StepFlags(f)
    <2>1. /\ g \in FlagsType /\ g.maxIter = f.maxIter
          /\ \/ f.iter >= f.maxIter /\ g.iter = f.iter
             \/ f.iter < f.maxIter /\ g.iter = f.iter + 1
      BY <1>3, StepFlagsFacts
    <2> QED BY <1>1, <2>1
  <1> QED BY <1>2, <1>3

LEMMA PaidOnEvent ==
    ASSUME TypeInv, PaidInv, NEW c \in Controllers, OnEvent(c)
    PROVE  PaidInv'
  <1> DEFINE i == handled + 1
             e == stream[i]
  <1>1. PICK v : Handles(c, v)
    BY OnEventFacts
  <1>2. /\ handled' = i /\ i \in 1 .. Len(stream) /\ Good(v) /\ Good(World') /\ Grew(World, World')
        /\ FlagsFor(World, e, v)
        /\ Fails(v, c, World') \/ Calls(v, c, World') \/ World' = v
    BY <1>1 DEF Handles
  <1>3. /\ Requests \in Nat /\ (handled = 0 => Requests = 0)
        /\ handled \in Nat /\ handled < Len(stream) /\ Len(stream) \in Nat
    BY <1>2, RequestsFacts, StreamType DEF TypeInv, TypeOK
  <1>4. Requests' = IF FromUser(e) THEN Requests + 1 ELSE Requests
    BY <1>2, <1>3, RequestsStep
  <1>5. flags \in FlagsType /\ v.flags \in FlagsType /\ flags' \in FlagsType
    BY <1>2, Fields, WorldFields, NewWorldFields DEF TypeInv
  <1>6. v.flags.iter <= v.flags.maxIter /\ (Requests' > 0 => v.flags.maxIter <= InitialLimit * Requests')
    <2>1. Requests = 0 => flags.iter = 0 /\ flags.hitIter = FALSE /\ flags.maxIter = InitialLimit
      BY DEF PaidInv, NotStarted
    <2>2. \/ v.flags = flags
          \/ v.flags = IncreaseLimits(flags) /\ (FromUser(e) \/ IsChange(e, "RUNNING"))
      BY <1>2, WorldFields DEF FlagsFor
    <2>3. IsChange(e, "RUNNING") => flags.hitIter = FALSE
      <3>1. IsChange(e, "RUNNING") => handled <= 1
        BY <1>2, <1>3 DEF PaidInv, OneStart
      <3> QED BY <3>1 DEF PaidInv, OneStart
    <2>4. Requests' \in Nat /\ (Requests' = Requests \/ Requests' = Requests + 1)
      BY <1>3, <1>4
    <2>5. \/ v.flags = flags
          \/ v.flags = IncreaseLimits(flags) /\ (Requests' = Requests + 1 \/ flags.hitIter = FALSE)
      BY <1>4, <2>2, <2>3
    <2>6. flags.iter <= flags.maxIter /\ (Requests > 0 => flags.maxIter <= InitialLimit * Requests)
      BY DEF PaidInv
    <2> HIDE DEF e, i
    <2> QED BY <1>3, <1>5, <2>1, <2>4, <2>5, <2>6, PaidFlags
  <1>7. flags' \in {v.flags, StepFlags(v.flags)}
    BY <1>2, NewWorldFields DEF Fails, Calls
  <1>8. flags'.iter <= flags'.maxIter /\ flags'.maxIter = v.flags.maxIter
    BY <1>5, <1>6, <1>7, PaidStep
  <1>9. OneStart'
    <2>1. NoChange(World, World')
      BY <1>1, HandlesNoChange
    <2>2. \A k \in Len(stream) + 1 .. Len(stream') : ~IsChange(stream'[k], "RUNNING")
      BY <2>1, WorldFields, NewWorldFields DEF NoChange, IsChange
    <2>3. \A k \in 1 .. Len(stream') : IsChange(stream'[k], "RUNNING") => k = 2 /\ FromUser(stream'[1])
      BY <1>2, <2>2, StartsKept
    <2>4. ASSUME handled' <= 1 PROVE flags'.hitIter = FALSE /\ stepping' = "none"
      <3>1. Requests = 0
        BY <1>2, <1>3, <2>4
      <3> QED BY <1>1, <3>1, FirstEvent, NewWorldFields
    <2> QED BY <2>3, <2>4 DEF OneStart, IsChange, FromUser
  <1>10. Requests' = 0 => NotStarted'
    <2>1. Requests' = 0 => Requests = 0
      BY <1>3, <1>4
    <2> QED BY <1>1, <2>1, FirstEvent
  <1> QED BY <1>6, <1>8, <1>9, <1>10 DEF PaidInv

(* A step of the controller that handles no event leaves the limit alone.  *)
LEMMA PaidQuiet ==
    ASSUME TypeInv, PaidInv, Requests > 0, Good(World'), Grew(World, World'), NoChange(World, World'),
           handled' = handled \/ (handled' = handled + 1 /\ handled < Len(stream)),
           flags'.iter = flags.iter, flags'.maxIter = flags.maxIter,
           handled' <= 1 => flags'.hitIter = FALSE /\ stepping' = "none"
    PROVE  PaidInv'
  <1>1. Requests \in Nat /\ Requests' \in {Requests, Requests + 1}
    BY RequestsFacts, RequestsStep
  <1>2. OneStart'
    <2>2. \A k \in Len(stream) + 1 .. Len(stream') : ~IsChange(stream'[k], "RUNNING")
      BY WorldFields, NewWorldFields DEF NoChange, IsChange
    <2>3. \A k \in 1 .. Len(stream') : IsChange(stream'[k], "RUNNING") => k = 2 /\ FromUser(stream'[1])
      BY <2>2, StartsKept
    <2> QED BY <2>3 DEF OneStart, IsChange, FromUser
  <1>3. flags.maxIter <= InitialLimit * Requests /\ flags.iter <= flags.maxIter
    BY DEF PaidInv
  <1>4. flags.maxIter \in Nat /\ InitialLimit \in Nat /\ InitialLimit * Requests \in Nat
    BY <1>1, LimitsAssumption DEF TypeInv, TypeOK, FlagsType
  <1>5. InitialLimit * (Requests + 1) = InitialLimit * Requests + InitialLimit
    BY <1>1, <1>4
  <1>6. flags'.maxIter <= InitialLimit * Requests'
    <2> DEFINE a == InitialLimit * Requests
    <2>1. CASE Requests' = Requests
      BY <1>3, <2>1
    <2>2. CASE Requests' = Requests + 1
      <3>1. InitialLimit * Requests' = a + InitialLimit
        BY <1>5, <2>2
      <3>2. a \in Nat /\ flags.maxIter <= a
        BY <1>3, <1>4
      <3> HIDE DEF a
      <3> QED BY <1>4, <3>1, <3>2
    <2> QED BY <1>1, <2>1, <2>2
  <1>7. Requests' > 0
    BY <1>1
  <1> QED BY <1>2, <1>3, <1>6, <1>7 DEF PaidInv

LEMMA EarlyKinds ==
    ASSUME PaidInv, Requests = 0, NEW i \in 1 .. Len(stream)
    PROVE  /\ ~ForRuntime(stream[i]) /\ ~IsRecall(stream[i])
           /\ stream[i].k = "state" => stream[i].x = "AWAITING_USER_INPUT"
  <1>1. Early(stream[i])
    BY DEF PaidInv, NotStarted
  <1> QED BY <1>1 DEF Early, IsState, ForRuntime, Executes, Replies, IsRecall

LEMMA NextPaid == ASSUME TypeInv, PaidInv, [Next]_vars PROVE PaidInv'
  <1>0. /\ Requests \in Nat /\ (handled = 0 => Requests = 0) /\ handled \in Nat /\ Len(stream) \in Nat
        /\ Good(World)
    BY RequestsFacts, StreamType DEF TypeInv, TypeOK
  <1>00. Requests # 0 => Requests > 0
    BY <1>0
  <1>1. ASSUME NEW c \in Controllers, OnEvent(c) PROVE PaidInv'
    BY <1>1, PaidOnEvent
  <1>2. ASSUME EndDelegate PROVE PaidInv'
    <2>1. PICK v : Ends(v)
      BY <1>2, EndDelegateFacts
    <2>2. /\ Reported(World, v) /\ IsPlaced(v, FALSE, World') /\ Good(v) /\ Good(World')
          /\ Grew(World, World') /\ handled' = handled + 1 /\ handled + 1 \in 1 .. Len(stream)
      BY <2>1 DEF Ends, Reported
    <2>3. delegated = TRUE
      BY <1>2, WorldFields DEF EndDelegate, Target, TypeInv, TypeOK
    <2>4. Requests > 0
      BY <1>00, <2>3 DEF PaidInv, NotStarted
    <2>5. World'.stream = v.stream /\ flags' = flags
      BY <2>2, WorldFields, NewWorldFields DEF IsPlaced, Reported
    <2>6. NoChange(World, World')
      <3>1. \A i \in Len(World.stream) + 1 .. Len(v.stream) :
               i = Len(v.stream) \/ i \in Len(World.stream) + 1 .. Len(v.stream) - 1
        BY <1>0, <2>2, Fields
      <3> QED BY <2>2, <2>5, <3>1 DEF NoChange, Reported, IsQuiet
    <2>7. handled' > 1
      BY <1>0, <2>2, <2>4
    <2>8. handled < Len(stream) /\ ~(handled' <= 1)
      BY <1>0, <2>2, <2>7
    <2> QED BY <2>2, <2>4, <2>5, <2>6, <2>8, PaidQuiet
  <1>3. ASSUME NEW o \in Outcomes, LlmReturns(o) PROVE PaidInv'
    <2>1. /\ stepping \in Controllers /\ Produced(Answering, stepping, World')
          /\ handled' = handled /\ Good(World') /\ Grew(World, World') /\ NoChange(World, World')
      BY <1>3, LlmReturnsFacts
    <2>2. stepping # "none"
      BY <2>1 DEF Controllers
    <2>3. Requests > 0 /\ handled > 1
      BY <1>0, <1>00, <2>2 DEF PaidInv, NotStarted, OneStart
    <2>4. flags'.iter = flags.iter /\ flags'.maxIter = flags.maxIter
      BY <2>1, AnsweringFacts, NewWorldFields DEF Produced
    <2>5. ~(handled' <= 1)
      BY <1>0, <2>1, <2>3
    <2> QED BY <2>1, <2>3, <2>4, <2>5, PaidQuiet
  <1>4. ASSUME ApplyStatusError PROVE PaidInv'
    <2>1. /\ Moved(Lowered, "parent", World') /\ handled' = handled /\ Good(World')
          /\ Quiet(World, World') /\ flags' = flags /\ errors > 0 /\ Lowered.stepping = stepping
      BY <1>4, ApplyStatusErrorFacts
    <2>2. Requests > 0
      BY <1>00, <2>1 DEF PaidInv, NotStarted
    <2>3. stepping' = stepping
      BY <2>1, NewWorldFields DEF Moved
    <2>4. NoChange(World, World') /\ Grew(World, World')
      BY <2>1, QuietNoChange
    <2>5. handled' <= 1 => flags'.hitIter = FALSE /\ stepping' = "none"
      BY <2>1, <2>3 DEF PaidInv, OneStart
    <2> QED BY <2>1, <2>2, <2>4, <2>5, PaidQuiet
  <1>5. ASSUME RuntimeTakes PROVE PaidInv'
    <2>1. PICK j \in 1 .. Len(stream) : ForRuntime(stream[j]) /\ (stream' = stream \/ AddsEvent(ReplyTo(j)))
      BY <1>5, RuntimeTakesFacts
    <2>2. UNCHANGED <<handled, ctl, delegated, stepping, flags, errors>>
      BY <1>5 DEF RuntimeTakes, controllerVars
    <2>3. Requests # 0
      BY <2>1, EarlyKinds
    <2> QED BY <2>1, <2>2, <2>3, PaidBeside, PaidSame
  <1>6. ASSUME RuntimeFinishes PROVE PaidInv'
    <2>1. AddsEvent(ResultOf(running))
      BY <1>6, RuntimeFinishesFacts
    <2>2. UNCHANGED <<handled, ctl, delegated, stepping, flags, errors>>
      BY <1>6 DEF RuntimeFinishes, controllerVars
    <2>3. Requests # 0
      BY <1>6 DEF RuntimeFinishes, PaidInv, NotStarted
    <2> QED BY <2>1, <2>2, <2>3, PaidBeside
  <1>7. ASSUME RuntimeRaises PROVE PaidInv'
    <2>1. UNCHANGED <<stream, handled, ctl, delegated, stepping, flags>>
      BY <1>7 DEF RuntimeRaises, controllerVars
    <2>2. Requests # 0
      BY <1>7 DEF RuntimeRaises, PaidInv, NotStarted
    <2> QED BY <2>1, <2>2, PaidSame
  <1>8. ASSUME MemoryAnswers PROVE PaidInv'
    <2>1. PICK j \in 1 .. Len(stream) : IsRecall(stream[j]) /\ \E e : AddsEvent(e)
      BY <1>8, MemoryAnswersFacts
    <2>2. UNCHANGED <<handled, ctl, delegated, stepping, flags, errors>>
      BY <1>8, Zenon DEF MemoryAnswers, controllerVars
    <2>3. Requests # 0
      BY <2>1, EarlyKinds
    <2> QED BY <2>1, <2>2, <2>3, PaidBeside
  <1>9. ASSUME MemoryRaises PROVE PaidInv'
    <2>1. PICK j \in 1 .. Len(stream) : IsRecall(stream[j])
      BY <1>9, MemoryRaisesFacts
    <2>2. UNCHANGED <<stream, handled, ctl, delegated, stepping, flags>>
      BY <1>9, Zenon DEF MemoryRaises, controllerVars
    <2>3. Requests # 0
      BY <2>1, EarlyKinds
    <2> QED BY <2>2, <2>3, PaidSame
  <1>10. ASSUME NEW input \in UserInputs, UserSends(input) PROVE PaidInv'
    <2> DEFINE e == InputEvent(input)
    <2>1. /\ AddsEvent(e) /\ Offered(input)
          /\ \/ input = "message" /\ e.k = "message" /\ e.x = "user"
             \/ input \in {"stop", "confirm", "refuse"}
      BY <1>10, UserSendsFacts
    <2>2. UNCHANGED <<handled, ctl, delegated, stepping, flags, errors, running>>
      BY <1>10 DEF UserSends, controllerVars, runtimeVars
    <2>3. ASSUME Requests = 0 PROVE Early(e) /\ running' = 0
      <3>1. running' = 0
        BY <2>2, <2>3 DEF PaidInv, NotStarted
      <3>2. \A k \in 1 .. Len(stream) : ~IsState(stream[k], "RUNNING")
                                      /\ ~IsState(stream[k], "AWAITING_USER_CONFIRMATION")
        BY <2>3, EarlyKinds DEF IsState
      <3>3. input = "message"
        BY <2>1, <3>2 DEF Offered
      <3> QED BY <2>1, <3>1, <3>3 DEF Early
    <2> HIDE DEF e
    <2> QED BY <2>1, <2>2, <2>3, PaidBeside
  <1>11. CASE UNCHANGED vars
    <2>1. UNCHANGED <<stream, handled, ctl, delegated, stepping, flags, errors, running>>
      BY <1>11 DEF vars, controllerVars, runtimeVars
    <2>2. Requests = 0 => errors' = 0 /\ running' = 0
      BY <2>1 DEF PaidInv, NotStarted
    <2> QED BY <2>1, <2>2, PaidSame
  <1> QED BY <1>1, <1>2, <1>3, <1>4, <1>5, <1>6, <1>7, <1>8, <1>9, <1>10, <1>11
          DEF Next, ControllerNext, LlmNext

(* The LLM is called at most max_iterations times per message handled as   *)
(* the user's, for every limit and every configuration: each time the      *)
(* limit grows it has been hit, and each time it grows a further such      *)
(* message is handled (run_control_flags, set_agent_state_to).             *)
THEOREM IterationsArePaidFor == Spec => []IterationsPaidFor
  <1>1. Init /\ TypeInv => PaidInv
    BY InitPaid
  <1>2. TypeInv /\ PaidInv /\ [Next]_vars => PaidInv'
    BY NextPaid
  <1>3. TypeInv /\ PaidInv => IterationsPaidFor
    <2> SUFFICES ASSUME TypeInv, PaidInv PROVE IterationsPaidFor
      OBVIOUS
    <2>1. Requests \in Nat /\ flags.iter \in Nat /\ flags.maxIter \in Nat /\ InitialLimit \in Nat
      BY RequestsFacts, LimitsAssumption DEF TypeInv, TypeOK, FlagsType
    <2>2. CASE Requests = 0
      <3>1. flags.iter = 0 /\ InitialLimit * Requests = 0
        BY <2>1, <2>2 DEF PaidInv, NotStarted
      <3> QED BY <3>1 DEF IterationsPaidFor
    <2>3. CASE Requests > 0
      <3> DEFINE a == InitialLimit * Requests
      <3>1. flags.iter <= flags.maxIter /\ flags.maxIter <= a /\ a \in Nat
        BY <2>1, <2>3 DEF PaidInv
      <3>2. flags.iter <= a
        <4> HIDE DEF a
        <4> QED BY <2>1, <3>1
      <3> QED BY <3>2 DEF IterationsPaidFor
    <2> QED BY <2>1, <2>2, <2>3
  <1> QED BY <1>1, <1>2, <1>3, TypeInvariant, PTL DEF Spec

-----------------------------------------------------------------------------
(* No lost wake-up, without delegation.                                    *)

WithoutDelegation == Outcomes \cap {"delegate", "delegateIdle"} = {}

(* An event that makes a RUNNING controller without a pending action step, *)
(* or stop being RUNNING.                                                  *)
Waking(e) == e.k \in {"message", "condense", "finish", "reject", "obs"}

AnswersTo(e, n) == e.k = "obs" /\ e.cause = n

(* What the log holds at n without delegation. *)
ProperAt(n, e) ==
    /\ e.k # "delegate"
    /\ e.k = "state" => e.cause = 0
    /\ e.k = "recall" => n > 1
    /\ e.k = "obs" /\ e.x = "null" => e.cause > 1

Proper(w) == \A n \in 1 .. Len(w.stream) : ProperAt(n, w.stream[n])

(* Somebody will act on what a RUNNING controller waits for: its thought   *)
(* or an event, its command, or its recall.                                *)
Idle(w, h, r) ==
    \/ w.stepping # "none"
    \/ \E i \in h + 1 .. Len(w.stream) : Waking(w.stream[i])
    \/ \E i \in r + 1 .. Len(w.stream) : w.stream[i].k = "think"
    \/ w.errors > 0

AnswerDue(w, h, n) == \E i \in h + 1 .. Len(w.stream) : AnswersTo(w.stream[i], n)

OnWay(w, h, r, rc, run) ==
    LET p == w.ctl["parent"].pending IN
    /\ p = NoAction => Idle(w, h, r)
    /\ p.k = "run" => /\ w.stream[p.id].x = "confirmed"
                      /\ p.id > r \/ run = p.id \/ AnswerDue(w, h, p.id) \/ w.errors > 0
    /\ p.k = "recall" => p.id > rc \/ AnswerDue(w, h, p.id) \/ w.errors > 0

Awake(w, h, r, rc, run) ==
    w.ctl["parent"].state = "RUNNING" => OnWay(w, h, r, rc, run)

(* The session's request to be RUNNING does not put an idle controller to  *)
(* work: the recall is pending, or its end has been noted.                 *)
Starting(w, h) ==
    h <= 1 =>
      /\ w.ctl["parent"].answered = {}
      /\ h = 1 /\ Len(w.stream) >= 2 /\ IsChange(w.stream[2], "RUNNING") =>
            \/ w.ctl["parent"].state = "RUNNING" /\ w.ctl["parent"].pending # NoAction
            \/ /\ w.ctl["parent"].pending = NoAction
               /\ \E i \in 3 .. Len(w.stream) : w.stream[i].k = "obs"

Alone(w) ==
    /\ w.delegated = FALSE
    /\ w.stepping # "delegate"
    /\ w.stepping = "parent" => w.ctl["parent"].pending = NoAction

WakeInv ==
    /\ Alone(World)
    /\ Proper(World)
    /\ Starting(World, handled)
    /\ Awake(World, handled, ran, recalled, running)

LEMMA ProperOne ==
    ASSUME NEW w, Good(w), Proper(w), NEW e \in GoodEvent, ProperAt(Len(w.stream) + 1, e),
           NEW r, r.stream = Append(w.stream, e)
    PROVE  Proper(r)
  <1>1. w.stream \in Seq(GoodEvent) /\ Len(w.stream) \in Nat
    BY Fields
  <1>2. /\ Len(r.stream) = Len(w.stream) + 1 /\ r.stream[Len(w.stream) + 1] = e
        /\ \A i \in 1 .. Len(w.stream) : r.stream[i] = w.stream[i]
    BY <1>1, Appended
  <1>3. \A i \in 1 .. Len(r.stream) : i \in 1 .. Len(w.stream) \/ i = Len(w.stream) + 1
    BY <1>1, <1>2
  <1> QED BY <1>2, <1>3 DEF Proper

LEMMA ProperTwo ==
    ASSUME NEW w, Good(w), Proper(w), NEW e \in GoodEvent, NEW g \in GoodEvent,
           ProperAt(Len(w.stream) + 1, e), \A n : ProperAt(n, g),
           NEW r, r.stream = Append(Append(w.stream, e), g)
    PROVE  Proper(r)
  <1> DEFINE v == Emit(w, e)
  <1>1. Good(v) /\ v.stream = Append(w.stream, e)
    BY EmitFacts
  <1> HIDE DEF v
  <1>2. Proper(v)
    BY <1>1, ProperOne
  <1> QED BY <1>1, <1>2, ProperOne

LEMMA ProperSame == ASSUME NEW w, NEW r, Proper(w), r.stream = w.stream PROVE Proper(r)
  BY DEF Proper

LEMMA SetStateProper ==
    ASSUME NEW w, Good(w), Proper(w), NEW c \in Controllers, NEW new \in AgentStates
    PROVE  Proper(SetState(w, c, new))
  <1> DEFINE r == SetState(w, c, new)
             p == w.ctl[c].pending
             g == StateEvent(new)
  <1> SUFFICES Proper(r)
    OBVIOUS
  <1>1. /\ Good(r) /\ g \in GoodEvent
        /\ \/ w.ctl[c].state = new /\ r = w
           \/ w.ctl[c].state # new /\ Entered(w, c, new, r)
    BY SetStateFacts
  <1>2. g.k = "state" /\ g.cause = 0
    BY DEF StateEvent, Event
  <1>3. \A n : ProperAt(n, g)
    BY <1>2 DEF ProperAt
  <1>4. p \in PendingType /\ PendingIn(w.stream, p) /\ Len(w.stream) \in Nat
    BY Fields
  <1>5. CASE r = w
    BY <1>5
  <1>6. CASE Dropped(w, c, new, r)
    <2>1. p # NoAction /\ r.stream = Append(Append(w.stream, NotExecuted(p)), g)
      BY <1>6 DEF Dropped
    <2>2. NotExecuted(p) \in GoodEvent /\ NotExecuted(p).k = "obs" /\ NotExecuted(p).x = "notExecuted"
      <3>1. p.id \in Nat /\ p.act \in Nat
        BY <1>4 DEF PendingType
      <3>2. "obs" \in ActionKinds \cup {"obs", "state"} /\ "notExecuted" \in Answers
        BY DEF Answers
      <3> QED BY <3>1, <3>2, EventGood DEF NotExecuted
    <2>3. \A n : ProperAt(n, NotExecuted(p))
      BY <2>2 DEF ProperAt
    <2> HIDE DEF g, p, r
    <2> QED BY <1>1, <1>3, <2>1, <2>2, <2>3, ProperTwo
  <1>7. CASE Reissued(w, c, new, r)
    <2>1. p # NoAction /\ new \in AnswerStates
          /\ r.stream = Append(Append(w.stream, Again(w.stream, p, new)), g)
      BY <1>7 DEF Reissued
    <2>2. /\ Again(w.stream, p, new) \in GoodEvent /\ Again(w.stream, p, new).k = p.k
      BY <2>1, ReissueFacts
    <2>3. p.k \in {"recall", "run"} /\ Len(w.stream) + 1 > 1
      BY <1>4, <2>1 DEF PendingIn
    <2>4. ProperAt(Len(w.stream) + 1, Again(w.stream, p, new))
      BY <2>2, <2>3 DEF ProperAt
    <2> HIDE DEF g, p, r
    <2> QED BY <1>1, <1>3, <2>1, <2>2, <2>4, ProperTwo
  <1>8. CASE DroppedSilently(w, c, new, r) \/ Plainly(w, c, new, r)
    <2>1. r.stream = Append(w.stream, g)
      BY <1>8 DEF DroppedSilently, Plainly
    <2> HIDE DEF g, p, r
    <2> QED BY <1>1, <1>3, <2>1, ProperOne
  <1> QED BY <1>1, <1>5, <1>6, <1>7, <1>8 DEF Entered

LEMMA RecalledProper ==
    ASSUME NEW w, Good(w), Proper(w), NEW c \in Controllers, NEW i \in 1 .. Len(w.stream)
    PROVE  Proper(Recalled(w, c, i))
  <1> DEFINE r == Recalled(w, c, i)
  <1>1. r.stream = Append(w.stream, RecallOf(i)) /\ RecallOf(i) \in GoodEvent
    BY RecalledFacts
  <1>2. Len(w.stream) + 1 > 1
    BY Fields
  <1>3. ProperAt(Len(w.stream) + 1, RecallOf(i))
    BY <1>2 DEF ProperAt, RecallOf, Event
  <1> HIDE DEF r
  <1> QED BY <1>1, <1>3, ProperOne DEF r

LEMMA ClearedFacts ==
    ASSUME NEW w, Good(w), NEW c \in Controllers
    PROVE  LET r == Cleared(w, c) IN
           /\ Good(r) /\ Frame(w, c, r) /\ r.flags = w.flags /\ r.stream = w.stream
           /\ r.ctl[c].state = w.ctl[c].state /\ r.ctl[c].pending = NoAction
  <1>1. PendingIn(w.stream, NoAction) /\ NoAction \in PendingType
    BY NoActionType
  <1> QED BY <1>1, WithPending DEF Cleared

LEMMA ByKindProper ==
    ASSUME NEW u, Good(u), Proper(u), NEW c \in Controllers, NEW i \in 1 .. Len(u.stream), NEW v,
           ByKind(u, c, i, v)
    PROVE  Proper(v)
  <1> DEFINE e == u.stream[i]
             q == Recalled(u, c, i)
             z == Cleared(u, c)
  <1>1. i \in Nat
    BY Fields
  <1>2. Good(q) /\ Proper(q)
    BY <1>1, RecalledFacts, RecalledProper
  <1>3. Good(z) /\ Proper(z)
    <2>1. Good(z) /\ z.stream = u.stream
      BY ClearedFacts
    <2> QED BY <2>1, ProperSame
  <1>4. e.k # "delegate"
    BY DEF Proper, ProperAt
  <1>5. \/ v = u \/ v = z
        \/ \E s \in AgentStates : v = SetState(u, c, s) \/ v = SetState(q, c, s) \/ v = SetState(z, c, s)
    <2>1. {"RUNNING", "AWAITING_USER_INPUT", "FINISHED", "REJECTED"} \subseteq AgentStates
      BY DEF AgentStates
    <2> QED BY <1>4, <2>1 DEF ByKind, Observed
  <1> HIDE DEF q, z
  <1> QED BY <1>2, <1>3, <1>5, SetStateProper

(* The controller's state and pending action as before, nothing taken from *)
(* the log, no answer handled.                                             *)
LEMMA AwakeKept ==
    ASSUME NEW w, NEW r, Good(w), Good(r), Grew(w, r), NEW h \in Nat, NEW a \in Nat, NEW b, NEW d,
           w.ctl["parent"].state = "RUNNING" => OnWay(w, h, a, b, d),
           r.ctl["parent"].state = w.ctl["parent"].state,
           r.ctl["parent"].pending = w.ctl["parent"].pending,
           r.stepping = w.stepping, r.errors >= w.errors
    PROVE  Awake(r, h, a, b, d)
  <1> SUFFICES ASSUME w.ctl["parent"].state = "RUNNING" PROVE OnWay(r, h, a, b, d)
    BY DEF Awake
  <1> DEFINE p == w.ctl["parent"].pending
  <1>1. /\ Len(w.stream) \in Nat /\ Len(r.stream) \in Nat /\ Len(w.stream) <= Len(r.stream)
        /\ \A i \in 1 .. Len(w.stream) : r.stream[i] = w.stream[i]
        /\ w.errors \in Nat /\ r.errors \in Nat
    BY Fields DEF Grew
  <1>2. \A n : \A i \in n + 1 .. Len(w.stream) : n \in Nat =>
            i \in n + 1 .. Len(r.stream) /\ r.stream[i] = w.stream[i]
    BY <1>1
  <1>3. OnWay(w, h, a, b, d)
    OBVIOUS
  <1>4. p = NoAction => Idle(r, h, a)
    <2>1. p = NoAction => Idle(w, h, a)
      BY <1>3 DEF OnWay
    <2>2. w.errors > 0 => r.errors > 0
      BY <1>1
    <2> QED BY <1>2, <2>1, <2>2 DEF Idle
  <1>5. \A n : AnswerDue(w, h, n) => AnswerDue(r, h, n)
    BY <1>2 DEF AnswerDue
  <1>6. w.errors > 0 => r.errors > 0
    BY <1>1
  <1>7. p.k = "run" => r.stream[p.id] = w.stream[p.id]
    <2>1. PendingIn(w.stream, p)
      BY Fields DEF Controllers
    <2>2. p.k = "run" => p.id \in 1 .. Len(w.stream)
      BY <2>1 DEF PendingIn, NoAction
    <2> QED BY <1>1, <2>2
  <1> QED BY <1>3, <1>4, <1>5, <1>6, <1>7 DEF OnWay

(* An event is handled that is not what the controller waits for. *)
LEMMA AwakeSkips ==
    ASSUME NEW w, Good(w), NEW h \in Nat, NEW a \in Nat, NEW b, NEW d, Awake(w, h, a, b, d),
           h + 1 \in 1 .. Len(w.stream),
           w.ctl["parent"].state = "RUNNING" /\ w.ctl["parent"].pending = NoAction
               => ~Waking(w.stream[h + 1]),
           w.ctl["parent"].pending # NoAction
               => ~AnswersTo(w.stream[h + 1], w.ctl["parent"].pending.id)
    PROVE  Awake(w, h + 1, a, b, d)
  <1> SUFFICES ASSUME w.ctl["parent"].state = "RUNNING" PROVE OnWay(w, h + 1, a, b, d)
    BY DEF Awake
  <1> DEFINE p == w.ctl["parent"].pending
  <1>1. OnWay(w, h, a, b, d)
    BY DEF Awake
  <1>2. Len(w.stream) \in Nat
    BY Fields
  <1>3. \A i \in h + 1 .. Len(w.stream) : i = h + 1 \/ i \in (h + 1) + 1 .. Len(w.stream)
    BY <1>2
  <1>4. p = NoAction => Idle(w, h + 1, a)
    BY <1>1, <1>3 DEF OnWay, Idle
  <1>5. p # NoAction /\ AnswerDue(w, h, p.id) => AnswerDue(w, h + 1, p.id)
    BY <1>3 DEF AnswerDue
  <1>6. p.k \in {"run", "recall"} => p # NoAction
    BY DEF NoAction
  <1> QED BY <1>1, <1>4, <1>5, <1>6 DEF OnWay

(* Two worlds alike in what Awake looks at. *)
LEMMA AwakeSame ==
    ASSUME NEW w, NEW r, r.stream = w.stream, r.stepping = w.stepping, r.errors = w.errors,
           r.ctl["parent"].state = w.ctl["parent"].state,
           r.ctl["parent"].pending = w.ctl["parent"].pending,
           NEW h, NEW a, NEW b, NEW d, Awake(w, h, a, b, d)
    PROVE  Awake(r, h, a, b, d)
  BY DEF Awake, OnWay, Idle, AnswerDue

(* Whatever is handled, a controller that is RUNNING afterwards steps or   *)
(* waits for something that will come.                                     *)
LEMMA AwakeHandled ==
    ASSUME TypeInv, PaidInv, WakeInv, NEW v, Handles("parent", v), World' = v,
           ~ShouldStep(v, "parent", handled + 1) \/ ~MayCall(v, "parent")
    PROVE  Awake(v, handled + 1, ran, recalled, running)
  <1> DEFINE i == handled + 1
             c == "parent"
             e == stream[i]
  <1>0. /\ i \in 1 .. Len(stream) /\ v = Handle(World, c, i) /\ Good(World) /\ Good(v)
        /\ Len(stream) \in Nat /\ handled \in Nat /\ Grew(World, v) /\ c \in Controllers
        /\ ran \in Nat /\ recalled \in 0 .. Len(stream)
    BY StreamType DEF Handles, TypeInv, TypeOK, Controllers
  <1>01. /\ i \in Nat
         /\ "RUNNING" \in AgentStates /\ "AWAITING_USER_INPUT" \in AgentStates
         /\ "FINISHED" \in AgentStates /\ "REJECTED" \in AgentStates
    BY <1>0 DEF AgentStates
  <1>1. PICK u : Remembered(World, c, i, u) /\ ByKind(u, c, i, v)
    BY <1>0, HandleByKind, WorldFields
  <1>2. /\ Good(u) /\ u.stream = stream /\ u.stepping = stepping /\ u.errors = errors
        /\ u.delegated = FALSE /\ u.stepping # "delegate"
        /\ u.ctl[c].state = ctl[c].state /\ u.ctl[c].pending = ctl[c].pending
    BY <1>1, WorldFields DEF Remembered, WakeInv, Alone
  <1>3. Awake(u, handled, ran, recalled, running)
    BY <1>2, WorldFields, AwakeSame DEF WakeInv
  <1>4. ProperAt(i, e) /\ e \in GoodEvent
    BY <1>0, WorldFields, StreamType DEF WakeInv, Proper
  <1>5. v.stream[i] = e /\ u.stream[i] = e
    BY <1>0, <1>2, WorldFields DEF Grew
  <1>6. v.delegated = FALSE
    <2>1. Moved(World, c, v)
      BY <1>4 DEF Handles, ProperAt
    <2> QED BY <2>1, WorldFields DEF Moved, WakeInv, Alone
  <1> HIDE DEF i, e
  <1>7. ASSUME v.ctl[c].state = "RUNNING", e.k \in {"condense", "obs"} \/ (e.k = "message")
        PROVE  ShouldStep(v, c, i)
    <2>1. e.k = "obs" => (e.x = "null" => e.cause > 1)
      BY <1>4 DEF ProperAt
    <2> QED BY <1>5, <1>6, <1>7, <2>1 DEF ShouldStep, HasDelegate
  <1>8. CASE v.ctl[c].state # "RUNNING"
    BY <1>8 DEF Awake
  <1>9. CASE v = u /\ v.ctl[c].state = "RUNNING"
    <2>1. u.ctl[c].pending = NoAction => ~Waking(e)
      <3> SUFFICES ASSUME u.ctl[c].pending = NoAction, Waking(e) PROVE FALSE
        OBVIOUS
      <3>1. MayCall(v, c)
        BY <1>9 DEF MayCall
      <3>2. e.k \in {"finish", "reject"}
        BY <1>7, <1>9, <3>1 DEF Waking, i
      <3>3. \E s \in {"FINISHED", "REJECTED"} : v = SetState(u, c, s)
        BY <1>1, <1>5, <3>2 DEF ByKind, FromUser
      <3>4. v.ctl[c].state \in {"FINISHED", "REJECTED"}
        BY <1>0, <1>01, <1>2, <3>3, SetStateFacts
      <3> QED BY <1>9, <3>4
    <2>2. u.ctl[c].pending # NoAction => ~AnswersTo(e, u.ctl[c].pending.id)
      <3> SUFFICES ASSUME u.ctl[c].pending # NoAction, AnswersTo(e, u.ctl[c].pending.id) PROVE FALSE
        OBVIOUS
      <3>1. IsAnswer(u, c, i)
        BY <1>5 DEF IsAnswer, AnswersTo
      <3>2. e.k = "obs" /\ Observed(u, c, i, v)
        BY <1>1, <1>5 DEF ByKind, FromUser, AnswersTo
      <3>3. v = Cleared(u, c)
        BY <1>9, <3>1, <3>2 DEF Observed
      <3>4. v.ctl[c].pending = NoAction
        BY <1>0, <1>2, <3>3, ClearedFacts
      <3> QED BY <1>9, <3>4
    <2> QED BY <1>0, <1>2, <1>3, <1>5, <1>9, <2>1, <2>2, AwakeSkips DEF i
  <1>10. CASE FromUser(e)
    <2>1. v = SetState(Recalled(u, c, i), c, "RUNNING")
      BY <1>1, <1>5, <1>10 DEF ByKind, FromUser
    <2>2. v.ctl[c].pending = Recalling(Len(stream) + 1)
      BY <1>0, <1>01, <1>2, <2>1, RequestFacts
    <2>3. /\ v.ctl[c].pending.k = "recall" /\ v.ctl[c].pending # NoAction
          /\ v.ctl[c].pending.id > recalled
      BY <1>0, <2>2 DEF Recalling, NoAction
    <2> QED BY <2>3 DEF Awake, OnWay
  <1>11. CASE e.k = "change" /\ e.x = "RUNNING" /\ v # u
    <2>1. i = 2 /\ handled = 1
      <3>1. i = 2
        BY <1>0, <1>11 DEF PaidInv, OneStart, IsChange, e
      <3> QED BY <1>0, <3>1 DEF i
    <2>2. v = SetState(u, c, "RUNNING")
      BY <1>1, <1>5, <1>11 DEF ByKind, FromUser
    <2>3. u.ctl[c].state # "RUNNING" /\ v.ctl[c].pending = u.ctl[c].pending
      <3>1. \/ u.ctl[c].state = "RUNNING" /\ v = u
            \/ u.ctl[c].state # "RUNNING" /\ Entered(u, c, "RUNNING", v)
        BY <1>0, <1>01, <1>2, <2>2, SetStateFacts
      <3> QED BY <1>11, <3>1
              DEF Entered, Dropped, DroppedSilently, Reissued, Plainly, Silenced, AnswerStates
    <2>4. /\ ctl[c].pending = NoAction
          /\ \E k \in 3 .. Len(stream) : stream[k].k = "obs"
      BY <1>0, <1>2, <1>11, <2>1, <2>3, WorldFields DEF WakeInv, Starting, IsChange, e
    <2>5. PICK k \in 3 .. Len(stream) : stream[k].k = "obs"
      BY <2>4
    <2>6. Len(v.stream) \in Nat /\ Len(stream) <= Len(v.stream) /\ v.stream[k] = stream[k]
      BY <1>0, <2>5, Fields, WorldFields DEF Grew
    <2>7. k \in handled + 1 + 1 .. Len(v.stream) /\ Waking(v.stream[k])
      BY <1>0, <2>1, <2>5, <2>6 DEF Waking
    <2>8. Idle(v, handled + 1, ran)
      BY <2>7 DEF Idle
    <2> QED BY <1>2, <2>3, <2>4, <2>8 DEF Awake, OnWay, NoAction
  <1>12. CASE v # u /\ ~FromUser(e) /\ ~(e.k = "change" /\ e.x = "RUNNING") /\ v.ctl[c].state = "RUNNING"
    <2>1. e.k \in {"obs", "state"} /\ Observed(u, c, i, v)
      <3>1. e.k = "change" => e.x \in AgentStates
        BY <1>4, GoodFields
      <3>2. ~\E s \in AgentStates \ {"RUNNING"} : v = SetState(u, c, s)
        BY <1>0, <1>2, <1>12, SetStateFacts
      <3>3. {"AWAITING_USER_INPUT", "FINISHED", "REJECTED"} \subseteq AgentStates \ {"RUNNING"}
        BY DEF AgentStates
      <3>4. e.k # "delegate"
        BY <1>4 DEF ProperAt
      <3> QED BY <1>1, <1>5, <1>12, <3>1, <3>2, <3>3, <3>4 DEF ByKind
    <2>2. IsAnswer(u, c, i)
      BY <1>12, <2>1 DEF Observed
    <2>3. e.k = "obs"
      <3> SUFFICES ASSUME e.k = "state" PROVE FALSE
        BY <2>1
      <3>1. u.ctl[c].pending.id = 0
        BY <1>4, <1>5, <2>2 DEF ProperAt, IsAnswer
      <3>2. PendingIn(u.stream, u.ctl[c].pending) /\ Len(u.stream) \in Nat
        BY <1>0, <1>2, Fields
      <3> QED BY <2>2, <3>1, <3>2 DEF PendingIn, IsAnswer
    <2>4. ShouldStep(v, c, i)
      BY <1>7, <1>12, <2>3
    <2>5. v.ctl[c].pending = NoAction
      <3> DEFINE z == Cleared(u, c)
      <3>1. Good(z) /\ z.ctl[c].pending = NoAction
        BY <1>0, <1>2, ClearedFacts
      <3> HIDE DEF z
      <3>2. v = z \/ v = SetState(z, c, "RUNNING") \/ v = SetState(z, c, "AWAITING_USER_INPUT")
        BY <1>12, <2>1 DEF Observed, z
      <3>3. v = SetState(z, c, "AWAITING_USER_INPUT") => v.ctl[c].state = "AWAITING_USER_INPUT"
        BY <1>0, <1>01, <3>1, SetStateFacts
      <3>4. v = SetState(z, c, "RUNNING") => v.ctl[c].pending = NoAction
        <4>1. v = SetState(z, c, "RUNNING") => v = z \/ Entered(z, c, "RUNNING", v)
          BY <1>0, <1>01, <3>1, SetStateFacts
        <4> QED BY <3>1, <4>1
                DEF Entered, Dropped, DroppedSilently, Reissued, Plainly, Silenced, AnswerStates
      <3> QED BY <1>12, <3>1, <3>2, <3>3, <3>4
    <2>6. MayCall(v, c)
      BY <1>12, <2>5 DEF MayCall
    <2> QED BY <2>4, <2>6 DEF i
  <1> QED BY <1>8, <1>9, <1>10, <1>11, <1>12 DEF i

LEMMA ParentOnly ==
    ASSUME TypeInv, WakeInv, NEW c \in Controllers, OnEvent(c)
    PROVE  c = "parent" /\ stepping = "none" /\ delegated = FALSE
  BY WorldFields DEF OnEvent, Target, CallbackMayRun, WakeInv, Alone

LEMMA ReactProper ==
    ASSUME NEW w, Good(w), Proper(w), NEW c \in Controllers, NEW x \in ErrKinds
    PROVE  Proper(ReactToException(w, c, x))
  <1> DEFINE n == IF c = "parent" THEN w.errors + 1 ELSE w.errors
             v == Failing(w, c, x, n)
  <1>1. n \in Nat /\ "ERROR" \in AgentStates
    BY Fields DEF AgentStates
  <1>2. ReactToException(w, c, x) = SetState(v, c, "ERROR")
    BY DEF ReactToException, Failing
  <1> HIDE DEF n
  <1>3. Good(v) /\ v.stream = w.stream
    BY <1>1, WithErr DEF Noted
  <1> HIDE DEF v
  <1>4. Proper(v)
    BY <1>3, ProperSame
  <1> QED BY <1>1, <1>2, <1>3, <1>4, SetStateProper

LEMMA WakeOnEvent ==
    ASSUME TypeInv, PaidInv, WakeInv, NEW c \in Controllers, OnEvent(c)
    PROVE  WakeInv'
  <1> DEFINE i == handled + 1
             e == stream[i]
  <1>0. c = "parent" /\ stepping = "none" /\ delegated = FALSE /\ PaidInv'
    BY ParentOnly, PaidOnEvent
  <1>1. PICK v : Handles(c, v)
    BY OnEventFacts
  <1>2. /\ i \in 1 .. Len(stream) /\ v = Handle(World, c, i) /\ Good(World) /\ Good(v)
        /\ Good(World') /\ Len(stream) \in Nat /\ handled \in Nat /\ handled' = i
        /\ Grew(World, v) /\ Grew(World, World')
        /\ \/ ShouldStep(v, c, i) /\ (Fails(v, c, World') \/ Calls(v, c, World'))
           \/ ShouldStep(v, c, i) /\ ~MayCall(v, c) /\ World' = v
           \/ ~ShouldStep(v, c, i) /\ World' = v
    BY <1>1, StreamType DEF Handles, TypeInv, TypeOK
  <1>3. PICK u : Remembered(World, c, i, u) /\ ByKind(u, c, i, v)
    BY <1>2, HandleByKind, WorldFields
  <1>4. Good(u) /\ u.stream = stream
    BY <1>3, WorldFields DEF Remembered
  <1>5. Proper(v)
    BY <1>2, <1>3, <1>4, WorldFields, ProperSame, ByKindProper DEF WakeInv
  <1>6. Proper(World')
    <2>1. CASE Fails(v, c, World')
      <3>1. World'.stream = Append(v.stream, StateEvent("ERROR"))
        BY <2>1 DEF Fails
      <3>2. StateEvent("ERROR") \in GoodEvent
        BY StateGood DEF AgentStates
      <3>3. ProperAt(Len(v.stream) + 1, StateEvent("ERROR"))
        BY DEF ProperAt, StateEvent, Event
      <3> QED BY <1>2, <1>5, <3>1, <3>2, <3>3, ProperOne
    <2>2. CASE Calls(v, c, World')
      BY <1>5, <2>2, ProperSame DEF Calls
    <2> QED BY <1>2, <1>5, <2>1, <2>2
  <1>7. v.delegated = FALSE /\ v.stepping = "none"
    <2>1. e.k # "delegate"
      BY <1>2, WorldFields DEF WakeInv, Proper, ProperAt
    <2>2. Moved(World, c, v)
      BY <1>1, <2>1 DEF Handles
    <2> QED BY <1>0, <2>2, WorldFields DEF Moved
  <1>8. Alone(World')
    BY <1>0, <1>2, <1>7 DEF Alone, Fails, Calls, MayCall
  <1>9. Awake(World', handled', ran', recalled', running')
    <2>1. ran' = ran /\ recalled' = recalled /\ running' = running
      BY DEF OnEvent, runtimeVars
    <2>2. CASE Fails(v, c, World')
      BY <1>0, <2>2 DEF Fails, Awake
    <2>3. CASE Calls(v, c, World')
      <3>1. World'.ctl[c].pending = NoAction /\ World'.stepping # "none"
        BY <1>0, <2>3 DEF Calls, MayCall
      <3> QED BY <1>0, <3>1 DEF Awake, OnWay, Idle, NoAction
    <2>4. CASE World' = v /\ (~ShouldStep(v, c, i) \/ ~MayCall(v, c))
      BY <1>0, <1>1, <1>2, <2>1, <2>4, AwakeHandled
    <2> QED BY <1>2, <2>2, <2>3, <2>4
  <1>10. Starting(World', handled')
    <2> SUFFICES ASSUME i <= 1
                 PROVE  /\ World'.ctl["parent"].answered = {}
                        /\ Len(World'.stream) >= 2 /\ IsChange(World'.stream[2], "RUNNING") =>
                              World'.ctl["parent"].state = "RUNNING" /\ World'.ctl["parent"].pending # NoAction
      BY <1>2 DEF Starting
    <2>1. handled = 0 /\ i = 1 /\ Requests = 0
      BY <1>2, RequestsFacts
    <2>2. World' = v
      BY <1>1, <2>1, FirstEvent
    <2>3. NotStarted
      BY <2>1 DEF PaidInv
    <2>4. Early(e)
      BY <1>2, <2>3 DEF NotStarted
    <2>5. ctl[c].answered = {} /\ ctl[c].pending = NoAction
      BY <1>0, <2>1, <2>3, WorldFields DEF WakeInv, Starting, NotStarted
    <2>6. u.ctl[c].answered = {} /\ u.ctl[c].pending = NoAction
      BY <1>3, <2>4, <2>5, WorldFields DEF Remembered, Early, IsState
    <2>7. FromUser(e) => v = SetState(Recalled(u, c, i), c, "RUNNING")
      BY <1>3, <1>4 DEF ByKind, FromUser
    <2>8. v.ctl[c].answered = {}
      <3> DEFINE q == Recalled(u, c, i)
      <3>1. Good(q) /\ q.ctl[c].answered = {}
        <4>1. i \in Nat
          BY <1>2
        <4> HIDE DEF i
        <4> QED BY <1>4, <2>6, <4>1, RecalledFacts DEF Frame
      <3> HIDE DEF q
      <3>2. \/ v = u
            \/ \E s \in AgentStates : v = SetState(u, c, s) \/ v = SetState(q, c, s)
        <4>1. "RUNNING" \in AgentStates
          BY DEF AgentStates
        <4>2. CASE FromUser(e)
          BY <2>7, <4>1, <4>2 DEF q
        <4>3. CASE ~FromUser(e)
          <5>1. e.k \in {"change", "state"}
            BY <2>4, <4>3 DEF Early, IsState, FromUser
          <5> QED BY <1>3, <1>4, <2>6, <5>1, <4>3 DEF ByKind, Observed, IsAnswer
        <4> QED BY <4>2, <4>3
      <3> QED BY <1>4, <2>6, <3>1, <3>2, SetStateFacts DEF Frame
    <2>9. ASSUME Len(World'.stream) >= 2, IsChange(World'.stream[2], "RUNNING")
          PROVE  v.ctl[c].state = "RUNNING" /\ v.ctl[c].pending # NoAction
      <3>1. Len(stream') \in Nat /\ stream'[1] = stream[1]
        BY <1>2, Fields, WorldFields, NewWorldFields DEF Grew
      <3>2. 2 \in 1 .. Len(stream') /\ IsChange(stream'[2], "RUNNING")
        BY <2>9, <3>1, NewWorldFields
      <3>3. FromUser(stream'[1])
        BY <1>0, <3>2 DEF PaidInv, OneStart, IsChange, FromUser
      <3>4. FromUser(e)
        BY <2>1, <3>1, <3>3
      <3> QED BY <1>2, <1>4, <2>7, <3>4, RequestFacts
    <2> QED BY <1>0, <2>2, <2>8, <2>9
  <1> QED BY <1>6, <1>8, <1>9, <1>10 DEF WakeInv

LEMMA WakeLlm ==
    ASSUME TypeInv, PaidInv, WakeInv, NEW o \in Outcomes, o \notin {"delegate", "delegateIdle"},
           LlmReturns(o)
    PROVE  WakeInv'
  <1> DEFINE c == "parent"
             a == Answering
             m == Len(stream) + 1
  <1>1. /\ stepping \in Controllers /\ World' = Produce(a, stepping, o)
        /\ Produced(a, stepping, World') /\ handled' = handled /\ Good(World')
    BY LlmReturnsFacts
  <1>2. stepping = c /\ c \in Controllers
    BY <1>1, WorldFields DEF WakeInv, Alone, Controllers
  <1>3. /\ Good(a) /\ a.stream = stream /\ a.ctl = ctl /\ a.delegated = FALSE /\ a.stepping = "none"
        /\ a.flags.iter \in Nat
    BY AnsweringFacts, WorldFields DEF WakeInv, Alone, TypeInv, TypeOK, FlagsType
  <1>4. ctl[c].pending = NoAction
    BY <1>2, WorldFields DEF WakeInv, Alone
  <1>5. Alone(World')
    BY <1>1, <1>2, <1>3 DEF Produced, Alone
  <1>6. handled > 1 /\ handled \in Nat
    BY <1>1, <1>2 DEF PaidInv, OneStart, TypeInv, TypeOK
  <1>7. Starting(World', handled')
    BY <1>1, <1>6 DEF Starting
  <1>8. /\ ran' = ran /\ recalled' = recalled /\ running' = running /\ Len(stream) \in Nat
        /\ ran \in 0 .. Len(stream) /\ handled \in 0 .. Len(stream) /\ m \in Nat
    BY StreamType DEF LlmReturns, runtimeVars, TypeInv, TypeOK
  <1>9. Proper(a)
    BY <1>3, WorldFields, ProperSame DEF WakeInv
  <1>10. o \in AllOutcomes
    BY ConfigAssumption
  <1>11. /\ "other" \in ErrKinds /\ "RATE_LIMITED" \in AgentStates /\ "ERROR" \in AgentStates
         /\ "confirmed" \in Confirmation /\ "awaiting" \in Confirmation
         /\ "AWAITING_USER_CONFIRMATION" \in AgentStates
    BY DEF ErrKinds, AgentStates, Confirmation
  <1> HIDE DEF a
  <1>12. Proper(World') /\ Awake(World', handled', ran', recalled', running')
    <2> DEFINE r == World'
    <2> SUFFICES Proper(r) /\ Awake(r, handled, ran, recalled, running)
      BY <1>1, <1>8
    <2>0. \A g \in GoodEvent : g.k = "run" => ProperAt(m, g)
      BY DEF ProperAt
    <2>1. CASE o = "run" /\ r = Runnable(a, c, TRUE, "confirmed")
      <3> DEFINE p == Runs(m, a.flags.iter, TRUE)
                 g == RunEvent(p, "confirmed")
      <3>1. /\ r.ctl[c].pending = p /\ r.stream = Append(stream, g)
        BY <1>2, <1>3, <1>11, <2>1, RunnableFacts DEF Ran
      <3>2. p.act \in Nat /\ p.k = "run" /\ p.id = m /\ p # NoAction /\ p.gated = TRUE
        BY <1>3 DEF Runs, NoAction
      <3>3. g \in GoodEvent /\ g.k = "run" /\ g.x = "confirmed"
        BY <1>11, <3>2, RunEventGood
      <3> HIDE DEF p, g, r
      <3>4. Proper(r)
        BY <1>3, <1>9, <2>0, <3>1, <3>3, ProperOne
      <3>5. r.stream[m] = g /\ m > ran
        BY <1>3, <1>8, <3>1, <3>3, GrewOne
      <3> QED BY <3>1, <3>2, <3>3, <3>4, <3>5 DEF Awake, OnWay
    <2>2. CASE o \in {"ask", "askUngated"} /\ \E b \in BOOLEAN : r = Ask(a, c, b)
      <3>1. PICK b \in BOOLEAN : r = Ask(a, c, b)
        BY <2>2
      <3> DEFINE q == SetState(a, c, "AWAITING_USER_CONFIRMATION")
                 p == Runs(Len(q.stream) + 1, a.flags.iter, b)
                 g == RunEvent(p, "awaiting")
      <3>2. /\ r.ctl[c].state = "AWAITING_USER_CONFIRMATION" /\ r.stream = Append(q.stream, g)
        BY <1>2, <1>3, <3>1, AskFacts DEF AskedFor
      <3>3. p.act \in Nat
        BY <1>3 DEF Runs
      <3>4. g \in GoodEvent /\ g.k = "run"
        BY <1>11, <3>3, RunEventGood
      <3>5. Good(q) /\ Proper(q)
        BY <1>2, <1>3, <1>9, <1>11, SetStateFacts, SetStateProper
      <3>6. ProperAt(Len(q.stream) + 1, g)
        BY <3>4 DEF ProperAt
      <3> HIDE DEF q, p, g, r
      <3>7. Proper(r)
        BY <3>2, <3>4, <3>5, <3>6, ProperOne
      <3> QED BY <3>2, <3>7 DEF Awake
    <2>3. CASE o \in Adds /\ r = Emit(a, Added(o, a.flags.iter))
      <3> DEFINE g == Added(o, a.flags.iter)
      <3>1. /\ g \in GoodEvent
            /\ g.k \in {"message", "obs", "condense", "think", "finish", "reject", "delegate"}
            /\ g.k = "obs" => g.x = "error"
            /\ g.k = "delegate" => o \in {"delegate", "delegateIdle"}
        BY <1>3, <2>3, AddedGood
      <3>2. /\ r.stream = Append(a.stream, g) /\ r.ctl = a.ctl
        BY <1>3, <2>3, <3>1, EmitFacts
      <3> HIDE DEF g, r
      <3>3. \A n : ProperAt(n, g)
        BY <3>1 DEF ProperAt
      <3>4. Proper(r)
        BY <1>3, <1>9, <3>1, <3>2, <3>3, ProperOne
      <3>5. r.stream[m] = g /\ Len(r.stream) = m
        BY <1>3, <3>1, <3>2, GrewOne
      <3>6. m \in handled + 1 .. Len(r.stream) /\ m \in ran + 1 .. Len(r.stream)
        BY <1>8, <3>5
      <3>7. Waking(g) \/ g.k = "think"
        BY <3>1 DEF Waking
      <3>8. Idle(r, handled, ran)
        BY <3>5, <3>6, <3>7 DEF Idle
      <3>9. r.ctl[c].pending = NoAction
        BY <1>3, <1>4, <3>2
      <3> QED BY <3>4, <3>8, <3>9 DEF Awake, OnWay, NoAction
    <2>4. CASE r = ReactToException(a, c, "other")
      <3>1. r.ctl[c].state = "ERROR" /\ Proper(r)
        BY <1>2, <1>3, <1>9, <1>11, <2>4, ReactFacts, ReactProper
      <3> HIDE DEF r
      <3> QED BY <3>1 DEF Awake
    <2>5. CASE r = SetState(a, c, "RATE_LIMITED")
      <3>1. r.ctl[c].state = "RATE_LIMITED" /\ Proper(r)
        BY <1>2, <1>3, <1>9, <1>11, <2>5, SetStateFacts, SetStateProper
      <3> HIDE DEF r
      <3> QED BY <3>1 DEF Awake
    <2>6. CASE r = SetState([a EXCEPT !.ctl[c].err = "other"], c, "ERROR")
      <3> DEFINE q == [a EXCEPT !.ctl[c].err = "other"]
      <3>1. Noted(a, c, "other", a.errors, q)
        BY <1>2, <1>3, ExhaustedFacts
      <3> HIDE DEF q
      <3>2. Good(q) /\ Proper(q)
        BY <1>9, <3>1, ProperSame DEF Noted
      <3>3. r.ctl[c].state = "ERROR" /\ Proper(r)
        BY <1>2, <1>11, <2>6, <3>2, SetStateFacts, SetStateProper DEF q
      <3> HIDE DEF r
      <3> QED BY <3>3 DEF Awake
    <2>7. \/ o = "run" /\ r = Runnable(a, c, TRUE, "confirmed")
          \/ o \in {"ask", "askUngated"} /\ \E b \in BOOLEAN : r = Ask(a, c, b)
          \/ o \in Adds /\ r = Emit(a, Added(o, a.flags.iter))
          \/ r = ReactToException(a, c, "other")
          \/ r = SetState(a, c, "RATE_LIMITED")
          \/ r = SetState([a EXCEPT !.ctl[c].err = "other"], c, "ERROR")
      <3>1. r = Produce(a, c, o)
        BY <1>1, <1>2
      <3> HIDE DEF r
      <3> QED BY <1>10, <3>1, ProduceCases
    <2> HIDE DEF r
    <2> QED BY <2>1, <2>2, <2>3, <2>4, <2>5, <2>6, <2>7
  <1> QED BY <1>5, <1>7, <1>12 DEF WakeInv

(* An actor beside the controller adds an event and takes none away from   *)
(* what the controller waits for.                                          *)
LEMMA WakeBeside ==
    ASSUME TypeInv, WakeInv, NEW e, AddsEvent(e), \A n : ProperAt(n, e),
           UNCHANGED <<handled, ctl, delegated, stepping, errors>>
    PROVE  /\ Alone(World') /\ Proper(World') /\ Starting(World', handled')
           /\ Awake(World', handled, ran, recalled, running)
  <1>0. /\ e \in GoodEvent /\ Beside(e) /\ Good(World) /\ Good(World') /\ Grew(World, World')
        /\ World'.stream = Append(stream, e)
        /\ World'.ctl = ctl /\ World'.delegated = delegated /\ World'.stepping = stepping
        /\ World'.errors = errors
    BY NewWorldFields DEF AddsEvent, TypeInv
  <1>1. handled \in Nat /\ ran \in Nat /\ Len(stream) \in Nat /\ errors \in Nat
    BY StreamType DEF TypeInv, TypeOK
  <1>2. Alone(World')
    BY <1>0, WorldFields DEF WakeInv, Alone
  <1>3. Proper(World')
    BY <1>0, WorldFields, ProperOne DEF WakeInv
  <1>4. Awake(World', handled, ran, recalled, running)
    <2>1. World'.errors >= World.errors
      BY <1>0, <1>1, WorldFields
    <2> QED BY <1>0, <1>1, <2>1, WorldFields, AwakeKept DEF WakeInv, Awake
  <1>5. Starting(World', handled')
    <2> SUFFICES ASSUME handled <= 1
                 PROVE  /\ ctl["parent"].answered = {}
                        /\ handled = 1 /\ Len(World'.stream) >= 2 /\ IsChange(World'.stream[2], "RUNNING") =>
                              \/ ctl["parent"].state = "RUNNING" /\ ctl["parent"].pending # NoAction
                              \/ /\ ctl["parent"].pending = NoAction
                                 /\ \E i \in 3 .. Len(World'.stream) : World'.stream[i].k = "obs"
      BY <1>0 DEF Starting
    <2>1. ctl["parent"].answered = {}
      BY WorldFields DEF WakeInv, Starting
    <2>2. ASSUME handled = 1, Len(World'.stream) >= 2, IsChange(World'.stream[2], "RUNNING")
          PROVE  \/ ctl["parent"].state = "RUNNING" /\ ctl["parent"].pending # NoAction
                 \/ /\ ctl["parent"].pending = NoAction
                    /\ \E i \in 3 .. Len(World'.stream) : World'.stream[i].k = "obs"
      <3>1. /\ Len(World'.stream) = Len(stream) + 1 /\ World'.stream[Len(stream) + 1] = e
            /\ \A i \in 1 .. Len(stream) : World'.stream[i] = stream[i]
        BY <1>0, StreamType, Appended
      <3>2. Len(stream) >= 2
        <4>1. 2 = Len(stream) + 1 => FALSE
          BY <1>0, <2>2, <3>1 DEF Beside
        <4> QED BY <1>1, <2>2, <3>1, <4>1
      <3>3. IsChange(stream[2], "RUNNING")
        BY <1>1, <2>2, <3>1, <3>2
      <3>4. \/ ctl["parent"].state = "RUNNING" /\ ctl["parent"].pending # NoAction
            \/ /\ ctl["parent"].pending = NoAction
               /\ \E i \in 3 .. Len(stream) : stream[i].k = "obs"
        BY <2>2, <3>2, <3>3, WorldFields DEF WakeInv, Starting
      <3>5. \A i \in 3 .. Len(stream) : i \in 3 .. Len(World'.stream) /\ World'.stream[i] = stream[i]
        BY <1>1, <3>1
      <3> QED BY <3>4, <3>5
    <2> QED BY <2>1, <2>2
  <1> QED BY <1>2, <1>3, <1>4, <1>5

LEMMA NextWake ==
    ASSUME TypeInv, PaidInv, WakeInv, WithoutDelegation, [Next]_vars
    PROVE  WakeInv'
  <1> DEFINE p == ctl["parent"].pending
  <1>0. /\ handled \in 0 .. Len(stream) /\ ran \in 0 .. Len(stream) /\ recalled \in 0 .. Len(stream)
        /\ running \in 0 .. Len(stream) /\ Len(stream) \in Nat /\ errors \in Nat /\ Good(World)
        /\ handled \in Nat /\ ran \in Nat
    BY StreamType DEF TypeInv, TypeOK
  <1>00. p \in PendingType /\ PendingIn(stream, p)
    BY <1>0, Fields, WorldFields DEF Controllers
  <1>01. p.k \in {"run", "recall"} => p.id \in 1 .. Len(stream) /\ stream[p.id].k = p.k
    BY <1>00 DEF PendingIn, NoAction
  <1>02. /\ Awake(World, handled, ran, recalled, running)
         /\ ctl["parent"].state = "RUNNING" => OnWay(World, handled, ran, recalled, running)
    BY WorldFields DEF WakeInv, Awake
  <1>03. World'.ctl = ctl' /\ World'.stream = stream' /\ World'.errors = errors' /\ World'.stepping = stepping'
    BY NewWorldFields
  <1>04. /\ World.ctl = ctl /\ World.stream = stream /\ World.errors = errors /\ World.stepping = stepping
    BY WorldFields
  <1>1. ASSUME NEW c \in Controllers, OnEvent(c) PROVE WakeInv'
    BY <1>1, WakeOnEvent
  <1>2. ASSUME EndDelegate PROVE FALSE
    BY <1>2, WorldFields DEF EndDelegate, Target, WakeInv, Alone
  <1>3. ASSUME NEW o \in Outcomes, LlmReturns(o) PROVE WakeInv'
    BY <1>3, WakeLlm DEF WithoutDelegation
  <1>4. ASSUME ApplyStatusError PROVE WakeInv'
    <2> DEFINE l == Lowered
               r == World'
    <2>0. "parent" \in Controllers /\ "ERROR" \in AgentStates
      BY DEF Controllers, AgentStates
    <2>1. /\ Good(l) /\ l.stream = stream /\ l.ctl = ctl /\ l.delegated = delegated
          /\ l.stepping = stepping /\ r = SetState(l, "parent", "ERROR") /\ handled' = handled
          /\ Good(r) /\ Quiet(World, r) /\ Grew(World, r)
      BY <1>4, ApplyStatusErrorFacts DEF Quiet
    <2>2. Proper(l)
      BY <1>04, <2>1, ProperSame DEF WakeInv
    <2> HIDE DEF l
    <2>3. Proper(r)
      BY <2>0, <2>1, <2>2, SetStateProper
    <2>4. /\ Frame(l, "parent", r) /\ r.ctl["parent"].state = "ERROR"
          /\ \/ ctl["parent"].state = "ERROR" /\ r = l
             \/ ctl["parent"].state # "ERROR" /\ Entered(l, "parent", "ERROR", r)
      BY <2>0, <2>1, SetStateFacts
    <2> HIDE DEF r
    <2>5. Awake(r, handled', ran', recalled', running')
      BY <2>4 DEF Awake
    <2>6. r.ctl["parent"].pending = p \/ r.ctl["parent"].pending = NoAction
      BY <2>1, <2>4 DEF Entered, Dropped, DroppedSilently, Reissued, Plainly, Silenced, AnswerStates
    <2>7. Alone(r)
      BY <1>04, <2>1, <2>4, <2>6, WorldFields DEF Alone, WakeInv, Frame
    <2>8. Starting(r, handled')
      <3> SUFFICES ASSUME handled <= 1
                   PROVE  /\ r.ctl["parent"].answered = {}
                          /\ handled = 1 /\ Len(r.stream) >= 2 /\ IsChange(r.stream[2], "RUNNING") =>
                               /\ r.ctl["parent"].pending = NoAction
                               /\ \E i \in 3 .. Len(r.stream) : r.stream[i].k = "obs"
        BY <2>1 DEF Starting
      <3>1. ctl["parent"].answered = {} /\ r.ctl["parent"].answered = {}
        BY <1>04, <2>1, <2>4 DEF WakeInv, Starting, Frame
      <3>2. ASSUME handled = 1, Len(r.stream) >= 2, IsChange(r.stream[2], "RUNNING")
            PROVE  /\ r.ctl["parent"].pending = NoAction
                   /\ \E i \in 3 .. Len(r.stream) : r.stream[i].k = "obs"
        <4>1. /\ Len(r.stream) \in Nat /\ Len(stream) <= Len(r.stream)
              /\ \A i \in 1 .. Len(stream) : r.stream[i] = stream[i]
          BY <1>04, <2>1, Fields DEF Grew
        <4>2. Len(stream) >= 2
          <5> SUFFICES ASSUME Len(stream) < 2 PROVE FALSE
            BY <1>0
          <5>1. 2 \in Len(stream) + 1 .. Len(r.stream)
            BY <1>0, <3>2, <4>1
          <5>2. IsQuiet(r.stream[2])
            BY <1>04, <2>1, <5>1 DEF Quiet
          <5> QED BY <3>2, <5>2 DEF IsQuiet, IsChange
        <4>3. IsChange(stream[2], "RUNNING")
          BY <1>0, <3>2, <4>1, <4>2
        <4>4. \/ ctl["parent"].state = "RUNNING" /\ p # NoAction
              \/ p = NoAction /\ \E i \in 3 .. Len(stream) : stream[i].k = "obs"
          BY <1>04, <3>2, <4>2, <4>3 DEF WakeInv, Starting
        <4>5. CASE p = NoAction
          <5>1. r.ctl["parent"].pending = NoAction
            BY <2>6, <4>5
          <5>2. \A i \in 3 .. Len(stream) : i \in 3 .. Len(r.stream) /\ r.stream[i] = stream[i]
            BY <1>0, <4>1
          <5> QED BY <4>4, <4>5, <5>1, <5>2
        <4>6. CASE p # NoAction
          <5>1. Dropped(l, "parent", "ERROR", r)
            BY <2>1, <2>4, <3>1, <4>4, <4>6 DEF Entered, DroppedSilently, Reissued, Plainly, Silenced, AnswerStates
          <5>2. /\ r.ctl["parent"].pending = NoAction
                /\ r.stream = Append(Append(stream, NotExecuted(p)), StateEvent("ERROR"))
            BY <2>1, <5>1 DEF Dropped
          <5>3. NotExecuted(p) \in GoodEvent /\ NotExecuted(p).k = "obs"
            BY <1>00, NotExecutedGood
          <5>4. StateEvent("ERROR") \in GoodEvent
            BY <2>0, StateGood
          <5>5. r.stream[Len(stream) + 1] = NotExecuted(p) /\ Len(r.stream) = Len(stream) + 2
            BY <1>0, <1>04, <5>2, <5>3, <5>4, GrewTwo DEF GrewBy
          <5>6. Len(stream) + 1 \in 3 .. Len(r.stream)
            BY <1>0, <4>2, <5>5
          <5> QED BY <5>2, <5>3, <5>5, <5>6
        <4> QED BY <4>5, <4>6
      <3> QED BY <3>1, <3>2
    <2> QED BY <2>3, <2>5, <2>7, <2>8 DEF WakeInv, r
  <1>5. ASSUME RuntimeTakes PROVE WakeInv'
    <2>1. PICK i \in 1 .. Len(stream) :
             /\ i > ran /\ ForRuntime(stream[i]) /\ running = 0
             /\ \A j \in ran + 1 .. i - 1 : ~ForRuntime(stream[j])
             /\ ran' = i
             /\ \/ /\ Executes(stream[i]) /\ running' = i /\ executed' = executed \cup {i}
                   /\ stream' = stream
                \/ /\ Replies(stream[i]) /\ AddsEvent(ReplyTo(i))
                   /\ running' = running /\ executed' = executed
      BY <1>5, RuntimeTakesFacts
    <2>2. UNCHANGED <<handled, ctl, delegated, stepping, flags, errors, recalled>>
      BY <1>5 DEF RuntimeTakes, controllerVars
    <2>3. \A j \in ran + 1 .. Len(stream) : ForRuntime(stream[j]) => j >= i
      <3> SUFFICES ASSUME NEW j \in ran + 1 .. Len(stream), ForRuntime(stream[j]), j < i PROVE FALSE
        BY <1>0, <2>1
      <3>1. j \in ran + 1 .. i - 1
        BY <1>0, <2>1
      <3> QED BY <2>1, <3>1
    <2>4. CASE Executes(stream[i]) /\ running' = i /\ stream' = stream
      <3>1. World' = World
        BY <2>2, <2>4 DEF World
      <3>2. Awake(World', handled', ran', recalled', running')
        <4> SUFFICES ASSUME ctl["parent"].state = "RUNNING" PROVE OnWay(World, handled, i, recalled, i)
          BY <1>04, <2>1, <2>2, <2>4, <3>1 DEF Awake
        <4>1. OnWay(World, handled, ran, recalled, running)
          BY <1>02
        <4>2. p = NoAction => Idle(World, handled, i)
          <5>1. \A j \in ran + 1 .. Len(stream) : stream[j].k = "think" => j \in i + 1 .. Len(stream)
            <6> SUFFICES ASSUME NEW j \in ran + 1 .. Len(stream), stream[j].k = "think"
                         PROVE  j \in i + 1 .. Len(stream)
              OBVIOUS
            <6>1. j >= i
              BY <2>3 DEF ForRuntime, Replies
            <6>2. j # i
              BY <2>4 DEF Executes
            <6> QED BY <1>0, <2>1, <6>1, <6>2
          <5> QED BY <1>04, <4>1, <5>1 DEF OnWay, Idle
        <4>3. p.k = "run" => stream[p.id].x = "confirmed" /\
                 (p.id > i \/ i = p.id \/ AnswerDue(World, handled, p.id) \/ errors > 0)
          <5> SUFFICES ASSUME p.k = "run"
                       PROVE  stream[p.id].x = "confirmed" /\
                                 (p.id > i \/ i = p.id \/ AnswerDue(World, handled, p.id) \/ errors > 0)
            OBVIOUS
          <5>1. /\ stream[p.id].x = "confirmed" /\ p.id \in 1 .. Len(stream) /\ stream[p.id].k = "run"
                /\ p.id > ran \/ running = p.id \/ AnswerDue(World, handled, p.id) \/ errors > 0
            BY <1>01, <1>04, <4>1 DEF OnWay
          <5>2. p.id > ran => p.id >= i
            BY <1>0, <2>3, <5>1 DEF ForRuntime, Executes
          <5>3. running # p.id
            BY <2>1, <5>1
          <5> HIDE DEF p
          <5> QED BY <1>0, <2>1, <5>1, <5>2, <5>3
        <4> QED BY <1>04, <4>1, <4>2, <4>3 DEF OnWay
      <3> QED BY <2>2, <3>1, <3>2 DEF WakeInv
    <2>5. CASE Replies(stream[i]) /\ AddsEvent(ReplyTo(i)) /\ running' = running
      <3> DEFINE g == ReplyTo(i)
      <3>1. g.k = "obs" /\ g.x # "null"
        BY DEF ReplyTo, Event
      <3>2. \A n : ProperAt(n, g)
        BY <3>1 DEF ProperAt
      <3> HIDE DEF g
      <3>3. /\ Alone(World') /\ Proper(World') /\ Starting(World', handled')
            /\ Awake(World', handled, ran, recalled, running)
        BY <2>2, <2>5, <3>2, WakeBeside DEF g
      <3>4. /\ World'.stream = Append(stream, g) /\ g \in GoodEvent /\ Good(World')
        BY <1>03, <2>5 DEF AddsEvent, g
      <3>5. /\ Len(World'.stream) = Len(stream) + 1 /\ World'.stream[Len(stream) + 1] = g
            /\ \A j \in 1 .. Len(stream) : World'.stream[j] = stream[j]
        BY <3>4, StreamType, Appended
      <3>6. Awake(World', handled', ran', recalled', running')
        <4> SUFFICES ASSUME ctl["parent"].state = "RUNNING" PROVE OnWay(World', handled, i, recalled, running)
          BY <1>03, <2>1, <2>2, <2>5 DEF Awake
        <4>1. OnWay(World', handled, ran, recalled, running)
          BY <1>03, <2>2, <3>3 DEF Awake
        <4>2. Idle(World', handled, i)
          <5>1. Len(stream) + 1 \in handled + 1 .. Len(World'.stream)
            BY <1>0, <3>5
          <5> QED BY <3>1, <3>5, <5>1 DEF Idle, Waking
        <4>3. p.k = "run" /\ p.id > ran => p.id > i
          <5> SUFFICES ASSUME p.k = "run", p.id > ran PROVE p.id > i
            OBVIOUS
          <5>1. p.id \in 1 .. Len(stream) /\ stream[p.id].k = "run"
            BY <1>01
          <5>2. stream[p.id].x = "confirmed"
            BY <1>03, <2>2, <3>5, <4>1, <5>1 DEF OnWay
          <5>3. p.id >= i
            BY <1>0, <2>3, <5>1, <5>2 DEF ForRuntime, Executes
          <5>4. p.id # i
            BY <2>5, <5>1, <5>2 DEF Replies
          <5> HIDE DEF p
          <5> QED BY <1>0, <2>1, <5>1, <5>3, <5>4
        <4> QED BY <1>03, <2>2, <4>1, <4>2, <4>3 DEF OnWay
      <3> QED BY <3>3, <3>6 DEF WakeInv
    <2> QED BY <2>1, <2>4, <2>5
  <1>6. ASSUME RuntimeFinishes PROVE WakeInv'
    <2> DEFINE g == ResultOf(running)
    <2>1. AddsEvent(g) /\ running \in 1 .. Len(stream)
      BY <1>6, RuntimeFinishesFacts
    <2>2. UNCHANGED <<handled, ctl, delegated, stepping, flags, errors, recalled, ran>>
      BY <1>6 DEF RuntimeFinishes, controllerVars
    <2>3. g.k = "obs" /\ g.x # "null" /\ g.cause = running
      BY DEF ResultOf, Event
    <2> HIDE DEF g
    <2>4. \A n : ProperAt(n, g)
      BY <2>3 DEF ProperAt
    <2>5. /\ Alone(World') /\ Proper(World') /\ Starting(World', handled')
          /\ Awake(World', handled, ran, recalled, running)
      BY <2>1, <2>2, <2>4, WakeBeside
    <2>6. /\ Len(World'.stream) = Len(stream) + 1 /\ World'.stream[Len(stream) + 1] = g
      BY <1>03, <2>1, StreamType, Appended DEF AddsEvent
    <2>7. AnswerDue(World', handled, running)
      <3>1. Len(stream) + 1 \in handled + 1 .. Len(World'.stream)
        BY <1>0, <2>6
      <3> QED BY <2>3, <2>6, <3>1 DEF AnswerDue, AnswersTo
    <2>8. Awake(World', handled', ran', recalled', running')
      BY <2>2, <2>5, <2>7 DEF Awake, OnWay
    <2> QED BY <2>5, <2>8 DEF WakeInv
  <1>7. ASSUME RuntimeRaises PROVE WakeInv'
    <2>1. UNCHANGED <<stream, handled, ctl, delegated, stepping, flags, recalled, ran>> /\ errors' = errors + 1
      BY <1>7 DEF RuntimeRaises, controllerVars
    <2>2. World'.errors > 0
      BY <1>0, <1>03, <2>1
    <2>3. World'.stream = World.stream /\ World'.ctl = World.ctl /\ World'.delegated = World.delegated
          /\ World'.stepping = World.stepping
      BY <2>1, WorldFields, NewWorldFields
    <2>4. Alone(World') /\ Proper(World') /\ Starting(World', handled')
      BY <2>1, <2>3 DEF WakeInv, Alone, Proper, Starting
    <2>5. Awake(World', handled', ran', recalled', running')
      BY <1>02, <2>1, <2>2, <2>3 DEF Awake, OnWay, Idle
    <2> QED BY <2>4, <2>5 DEF WakeInv
  <1>8. ASSUME MemoryAnswers PROVE WakeInv'
    <2>1. PICK i \in 1 .. Len(stream) :
             /\ i > recalled /\ IsRecall(stream[i]) /\ recalled' = i
             /\ \A j \in recalled + 1 .. i - 1 : ~IsRecall(stream[j])
             /\ \E x \in {"recalled", "null"} : AddsEvent(RecalledAs(x, i))
      BY <1>8, MemoryAnswersFacts
    <2>2. UNCHANGED <<handled, ctl, delegated, stepping, flags, errors, ran, running>>
      BY <1>8, Zenon DEF MemoryAnswers, controllerVars, runtimeVars
    <2>3. PICK x \in {"recalled", "null"} : AddsEvent(RecalledAs(x, i))
      BY <2>1
    <2> DEFINE g == RecalledAs(x, i)
    <2>4. g.k = "obs" /\ g.cause = i
      BY DEF RecalledAs, Event
    <2>5. i > 1
      BY <1>04, <2>1 DEF WakeInv, Proper, ProperAt, IsRecall
    <2> HIDE DEF g
    <2>6. \A n : ProperAt(n, g)
      BY <2>4, <2>5 DEF ProperAt
    <2>7. /\ Alone(World') /\ Proper(World') /\ Starting(World', handled')
          /\ Awake(World', handled, ran, recalled, running)
      BY <2>2, <2>3, <2>6, WakeBeside DEF g
    <2>8. /\ Len(World'.stream) = Len(stream) + 1 /\ World'.stream[Len(stream) + 1] = g
      BY <1>03, <2>3, StreamType, Appended DEF AddsEvent, g
    <2>9. AnswerDue(World', handled, i)
      <3>1. Len(stream) + 1 \in handled + 1 .. Len(World'.stream)
        BY <1>0, <2>8
      <3> QED BY <2>4, <2>8, <3>1 DEF AnswerDue, AnswersTo
    <2>10. p.k = "recall" /\ p.id > recalled => p.id > i \/ p.id = i
      <3> SUFFICES ASSUME p.k = "recall", p.id > recalled, p.id < i PROVE FALSE
        BY <1>0, <1>01, <2>1
      <3>1. p.id \in recalled + 1 .. i - 1
        BY <1>0, <1>01, <2>1
      <3> QED BY <1>01, <2>1, <3>1 DEF IsRecall
    <2>11. Awake(World', handled', ran', recalled', running')
      BY <1>03, <2>1, <2>2, <2>7, <2>9, <2>10 DEF Awake, OnWay
    <2> QED BY <2>7, <2>11 DEF WakeInv
  <1>9. ASSUME MemoryRaises PROVE WakeInv'
    <2>1. UNCHANGED <<stream, handled, ctl, delegated, stepping, flags, ran, running>> /\ errors' = errors + 1
      BY <1>9, Zenon DEF MemoryRaises, controllerVars, runtimeVars
    <2>2. World'.errors > 0
      BY <1>0, <1>03, <2>1
    <2>3. World'.stream = World.stream /\ World'.ctl = World.ctl /\ World'.delegated = World.delegated
          /\ World'.stepping = World.stepping
      BY <2>1, WorldFields, NewWorldFields
    <2>4. Alone(World') /\ Proper(World') /\ Starting(World', handled')
      BY <2>1, <2>3 DEF WakeInv, Alone, Proper, Starting
    <2>5. Awake(World', handled', ran', recalled', running')
      BY <1>02, <2>1, <2>2, <2>3 DEF Awake, OnWay, Idle
    <2> QED BY <2>4, <2>5 DEF WakeInv
  <1>10. ASSUME NEW input \in UserInputs, UserSends(input) PROVE WakeInv'
    <2> DEFINE g == InputEvent(input)
    <2>1. AddsEvent(g) /\ g.k \in {"message", "change"}
      BY <1>10, UserSendsFacts DEF IsChange
    <2>2. UNCHANGED <<handled, ctl, delegated, stepping, flags, errors, ran, running, recalled>>
      BY <1>10 DEF UserSends, controllerVars, runtimeVars
    <2> HIDE DEF g
    <2>3. \A n : ProperAt(n, g)
      BY <2>1 DEF ProperAt
    <2>4. /\ Alone(World') /\ Proper(World') /\ Starting(World', handled')
          /\ Awake(World', handled, ran, recalled, running)
      BY <2>1, <2>2, <2>3, WakeBeside
    <2> QED BY <2>2, <2>4 DEF WakeInv
  <1>11. CASE UNCHANGED vars
    <2>1. World' = World /\ UNCHANGED <<handled, ran, recalled, running>>
      BY <1>11 DEF vars, controllerVars, runtimeVars, World
    <2> QED BY <2>1 DEF WakeInv
  <1> QED BY <1>1, <1>2, <1>3, <1>4, <1>5, <1>6, <1>7, <1>8, <1>9, <1>10, <1>11
          DEF Next, ControllerNext, LlmNext

LEMMA InitWake == ASSUME Init, TypeInv PROVE WakeInv
  <1>1. /\ World.stream = stream /\ World.ctl["parent"] = Fresh /\ World.delegated = FALSE
        /\ World.stepping = "none" /\ handled = 0
    BY WorldFields DEF Init, Controllers
  <1>2. \A i \in 1 .. Len(stream) : stream[i].k \in {"message", "change"}
    BY DEF Init, Event
  <1>3. Proper(World)
    BY <1>1, <1>2 DEF Proper, ProperAt
  <1> QED BY <1>1, <1>3 DEF WakeInv, Alone, Starting, Awake, Fresh

(* No lost wake-up, for every configuration without delegation: a parent   *)
(* that is RUNNING has an answer coming, an event to handle or an error    *)
(* that will stop it (should_step, _handle_observation, the runtime's and  *)
(* the memory's error paths).  With delegation it is false.                *)
THEOREM NoWakeupIsLost == WithoutDelegation => (Spec => []NoLostWakeup)
  <1> SUFFICES ASSUME WithoutDelegation PROVE Spec => []NoLostWakeup
    OBVIOUS
  <1>1. Init /\ TypeInv => WakeInv /\ PaidInv
    BY InitWake, InitPaid
  <1>2. TypeInv /\ PaidInv /\ WakeInv /\ [Next]_vars => WakeInv' /\ PaidInv'
    BY NextWake, NextPaid
  <1>3. TypeInv /\ WakeInv => NoLostWakeup
    <2> SUFFICES ASSUME TypeInv, WakeInv, ctl["parent"].state = "RUNNING", stepping = "none",
                        handled = Len(stream)
                 PROVE  AtWork("parent")
      BY DEF NoLostWakeup
    <2> DEFINE p == ctl["parent"].pending
    <2>1. OnWay(World, handled, ran, recalled, running)
      BY WorldFields DEF WakeInv, Awake
    <2>2. \A i : i \notin handled + 1 .. Len(stream)
      BY StreamType
    <2>3. p = NoAction \/ p.k \in {"run", "recall"}
      BY Fields, WorldFields DEF TypeInv, PendingIn, Controllers
    <2> QED BY <2>1, <2>2, <2>3, WorldFields DEF OnWay, Idle, AnswerDue, AtWork
  <1> QED BY <1>1, <1>2, <1>3, TypeInvariant, PTL DEF Spec

-----------------------------------------------------------------------------
(* Confirmation, without actions that lose their confirmation state.       *)

IsConfirm(e) == IsChange(e, "USER_CONFIRMED")

(* A state of the agent in which nothing is released. *)
Elsewhere(e) == e.k = "state" /\ e.x # "USER_CONFIRMED"

(* An action is released that was in the log before: it has been waiting   *)
(* for the user, or was executed.                                          *)
Repeats(s, i) ==
    /\ Executes(s[i])
    /\ \E j \in 1 .. i - 1 : s[j].k = "run" /\ s[j].act = s[i].act

Repeated(s)  == {i \in 1 .. Len(s) : Repeats(s, i)}
Confirmed(s) == {i \in 1 .. Len(s) : IsConfirm(s[i])}

UpTo(S, n)  == {i \in 1 .. n : i \in S}
Count(S, n) == Cardinality(UpTo(S, n))

(* No action has a number above T. *)
Below(s, T) == \A i \in 1 .. Len(s) : s[i].k = "run" => s[i].act <= T

(* Every release of an action that was in the log before has a             *)
(* confirmation of its own, handled before it.                             *)
PaidUp(s, h) ==
    /\ \A n \in Repeated(s) : Count(Repeated(s), n) <= Count(Confirmed(s), n - 1)
    /\ Count(Repeated(s), Len(s)) <= Count(Confirmed(s), h)

(* The actions A that the user is asked about, in the agent state st. *)
AskedFirst(s, A) == \A i \in 1 .. Len(s) : Executes(s[i]) /\ s[i].act \in A => Repeats(s, i)
LeftSince(s, A, st) ==
    \A i \in 1 .. Len(s) : Executes(s[i]) /\ s[i].act \in A =>
        st = "USER_CONFIRMED" \/ \E k \in i + 1 .. Len(s) : Elsewhere(s[k])
LeftBetween(s, A) ==
    \A i, j \in 1 .. Len(s) :
        i < j /\ Executes(s[i]) /\ Executes(s[j]) /\ s[i].act = s[j].act /\ s[i].act \in A =>
            \E k \in i + 1 .. j - 1 : Elsewhere(s[k])

Book(s, A, st, T, h) ==
    /\ Below(s, T) /\ (\A a \in A : a <= T)
    /\ PaidUp(s, h)
    /\ AskedFirst(s, A) /\ LeftSince(s, A, st) /\ LeftBetween(s, A)

(* What is pending declares confirmation_state, and the user was not asked *)
(* about what a delegate waits for.                                        *)
Ready(w) ==
    /\ \A c \in Controllers : w.ctl[c].pending.k = "run" => w.ctl[c].pending.gated = TRUE
    /\ w.ctl["delegate"].pending.k = "run" =>
          w.ctl["delegate"].pending.act \notin w.ctl["parent"].asked

Asks(w, T, h) ==
    /\ Book(w.stream, w.ctl["parent"].asked, w.ctl["parent"].state, T, h)
    /\ Ready(w)

(* The runtime executes what was released to it, and nothing else. *)
Released == \A i \in executed : Executes(stream[i])

AskInv == Asks(World, Top(World), handled) /\ Released

LEMMA AskInvNext == AskInv' <=> Asks(World', Top(World'), handled') /\ Released'
  BY DEF AskInv, Asks, Ready, Book, Below, PaidUp, AskedFirst, LeftSince, LeftBetween, Count, UpTo,
         Repeated, Confirmed, Repeats, Executes, IsConfirm, IsChange, Elsewhere, Top

LEMMA CountFacts ==
    ASSUME NEW S, NEW n \in Nat
    PROVE  /\ IsFiniteSet(UpTo(S, n)) /\ Count(S, n) \in Nat
           /\ \A m \in Nat : m <= n => Count(S, m) <= Count(S, n)
           /\ n + 1 \in S => Count(S, n + 1) = Count(S, n) + 1
           /\ n + 1 \notin S => Count(S, n + 1) = Count(S, n)
  <1>1. ASSUME NEW k \in Nat PROVE IsFiniteSet(UpTo(S, k)) /\ Count(S, k) \in Nat
    <2>1. IsFiniteSet(1 .. k) /\ UpTo(S, k) \in SUBSET (1 .. k)
      BY FS_Interval DEF UpTo
    <2>2. IsFiniteSet(UpTo(S, k))
      BY <2>1, FS_Subset
    <2> QED BY <2>2, FS_CardinalityType DEF Count
  <1>2. ASSUME NEW m \in Nat, m <= n PROVE Count(S, m) <= Count(S, n)
    <2>1. UpTo(S, m) \in SUBSET UpTo(S, n)
      BY <1>2 DEF UpTo
    <2> QED BY <1>1, <2>1, FS_Subset DEF Count
  <1>3. ASSUME n + 1 \in S PROVE Count(S, n + 1) = Count(S, n) + 1
    <2>1. UpTo(S, n + 1) = UpTo(S, n) \cup {n + 1} /\ n + 1 \notin UpTo(S, n)
      BY <1>3 DEF UpTo
    <2> QED BY <1>1, <2>1, FS_AddElement DEF Count
  <1>4. ASSUME n + 1 \notin S PROVE Count(S, n + 1) = Count(S, n)
    <2>1. UpTo(S, n + 1) = UpTo(S, n)
      BY <1>4 DEF UpTo
    <2> QED BY <2>1 DEF Count
  <1> QED BY <1>1, <1>2, <1>3, <1>4

(* t is s with more events behind it. *)
Extends(s, t) ==
    /\ s \in Seq(GoodEvent) /\ t \in Seq(GoodEvent)
    /\ Len(s) <= Len(t) /\ \A i \in 1 .. Len(s) : t[i] = s[i]

LEMMA ExtendsFacts ==
    ASSUME NEW s, NEW t, Extends(s, t)
    PROVE  /\ Len(s) \in Nat /\ Len(t) \in Nat
           /\ \A i \in 1 .. Len(s) : i \in 1 .. Len(t) /\ t[i] = s[i]
           /\ \A i \in 1 .. Len(s) : t[i].act \in Nat
           /\ \A i \in 1 .. Len(s) : Repeats(t, i) <=> Repeats(s, i)
           /\ \A n \in 0 .. Len(s) : /\ Count(Repeated(t), n) = Count(Repeated(s), n)
                                     /\ Count(Confirmed(t), n) = Count(Confirmed(s), n)
  <1>1. /\ Len(s) \in Nat /\ Len(t) \in Nat
        /\ \A i \in 1 .. Len(s) : i \in 1 .. Len(t) /\ t[i] = s[i]
    BY DEF Extends
  <1>2. \A i \in 1 .. Len(s) : t[i].act \in Nat
    <2>1. \A i \in 1 .. Len(s) : t[i] \in GoodEvent
      BY <1>1 DEF Extends
    <2> QED BY <2>1, GoodFields
  <1>3. ASSUME NEW i \in 1 .. Len(s) PROVE Repeats(t, i) <=> Repeats(s, i)
    <2>1. \A j \in 1 .. i - 1 : t[j] = s[j]
      BY <1>1
    <2> QED BY <1>1, <2>1 DEF Repeats
  <1>4. ASSUME NEW n \in 0 .. Len(s)
        PROVE  UpTo(Repeated(t), n) = UpTo(Repeated(s), n) /\ UpTo(Confirmed(t), n) = UpTo(Confirmed(s), n)
    <2>1. \A i \in 1 .. n : i \in 1 .. Len(s) /\ i \in 1 .. Len(t)
      BY <1>1
    <2>2. \A i \in 1 .. n : i \in Repeated(t) <=> i \in Repeated(s)
      BY <1>3, <2>1 DEF Repeated
    <2>3. \A i \in 1 .. n : i \in Confirmed(t) <=> i \in Confirmed(s)
      BY <1>1, <2>1 DEF Confirmed
    <2> QED BY <2>2, <2>3 DEF UpTo
  <1> QED BY <1>1, <1>2, <1>3, <1>4 DEF Count

(* The log grows by what is not executed. *)
Harmless(s, t, T) ==
    /\ Extends(s, t)
    /\ \A i \in Len(s) + 1 .. Len(t) : ~Executes(t[i]) /\ (t[i].k = "run" => t[i].act <= T)

(* A state may only become USER_CONFIRMED, or be left by an event that     *)
(* says so.                                                                *)
Leaves(s, t, st, new) ==
    \/ new = "USER_CONFIRMED"
    \/ st # "USER_CONFIRMED"
    \/ \E k \in Len(s) + 1 .. Len(t) : Elsewhere(t[k])

LEMMA BookGrows ==
    ASSUME NEW s, NEW t, NEW A \in SUBSET Nat, NEW B \in SUBSET Nat, NEW st, NEW new,
           NEW T \in Int, NEW U \in Int, NEW h \in Nat, NEW g \in Nat,
           Book(s, A, st, T, h), Harmless(s, t, U), T <= U, h <= g, h <= Len(s),
           \A b \in B : b <= U /\ (b \in A \/ b > T),
           Leaves(s, t, st, new)
    PROVE  Book(t, B, new, U, g)
  <1>1. /\ Len(s) \in Nat /\ Len(t) \in Nat /\ Len(s) <= Len(t)
        /\ \A i \in 1 .. Len(s) : i \in 1 .. Len(t) /\ t[i] = s[i]
        /\ \A i \in 1 .. Len(s) : t[i].act \in Nat
        /\ \A i \in 1 .. Len(s) : Repeats(t, i) <=> Repeats(s, i)
        /\ \A n \in 0 .. Len(s) : /\ Count(Repeated(t), n) = Count(Repeated(s), n)
                                  /\ Count(Confirmed(t), n) = Count(Confirmed(s), n)
    BY ExtendsFacts DEF Harmless, Extends
  <1>2. \A i \in 1 .. Len(t) : i \in 1 .. Len(s) \/ i \in Len(s) + 1 .. Len(t)
    BY <1>1
  <1>3. \A i \in 1 .. Len(t) : Executes(t[i]) => i \in 1 .. Len(s) /\ Executes(s[i]) /\ t[i] = s[i]
    BY <1>1, <1>2 DEF Harmless
  <1>4. Below(t, U)
    <2> SUFFICES ASSUME NEW i \in 1 .. Len(t), t[i].k = "run" PROVE t[i].act <= U
      BY DEF Below
    <2>1. CASE i \in 1 .. Len(s)
      <3>1. t[i].act <= T /\ t[i].act \in Nat
        BY <1>1, <2>1 DEF Book, Below
      <3> QED BY <3>1
    <2>2. CASE i \in Len(s) + 1 .. Len(t)
      BY <2>2 DEF Harmless
    <2> QED BY <1>2, <2>1, <2>2
  <1>5. \A n \in Nat : n \in Repeated(t) => n \in Repeated(s)
    BY <1>1, <1>3 DEF Repeated, Repeats
  <1>6. Count(Repeated(t), Len(t)) = Count(Repeated(s), Len(s))
    <2>1. UpTo(Repeated(t), Len(t)) = UpTo(Repeated(t), Len(s))
      <3>1. \A n \in 1 .. Len(t) : n \in Repeated(t) => n \in 1 .. Len(s)
        BY <1>3 DEF Repeated, Repeats
      <3> QED BY <1>1, <3>1 DEF UpTo
    <2>2. Len(s) \in 0 .. Len(s)
      BY <1>1
    <2> QED BY <1>1, <2>1, <2>2 DEF Count
  <1>7. PaidUp(t, g)
    <2>1. ASSUME NEW n \in Repeated(t) PROVE Count(Repeated(t), n) <= Count(Confirmed(t), n - 1)
      <3>1. n \in Repeated(s) /\ n \in 1 .. Len(s)
        BY <1>5 DEF Repeated
      <3>2. n \in 0 .. Len(s) /\ n - 1 \in 0 .. Len(s)
        BY <1>1, <3>1
      <3> QED BY <1>1, <3>1, <3>2 DEF Book, PaidUp
    <2>2. Count(Confirmed(t), h) <= Count(Confirmed(t), g) /\ Count(Confirmed(t), h) \in Nat
          /\ Count(Confirmed(t), g) \in Nat
      BY CountFacts
    <2>3. Count(Repeated(s), Len(s)) <= Count(Confirmed(t), h) /\ Count(Repeated(s), Len(s)) \in Nat
      <3>1. h \in 0 .. Len(s)
        BY <1>1
      <3> QED BY <1>1, <3>1, CountFacts DEF Book, PaidUp
    <2> QED BY <1>6, <2>1, <2>2, <2>3 DEF PaidUp
  <1>8. \A i \in 1 .. Len(t) : Executes(t[i]) /\ t[i].act \in B => t[i].act \in A
    <2> SUFFICES ASSUME NEW i \in 1 .. Len(t), Executes(t[i]), t[i].act \in B PROVE t[i].act \in A
      OBVIOUS
    <2>1. i \in 1 .. Len(s) /\ t[i] = s[i] /\ s[i].k = "run"
      BY <1>3 DEF Executes
    <2>2. t[i].act <= T /\ t[i].act \in Nat
      BY <1>1, <2>1 DEF Book, Below
    <2> QED BY <2>2
  <1>9. AskedFirst(t, B)
    BY <1>1, <1>3, <1>8 DEF Book, AskedFirst
  <1>10. LeftSince(t, B, new)
    <2> SUFFICES ASSUME NEW i \in 1 .. Len(t), Executes(t[i]), t[i].act \in B, new # "USER_CONFIRMED"
                 PROVE  \E k \in i + 1 .. Len(t) : Elsewhere(t[k])
      BY DEF LeftSince
    <2>1. i \in 1 .. Len(s) /\ Executes(s[i]) /\ s[i].act \in A
      BY <1>3, <1>8
    <2>2. CASE \E k \in Len(s) + 1 .. Len(t) : Elsewhere(t[k])
      BY <1>1, <2>1, <2>2
    <2>3. CASE st # "USER_CONFIRMED"
      <3>1. PICK k \in i + 1 .. Len(s) : Elsewhere(s[k])
        BY <2>1, <2>3 DEF Book, LeftSince
      <3>2. k \in 1 .. Len(s) /\ k \in i + 1 .. Len(t)
        BY <1>1, <2>1, <3>1
      <3> QED BY <1>1, <3>1, <3>2
    <2> QED BY <2>2, <2>3 DEF Leaves
  <1>11. LeftBetween(t, B)
    <2> SUFFICES ASSUME NEW i \in 1 .. Len(t), NEW j \in 1 .. Len(t), i < j, Executes(t[i]),
                        Executes(t[j]), t[i].act = t[j].act, t[i].act \in B
                 PROVE  \E k \in i + 1 .. j - 1 : Elsewhere(t[k])
      BY DEF LeftBetween
    <2>1. /\ i \in 1 .. Len(s) /\ Executes(s[i]) /\ s[i].act \in A
          /\ j \in 1 .. Len(s) /\ Executes(s[j]) /\ s[i].act = s[j].act
      BY <1>3, <1>8
    <2>2. PICK k \in i + 1 .. j - 1 : Elsewhere(s[k])
      BY <2>1 DEF Book, LeftBetween
    <2>3. k \in 1 .. Len(s)
      BY <1>1, <2>1, <2>2
    <2> QED BY <1>1, <2>2, <2>3
  <1> QED BY <1>4, <1>7, <1>9, <1>10, <1>11 DEF Book

(* One event is added that is executed: it has not been in the log before, *)
(* or the user has just confirmed.                                         *)
LEMMA OneMore ==
    ASSUME NEW s \in Seq(GoodEvent), NEW e \in GoodEvent
    PROVE  LET t == Append(s, e) IN
           /\ Extends(s, t) /\ Len(t) = Len(s) + 1 /\ Len(s) \in Nat /\ t[Len(s) + 1] = e
           /\ \A i \in 1 .. Len(t) : i \in 1 .. Len(s) \/ i = Len(s) + 1
           /\ Count(Repeated(t), Len(t)) = IF Repeats(t, Len(t)) THEN Count(Repeated(s), Len(s)) + 1
                                                                  ELSE Count(Repeated(s), Len(s))
  <1> DEFINE t == Append(s, e)
             n == Len(s)
  <1>1. /\ t \in Seq(GoodEvent) /\ Len(t) = n + 1 /\ n \in Nat /\ t[n + 1] = e
        /\ \A i \in 1 .. n : t[i] = s[i]
    BY Appended
  <1>2. Extends(s, t)
    BY <1>1 DEF Extends
  <1>3. n \in 0 .. n /\ n + 1 \in 1 .. Len(t)
    BY <1>1
  <1> HIDE DEF t, n
  <1>4. Count(Repeated(t), n) = Count(Repeated(s), n)
    BY <1>2, <1>3, ExtendsFacts DEF n
  <1>5. n + 1 \in Repeated(t) <=> Repeats(t, n + 1)
    BY <1>3 DEF Repeated
  <1>6. Count(Repeated(t), n + 1) = IF Repeats(t, n + 1) THEN Count(Repeated(s), n) + 1
                                                          ELSE Count(Repeated(s), n)
    BY <1>1, <1>4, <1>5, CountFacts
  <1>7. \A i \in 1 .. Len(t) : i \in 1 .. n \/ i = n + 1
    BY <1>1
  <1> QED BY <1>1, <1>2, <1>6, <1>7 DEF t, n

LEMMA BookRuns ==
    ASSUME NEW s \in Seq(GoodEvent), NEW e \in GoodEvent, NEW A \in SUBSET Nat, NEW st,
           NEW T \in Int, NEW U \in Int, NEW h \in Nat, h <= Len(s),
           Book(s, A, st, T, h), e.k = "run", T < e.act, e.act <= U
    PROVE  Book(Append(s, e), A, st, U, h)
  <1> DEFINE t == Append(s, e)
             n == Len(s)
  <1>1. /\ Extends(s, t) /\ Len(t) = n + 1 /\ n \in Nat /\ t[n + 1] = e
        /\ \A i \in 1 .. Len(t) : i \in 1 .. n \/ i = n + 1
        /\ Count(Repeated(t), Len(t)) = IF Repeats(t, Len(t)) THEN Count(Repeated(s), Len(s)) + 1
                                                               ELSE Count(Repeated(s), Len(s))
    BY OneMore
  <1> HIDE DEF t
  <1>2. /\ \A i \in 1 .. n : i \in 1 .. Len(t) /\ t[i] = s[i] /\ t[i].act \in Nat
        /\ \A i \in 1 .. n : Repeats(t, i) <=> Repeats(s, i)
        /\ \A k \in 0 .. n : /\ Count(Repeated(t), k) = Count(Repeated(s), k)
                             /\ Count(Confirmed(t), k) = Count(Confirmed(s), k)
    BY <1>1, ExtendsFacts
  <1>3. e.act \in Nat
    BY GoodFields
  <1>4. \A i \in 1 .. n : s[i].k = "run" => s[i].act <= T /\ s[i].act \in Nat
    BY <1>2 DEF Book, Below
  <1>5. e.act \notin A /\ \A a \in A : a <= U
    BY <1>3 DEF Book
  <1>6. \A i \in 1 .. n : t[i].k = "run" => t[i].act # e.act /\ t[i].act <= U
    BY <1>2, <1>3, <1>4
  <1>7. ~Repeats(t, n + 1)
    <2>1. \A j \in 1 .. n + 1 - 1 : j \in 1 .. n
      BY <1>1
    <2> QED BY <1>1, <1>6, <2>1 DEF Repeats
  <1>8. Below(t, U)
    BY <1>1, <1>6 DEF Below
  <1>9. PaidUp(t, h)
    <2>1. ASSUME NEW k \in Repeated(t) PROVE Count(Repeated(t), k) <= Count(Confirmed(t), k - 1)
      <3>1. k \in 1 .. n /\ Repeats(s, k)
        BY <1>1, <1>2, <1>7 DEF Repeated
      <3>2. k \in 0 .. n /\ k - 1 \in 0 .. n /\ k \in Repeated(s)
        BY <1>1, <3>1 DEF Repeated
      <3> QED BY <1>2, <3>2 DEF Book, PaidUp
    <2>2. h \in 0 .. n
      BY <1>1
    <2> QED BY <1>1, <1>2, <1>7, <2>1, <2>2 DEF Book, PaidUp
  <1>10. \A i \in 1 .. Len(t) : t[i].act \in A => i \in 1 .. n
    BY <1>1, <1>5
  <1>11. AskedFirst(t, A)
    BY <1>2, <1>10 DEF Book, AskedFirst
  <1>12. LeftSince(t, A, st)
    <2> SUFFICES ASSUME NEW i \in 1 .. Len(t), Executes(t[i]), t[i].act \in A, st # "USER_CONFIRMED"
                 PROVE  \E k \in i + 1 .. Len(t) : Elsewhere(t[k])
      BY DEF LeftSince
    <2>1. i \in 1 .. n /\ Executes(s[i]) /\ s[i].act \in A
      BY <1>2, <1>10
    <2>2. PICK k \in i + 1 .. n : Elsewhere(s[k])
      BY <2>1 DEF Book, LeftSince
    <2>3. k \in 1 .. n /\ k \in i + 1 .. Len(t)
      BY <1>1, <2>1, <2>2
    <2> QED BY <1>2, <2>2, <2>3
  <1>13. LeftBetween(t, A)
    <2> SUFFICES ASSUME NEW i \in 1 .. Len(t), NEW j \in 1 .. Len(t), i < j, Executes(t[i]),
                        Executes(t[j]), t[i].act = t[j].act, t[i].act \in A
                 PROVE  \E k \in i + 1 .. j - 1 : Elsewhere(t[k])
      BY DEF LeftBetween
    <2>1. i \in 1 .. n /\ j \in 1 .. n /\ t[i] = s[i] /\ t[j] = s[j]
      BY <1>2, <1>10
    <2>2. PICK k \in i + 1 .. j - 1 : Elsewhere(s[k])
      BY <2>1 DEF Book, LeftBetween
    <2>3. k \in 1 .. n
      BY <1>1, <2>1, <2>2
    <2> QED BY <1>2, <2>2, <2>3
  <1> QED BY <1>5, <1>8, <1>9, <1>11, <1>12, <1>13 DEF Book, t

(* The confirmation handled last releases an action that was in the log. *)
LEMMA BookReleases ==
    ASSUME NEW s \in Seq(GoodEvent), NEW e \in GoodEvent, NEW A \in SUBSET Nat, NEW st, NEW new,
           NEW T \in Int, NEW h \in Nat, h + 1 \in 1 .. Len(s), IsConfirm(s[h + 1]),
           Book(s, A, st, T, h), Executes(e),
           \E j \in 1 .. Len(s) : s[j].k = "run" /\ s[j].act = e.act,
           \/ st # "USER_CONFIRMED" /\ new = "USER_CONFIRMED"
           \/ e.act \notin A /\ new = st
    PROVE  Book(Append(s, e), A, new, T, h + 1)
  <1> DEFINE t == Append(s, e)
             n == Len(s)
  <1>1. /\ Extends(s, t) /\ Len(t) = n + 1 /\ n \in Nat /\ t[n + 1] = e
        /\ \A i \in 1 .. Len(t) : i \in 1 .. n \/ i = n + 1
        /\ Count(Repeated(t), Len(t)) = IF Repeats(t, Len(t)) THEN Count(Repeated(s), Len(s)) + 1
                                                               ELSE Count(Repeated(s), Len(s))
    BY OneMore
  <1> HIDE DEF t
  <1>2. /\ \A i \in 1 .. n : i \in 1 .. Len(t) /\ t[i] = s[i] /\ t[i].act \in Nat
        /\ \A i \in 1 .. n : Repeats(t, i) <=> Repeats(s, i)
        /\ \A k \in 0 .. n : /\ Count(Repeated(t), k) = Count(Repeated(s), k)
                             /\ Count(Confirmed(t), k) = Count(Confirmed(s), k)
    BY <1>1, ExtendsFacts
  <1>3. PICK j \in 1 .. n : s[j].k = "run" /\ s[j].act = e.act
    OBVIOUS
  <1>4. Repeats(t, n + 1)
    <2>1. j \in 1 .. n + 1 - 1
      BY <1>1, <1>3
    <2> QED BY <1>1, <1>2, <1>3, <2>1 DEF Repeats
  <1>5. Below(t, T)
    <2>1. e.act <= T
      BY <1>2, <1>3 DEF Book, Below
    <2> QED BY <1>1, <1>2, <2>1 DEF Book, Below
  <1>6. /\ Count(Repeated(t), n + 1) <= Count(Confirmed(t), h + 1)
        /\ Count(Confirmed(t), h + 1) <= Count(Confirmed(t), n)
        /\ Count(Repeated(t), n + 1) \in Nat /\ Count(Confirmed(t), h + 1) \in Nat
        /\ Count(Confirmed(t), n) \in Nat
    <2>1. h \in 0 .. n /\ h + 1 \in 0 .. n /\ h + 1 <= n /\ h + 1 \in Nat /\ n + 1 \in Nat
      BY <1>1
    <2>2. h + 1 \in Confirmed(s)
      BY DEF Confirmed
    <2>3. Count(Confirmed(s), h + 1) = Count(Confirmed(s), h) + 1 /\ Count(Confirmed(s), h) \in Nat
      BY <2>2, CountFacts
    <2>4. Count(Repeated(s), n) <= Count(Confirmed(s), h) /\ Count(Repeated(s), n) \in Nat
      BY <1>1, CountFacts DEF Book, PaidUp
    <2>5. Count(Confirmed(t), h + 1) = Count(Confirmed(s), h + 1)
      BY <1>2, <2>1
    <2>6. Count(Confirmed(t), h + 1) <= Count(Confirmed(t), n) /\ Count(Confirmed(t), n) \in Nat
      BY <1>1, <2>1, CountFacts
    <2> QED BY <1>1, <1>4, <2>3, <2>4, <2>5, <2>6
  <1>7. PaidUp(t, h + 1)
    <2>1. ASSUME NEW k \in Repeated(t) PROVE Count(Repeated(t), k) <= Count(Confirmed(t), k - 1)
      <3>1. CASE k = n + 1
        <4>1. k - 1 = n
          BY <1>1, <3>1
        <4> QED BY <1>6, <3>1, <4>1
      <3>2. CASE k # n + 1
        <4>1. k \in 1 .. n /\ Repeats(s, k)
          BY <1>1, <1>2, <3>2 DEF Repeated
        <4>2. k \in 0 .. n /\ k - 1 \in 0 .. n /\ k \in Repeated(s)
          BY <1>1, <4>1 DEF Repeated
        <4> QED BY <1>2, <4>2 DEF Book, PaidUp
      <3> QED BY <3>1, <3>2
    <2> QED BY <1>1, <1>6, <2>1 DEF PaidUp
  <1>8. AskedFirst(t, A)
    BY <1>1, <1>2, <1>4 DEF Book, AskedFirst
  <1>9. LeftSince(t, A, new)
    <2> SUFFICES ASSUME NEW i \in 1 .. Len(t), Executes(t[i]), t[i].act \in A, new # "USER_CONFIRMED"
                 PROVE  \E k \in i + 1 .. Len(t) : Elsewhere(t[k])
      BY DEF LeftSince
    <2>0. e.act \notin A /\ st # "USER_CONFIRMED"
      OBVIOUS
    <2>1. i \in 1 .. n /\ Executes(s[i]) /\ s[i].act \in A
      BY <1>1, <1>2, <2>0
    <2>2. PICK k \in i + 1 .. n : Elsewhere(s[k])
      BY <2>0, <2>1 DEF Book, LeftSince
    <2>3. k \in 1 .. n /\ k \in i + 1 .. Len(t)
      BY <1>1, <2>1, <2>2
    <2> QED BY <1>2, <2>2, <2>3
  <1>10. LeftBetween(t, A)
    <2> SUFFICES ASSUME NEW i \in 1 .. Len(t), NEW k \in 1 .. Len(t), i < k, Executes(t[i]),
                        Executes(t[k]), t[i].act = t[k].act, t[i].act \in A
                 PROVE  \E l \in i + 1 .. k - 1 : Elsewhere(t[l])
      BY DEF LeftBetween
    <2>1. i \in 1 .. n /\ t[i] = s[i]
      BY <1>1, <1>2
    <2>2. CASE k \in 1 .. n
      <3>1. t[k] = s[k]
        BY <1>2, <2>2
      <3>2. PICK l \in i + 1 .. k - 1 : Elsewhere(s[l])
        BY <2>1, <2>2, <3>1 DEF Book, LeftBetween
      <3>3. l \in 1 .. n
        BY <1>1, <2>1, <2>2, <3>2
      <3> QED BY <1>2, <3>2, <3>3
    <2>3. CASE k = n + 1
      <3>1. st # "USER_CONFIRMED"
        BY <1>1, <2>3
      <3>2. PICK l \in i + 1 .. n : Elsewhere(s[l])
        BY <2>1, <3>1 DEF Book, LeftSince
      <3>3. l \in 1 .. n /\ l \in i + 1 .. k - 1
        BY <1>1, <2>1, <2>3, <3>2
      <3> QED BY <1>2, <3>2, <3>3
    <2> QED BY <1>1, <2>2, <2>3
  <1> QED BY <1>5, <1>7, <1>8, <1>9, <1>10 DEF Book, t

Elsewheres(s, t) == \E k \in Len(s) + 1 .. Len(t) : Elsewhere(t[k])

LEMMA HarmlessSame == ASSUME NEW s \in Seq(GoodEvent), NEW T PROVE Harmless(s, s, T)
  BY DEF Harmless, Extends

LEMMA HarmlessOne ==
    ASSUME NEW s \in Seq(GoodEvent), NEW e \in GoodEvent, NEW T,
           ~Executes(e), e.k = "run" => e.act <= T
    PROVE  Harmless(s, Append(s, e), T) /\ (Elsewhere(e) => Elsewheres(s, Append(s, e)))
  <1> DEFINE t == Append(s, e)
             n == Len(s)
  <1>1. Extends(s, t) /\ Len(t) = n + 1 /\ n \in Nat /\ t[n + 1] = e
    BY OneMore
  <1> HIDE DEF t, n
  <1>2. \A i \in n + 1 .. Len(t) : i = n + 1
    BY <1>1
  <1>3. n + 1 \in n + 1 .. Len(t)
    BY <1>1
  <1> QED BY <1>1, <1>2, <1>3 DEF Harmless, Elsewheres, t, n

LEMMA HarmlessTwo ==
    ASSUME NEW s \in Seq(GoodEvent), NEW e \in GoodEvent, NEW f \in GoodEvent, NEW T,
           ~Executes(e), e.k = "run" => e.act <= T, f.k = "state"
    PROVE  LET t == Append(Append(s, e), f) IN
           Harmless(s, t, T) /\ (Elsewhere(f) => Elsewheres(s, t))
  <1> DEFINE q == Append(s, e)
             t == Append(q, f)
             n == Len(s)
  <1>1. q \in Seq(GoodEvent) /\ Extends(s, q) /\ Len(q) = n + 1 /\ n \in Nat /\ q[n + 1] = e
    BY OneMore DEF Extends
  <1> HIDE DEF q, n
  <1>2. Extends(q, t) /\ Len(t) = Len(q) + 1 /\ t[Len(q) + 1] = f
    BY <1>1, OneMore
  <1> HIDE DEF t
  <1>3. Extends(s, t)
    BY <1>1, <1>2 DEF Extends, n
  <1>4. t[n + 1] = e /\ t[n + 2] = f /\ Len(t) = n + 2
    BY <1>1, <1>2 DEF Extends
  <1>5. \A i \in n + 1 .. Len(t) : i = n + 1 \/ i = n + 2
    BY <1>1, <1>4
  <1>6. n + 2 \in n + 1 .. Len(t)
    BY <1>1, <1>4
  <1> QED BY <1>3, <1>4, <1>5, <1>6 DEF Harmless, Elsewheres, Executes, t, q, n

LEMMA AsksFields ==
    ASSUME NEW w, Good(w)
    PROVE  /\ w.stream \in Seq(GoodEvent) /\ Len(w.stream) \in Nat
           /\ w.ctl["parent"].asked \in SUBSET Nat
           /\ "parent" \in Controllers /\ "delegate" \in Controllers
           /\ \A c \in Controllers : c = "parent" \/ c = "delegate"
  BY Fields DEF Controllers, CtlType

LEMMA AsksGrows ==
    ASSUME NEW w, NEW r, Good(w), Good(r), NEW T \in Int, NEW U \in Int, T <= U,
           NEW h \in Nat, NEW g \in Nat, h <= g, h <= Len(w.stream), Asks(w, T, h),
           Harmless(w.stream, r.stream, U), r.ctl["parent"].asked = w.ctl["parent"].asked,
           r.ctl["parent"].state = w.ctl["parent"].state \/ Elsewheres(w.stream, r.stream)
             \/ r.ctl["parent"].state = "USER_CONFIRMED",
           Ready(r)
    PROVE  Asks(r, U, g)
  <1> DEFINE A == w.ctl["parent"].asked
             st == w.ctl["parent"].state
             new == r.ctl["parent"].state
  <1>1. A \in SUBSET Nat /\ Book(w.stream, A, st, T, h)
    BY AsksFields DEF Asks
  <1>2. \A b \in A : b <= U /\ (b \in A \/ b > T)
    BY <1>1 DEF Book
  <1>3. Leaves(w.stream, r.stream, st, new)
    BY DEF Leaves, Elsewheres
  <1> HIDE DEF A, st, new
  <1>4. Book(r.stream, A, new, U, g)
    BY <1>1, <1>2, <1>3, BookGrows
  <1> QED BY <1>4 DEF Asks, A, new

(* A command that is pending stays what it was. *)
SameRun(p, q) == q.k = "run" => p.k = "run" /\ q.act = p.act /\ q.gated = p.gated

LEMMA ReadyKept ==
    ASSUME NEW w, NEW r, Ready(w), r.ctl["parent"].asked = w.ctl["parent"].asked,
           \A d \in Controllers : SameRun(w.ctl[d].pending, r.ctl[d].pending)
    PROVE  Ready(r)
  <1>1. "delegate" \in Controllers
    BY DEF Controllers
  <1> QED BY <1>1 DEF Ready, SameRun

(* What set_agent_state_to may add: a confirmation that was just handled   *)
(* releases one action, and nothing else does.                             *)
LEMMA SetStateAsks ==
    ASSUME NEW w, Good(w), NEW c \in Controllers, NEW new \in AgentStates, NEW T \in Int,
           NEW h \in Nat, NEW g \in Nat, h <= g, g <= Len(w.stream), Asks(w, T, h),
           new = "USER_CONFIRMED" => g = h + 1 /\ IsConfirm(w.stream[g])
    PROVE  Asks(SetState(w, c, new), T, g)
  <1> DEFINE r == SetState(w, c, new)
             s == w.stream
             p == w.ctl[c].pending
             A == w.ctl["parent"].asked
             st == w.ctl["parent"].state
  <1>1. /\ Good(r) /\ Frame(w, c, r) /\ r.ctl[c].state = new /\ StateEvent(new) \in GoodEvent
        /\ \/ w.ctl[c].state = new /\ r = w
           \/ w.ctl[c].state # new /\ Entered(w, c, new, r)
    BY SetStateFacts
  <1>2. /\ s \in Seq(GoodEvent) /\ Len(s) \in Nat /\ A \in SUBSET Nat /\ h <= Len(s)
        /\ "parent" \in Controllers /\ "delegate" \in Controllers
        /\ p \in PendingType /\ PendingIn(s, p) /\ Book(s, A, st, T, h) /\ Ready(w)
        /\ (c = "parent" \/ c = "delegate")
    BY AsksFields, Fields DEF Asks
  <1>3. /\ StateEvent(new).k = "state" /\ ~Executes(StateEvent(new))
        /\ new # "USER_CONFIRMED" => Elsewhere(StateEvent(new))
    BY DEF StateEvent, Event, Executes, Elsewhere
  <1> HIDE DEF r
  <1>4. r.ctl["parent"].asked = A
    BY <1>1, <1>2 DEF Frame
  <1>5. c # "parent" => r.ctl["parent"].state = st
    BY <1>1, <1>2 DEF Frame
  <1>6. ASSUME SameRun(p, r.ctl[c].pending) PROVE Ready(r)
    <2>1. \A d \in Controllers : SameRun(w.ctl[d].pending, r.ctl[d].pending)
      BY <1>1, <1>6 DEF Frame, SameRun
    <2> QED BY <1>2, <1>4, <2>1, ReadyKept
  <1>7. NoAction.k # "run"
    BY DEF NoAction
  <1>8. p.k = "run" => p.act <= T /\ p.gated = TRUE /\ \E j \in 1 .. Len(s) : s[j].k = "run" /\ s[j].act = p.act
    <2> SUFFICES ASSUME p.k = "run"
                 PROVE  p.act <= T /\ p.gated = TRUE /\ \E j \in 1 .. Len(s) : s[j].k = "run" /\ s[j].act = p.act
      OBVIOUS
    <2>1. p.id \in 1 .. Len(s) /\ s[p.id].k = "run" /\ s[p.id].act = p.act
      BY <1>2, <1>7 DEF PendingIn
    <2> QED BY <1>2, <2>1 DEF Book, Below, Ready
  <1>9. CASE w.ctl[c].state = new /\ r = w
    <2>1. Harmless(s, r.stream, T)
      BY <1>2, <1>9, HarmlessSame
    <2> QED BY <1>1, <1>2, <1>9, <2>1, AsksGrows DEF r
  <1>10. CASE w.ctl[c].state # new /\ Dropped(w, c, new, r)
    <2> DEFINE e == NotExecuted(p)
    <2>1. e \in GoodEvent /\ e.k = "obs" /\ r.stream = Append(Append(s, e), StateEvent(new))
          /\ r.ctl[c].pending = NoAction /\ new # "USER_CONFIRMED"
      BY <1>2, <1>10, NotExecutedGood DEF Dropped, Silenced
    <2> HIDE DEF e
    <2>2. ~Executes(e) /\ (e.k = "run" => e.act <= T)
      BY <2>1 DEF Executes
    <2>3. Harmless(s, r.stream, T) /\ Elsewheres(s, r.stream)
      BY <1>1, <1>2, <1>3, <2>1, <2>2, HarmlessTwo
    <2>4. Ready(r)
      BY <1>6, <1>7, <2>1 DEF SameRun
    <2> QED BY <1>1, <1>2, <1>4, <2>3, <2>4, AsksGrows DEF r
  <1>11. CASE w.ctl[c].state # new /\ (DroppedSilently(w, c, new, r) \/ Plainly(w, c, new, r))
    <2>1. r.stream = Append(s, StateEvent(new)) /\ (r.ctl[c].pending = NoAction \/ r.ctl[c].pending = p)
      BY <1>11 DEF DroppedSilently, Plainly
    <2>2. Harmless(s, r.stream, T) /\ (new # "USER_CONFIRMED" => Elsewheres(s, r.stream))
      BY <1>1, <1>2, <1>3, <2>1, HarmlessOne
    <2>3. Ready(r)
      BY <1>6, <1>7, <2>1 DEF SameRun
    <2>4. r.ctl["parent"].state = st \/ Elsewheres(s, r.stream) \/ r.ctl["parent"].state = "USER_CONFIRMED"
      BY <1>1, <1>2, <1>5, <2>2
    <2> QED BY <1>1, <1>2, <1>4, <2>2, <2>3, <2>4, AsksGrows DEF r
  <1>12. CASE w.ctl[c].state # new /\ Reissued(w, c, new, r)
    <2> DEFINE e == Again(s, p, new)
    <2>1. /\ new \in AnswerStates /\ p # NoAction /\ r.stream = Append(Append(s, e), StateEvent(new))
          /\ r.ctl[c].pending = Renumbered(p, Len(s) + 1)
      BY <1>12 DEF Reissued
    <2>2. e \in GoodEvent /\ e.k = p.k /\ e.act = p.act
      BY <2>1, ReissueFacts
    <2>3. Ready(r)
      <3>1. Renumbered(p, Len(s) + 1).k = p.k /\ Renumbered(p, Len(s) + 1).act = p.act
            /\ Renumbered(p, Len(s) + 1).gated = p.gated
        BY <1>2 DEF Renumbered, PendingType
      <3> QED BY <1>6, <2>1, <3>1 DEF SameRun
    <2>4. Executes(e) => p.k = "run" /\ new = "USER_CONFIRMED"
      <3> SUFFICES ASSUME Executes(e) PROVE p.k = "run" /\ new = "USER_CONFIRMED"
        OBVIOUS
      <3>1. p.k = "run" /\ p.gated = TRUE
        BY <1>8, <2>2 DEF Executes
      <3>2. e.x = Answer(new)
        BY <3>1 DEF Again, RunEvent, Event
      <3> QED BY <3>1, <3>2 DEF Executes, Answer
    <2> HIDE DEF e
    <2>5. CASE ~Executes(e)
      <3>1. Harmless(s, r.stream, T) /\ (new # "USER_CONFIRMED" => Elsewheres(s, r.stream))
        BY <1>1, <1>2, <1>3, <1>8, <2>1, <2>2, <2>5, HarmlessTwo
      <3>2. r.ctl["parent"].state = st \/ Elsewheres(s, r.stream) \/ r.ctl["parent"].state = "USER_CONFIRMED"
        BY <1>1, <1>2, <1>5, <3>1
      <3> QED BY <1>1, <1>2, <1>4, <2>3, <3>1, <3>2, AsksGrows DEF r
    <2>6. CASE Executes(e)
      <3> DEFINE t == Append(s, e)
                 now == r.ctl["parent"].state
      <3>1. new = "USER_CONFIRMED" /\ g = h + 1 /\ IsConfirm(s[h + 1]) /\ h + 1 \in 1 .. Len(s)
        BY <1>2, <2>4, <2>6
      <3>2. \E j \in 1 .. Len(s) : s[j].k = "run" /\ s[j].act = e.act
        BY <1>8, <2>2, <2>4, <2>6
      <3>3. \/ st # "USER_CONFIRMED" /\ now = "USER_CONFIRMED"
            \/ e.act \notin A /\ now = st
        <4>1. CASE c = "parent"
          BY <1>1, <1>12, <3>1, <4>1
        <4>2. CASE c = "delegate"
          BY <1>2, <1>5, <2>2, <2>4, <2>6, <4>2 DEF Ready
        <4> QED BY <1>2, <4>1, <4>2
      <3> HIDE DEF now
      <3>4. Book(t, A, now, T, h + 1)
        BY <1>2, <2>2, <2>6, <3>1, <3>2, <3>3, BookReleases
      <3>5. t \in Seq(GoodEvent) /\ Len(t) = Len(s) + 1
        BY <1>2, <2>2, OneMore DEF Extends
      <3> HIDE DEF t
      <3>6. Harmless(t, r.stream, T)
        BY <1>1, <1>3, <2>1, <3>5, HarmlessOne DEF t
      <3>7. \A b \in A : b <= T /\ (b \in A \/ b > T)
        BY <1>2 DEF Book
      <3>8. Leaves(t, r.stream, now, now)
        BY DEF Leaves
      <3>9. h + 1 \in Nat /\ h + 1 <= Len(t) /\ h + 1 <= h + 1 /\ T <= T
        BY <1>2, <3>1, <3>5
      <3>10. Book(r.stream, A, now, T, h + 1)
        BY <1>2, <3>4, <3>6, <3>7, <3>8, <3>9, BookGrows
      <3> QED BY <1>4, <2>3, <3>1, <3>10 DEF Asks, now, r
    <2> QED BY <2>5, <2>6
  <1> QED BY <1>1, <1>9, <1>10, <1>11, <1>12 DEF Entered

LEMMA GrewExtends ==
    ASSUME NEW w, NEW r, Good(w), Good(r), Grew(w, r) PROVE Extends(w.stream, r.stream)
  BY Fields DEF Grew, Extends

LEMMA RememberedAsks ==
    ASSUME NEW w, Good(w), NEW c \in Controllers, NEW i, NEW u, Remembered(w, c, i, u),
           NEW T, NEW h, Asks(w, T, h)
    PROVE  Asks(u, T, h) /\ Good(u)
  <1>1. /\ Good(u) /\ u.stream = w.stream
        /\ \A d \in Controllers : u.ctl[d].state = w.ctl[d].state /\ u.ctl[d].pending = w.ctl[d].pending
                                  /\ u.ctl[d].asked = w.ctl[d].asked
    BY DEF Remembered
  <1>2. "parent" \in Controllers /\ "delegate" \in Controllers
    BY DEF Controllers
  <1> QED BY <1>1, <1>2 DEF Asks, Ready

LEMMA ClearedAsks ==
    ASSUME NEW u, Good(u), NEW c \in Controllers, NEW T, NEW h, Asks(u, T, h)
    PROVE  Asks(Cleared(u, c), T, h) /\ Good(Cleared(u, c)) /\ Cleared(u, c).stream = u.stream
  <1> DEFINE r == Cleared(u, c)
  <1>1. /\ Good(r) /\ Frame(u, c, r) /\ r.stream = u.stream
        /\ r.ctl[c].state = u.ctl[c].state /\ r.ctl[c].pending = NoAction
    BY WithPending, NoActionType DEF Cleared
  <1> HIDE DEF r
  <1>2. "parent" \in Controllers /\ NoAction.k # "run"
    BY DEF Controllers, NoAction
  <1>3. /\ r.ctl["parent"].asked = u.ctl["parent"].asked /\ r.ctl["parent"].state = u.ctl["parent"].state
        /\ \A d \in Controllers : SameRun(u.ctl[d].pending, r.ctl[d].pending)
    BY <1>1, <1>2 DEF Frame, SameRun
  <1> QED BY <1>1, <1>3, ReadyKept DEF Asks, r

LEMMA RecalledAsks ==
    ASSUME NEW u, Good(u), NEW c \in Controllers, NEW i \in Nat, NEW T \in Int, NEW h \in Nat,
           h <= Len(u.stream), Asks(u, T, h)
    PROVE  LET r == Recalled(u, c, i) IN
           Asks(r, T, h) /\ Good(r) /\ Len(r.stream) = Len(u.stream) + 1
           /\ \A k \in 1 .. Len(u.stream) : r.stream[k] = u.stream[k]
  <1> DEFINE r == Recalled(u, c, i)
             e == RecallOf(i)
  <1>1. /\ Good(r) /\ Frame(u, c, r) /\ r.stream = Append(u.stream, e) /\ e \in GoodEvent
        /\ r.ctl[c].state = u.ctl[c].state /\ r.ctl[c].pending = Recalling(Len(u.stream) + 1)
    BY RecalledFacts
  <1>2. e.k = "recall" /\ Recalling(Len(u.stream) + 1).k = "recall" /\ "parent" \in Controllers
    BY DEF RecallOf, Event, Recalling, Controllers
  <1>3. u.stream \in Seq(GoodEvent)
    BY AsksFields
  <1> HIDE DEF r, e
  <1>4. Harmless(u.stream, r.stream, T)
    BY <1>1, <1>2, <1>3, HarmlessOne DEF Executes
  <1>5. /\ r.ctl["parent"].asked = u.ctl["parent"].asked /\ r.ctl["parent"].state = u.ctl["parent"].state
        /\ \A d \in Controllers : SameRun(u.ctl[d].pending, r.ctl[d].pending)
    BY <1>1, <1>2 DEF Frame, SameRun
  <1>6. Ready(r)
    BY <1>5, ReadyKept DEF Asks
  <1>7. Asks(r, T, h)
    <2>1. T <= T /\ h <= h
      OBVIOUS
    <2> QED BY <1>1, <1>4, <1>5, <1>6, <2>1, AsksGrows
  <1>8. Len(r.stream) = Len(u.stream) + 1 /\ \A k \in 1 .. Len(u.stream) : r.stream[k] = u.stream[k]
    BY <1>1, <1>3, OneMore DEF Extends
  <1> QED BY <1>1, <1>7, <1>8 DEF r

LEMMA StartedAsks ==
    ASSUME NEW u, Good(u), NEW c \in Controllers, NEW r, Started(u, c, r), NEW T \in Int,
           NEW h \in Nat, NEW g \in Nat, h <= g, h <= Len(u.stream), Asks(u, T, h)
    PROVE  Asks(r, T, g)
  <1>1. /\ Good(r) /\ Grew(u, r) /\ r.ctl["parent"] = u.ctl["parent"]
        /\ \A i \in Len(u.stream) + 1 .. Len(r.stream) : r.stream[i].k \in {"message", "state"}
        /\ r.ctl["delegate"].pending \in {NoAction, u.ctl["delegate"].pending}
    BY AsksFields DEF Started, Quiet
  <1>2. Harmless(u.stream, r.stream, T)
    <2>1. \A i \in Len(u.stream) + 1 .. Len(r.stream) : ~Executes(r.stream[i]) /\ r.stream[i].k # "run"
      BY <1>1 DEF Executes
    <2> QED BY <1>1, <2>1, GrewExtends DEF Harmless
  <1>3. NoAction.k # "run"
    BY DEF NoAction
  <1>4. \A d \in Controllers : SameRun(u.ctl[d].pending, r.ctl[d].pending)
    BY <1>1, <1>3, AsksFields DEF SameRun
  <1>5. Ready(r)
    BY <1>1, <1>4, ReadyKept DEF Asks
  <1> QED BY <1>1, <1>2, <1>5, AsksGrows

LEMMA AsksHandled ==
    ASSUME TypeInv, NEW c \in Controllers, NEW v, Handles(c, v), NEW T \in Int,
           Asks(World, T, handled)
    PROVE  Asks(v, T, handled + 1)
  <1> DEFINE i == handled + 1
             e == stream[i]
             h == handled
  <1>1. /\ Good(World) /\ World.stream = stream /\ h \in Nat /\ i \in 1 .. Len(stream) /\ i \in Nat
        /\ h <= i /\ h <= Len(stream) /\ i <= Len(stream) /\ Len(stream) \in Nat /\ Good(v)
        /\ v = Handle(World, c, i)
    BY StreamType, WorldFields DEF TypeInv, TypeOK, Handles
  <1>2. PICK u : Remembered(World, c, i, u) /\ ByKind(u, c, i, v)
    BY <1>1, HandleByKind
  <1>3. Good(u) /\ u.stream = stream /\ Asks(u, T, h)
    BY <1>1, <1>2, RememberedAsks DEF Remembered
  <1>4. /\ "RUNNING" \in AgentStates /\ "AWAITING_USER_INPUT" \in AgentStates
        /\ "FINISHED" \in AgentStates /\ "REJECTED" \in AgentStates
    BY DEF AgentStates
  <1>5. ASSUME NEW q, Good(q), Asks(q, T, h), i <= Len(q.stream), NEW new \in AgentStates,
               new # "USER_CONFIRMED" \/ IsConfirm(q.stream[i])
        PROVE  Asks(SetState(q, c, new), T, i)
    BY <1>1, <1>5, SetStateAsks
  <1>6. ASSUME NEW q, Good(q), Asks(q, T, h), q.stream = stream PROVE Asks(q, T, i)
    <2>1. Harmless(q.stream, q.stream, T) /\ T <= T
      BY <1>6, AsksFields, HarmlessSame
    <2>2. Ready(q)
      BY <1>6 DEF Asks
    <2> QED BY <1>1, <1>6, <2>1, <2>2, AsksGrows
  <1>7. CASE e.k = "change" /\ e.x \in AgentStates /\ v = SetState(u, c, e.x)
    BY <1>1, <1>3, <1>5, <1>7 DEF IsConfirm, IsChange
  <1>8. CASE FromUser(e) /\ v = SetState(Recalled(u, c, i), c, "RUNNING")
    <2>1. LET q == Recalled(u, c, i) IN Asks(q, T, h) /\ Good(q) /\ Len(q.stream) = Len(stream) + 1
      BY <1>1, <1>3, RecalledAsks
    <2>2. i <= Len(Recalled(u, c, i).stream)
      BY <1>1, <2>1
    <2> QED BY <1>4, <1>5, <1>8, <2>1, <2>2
  <1>9. CASE v = SetState(u, c, "AWAITING_USER_INPUT")
    BY <1>1, <1>3, <1>4, <1>5, <1>9
  <1>10. CASE v = u
    BY <1>3, <1>6, <1>10
  <1>11. CASE e.k = "delegate"
    <2>1. PICK q : Remembered(World, c, i, q) /\ Started(q, c, v)
      BY <1>11 DEF Handles
    <2>2. Good(q) /\ q.stream = stream /\ Asks(q, T, h)
      BY <1>1, <2>1, RememberedAsks DEF Remembered
    <2> QED BY <1>1, <2>1, <2>2, StartedAsks
  <1>12. CASE v = SetState(u, c, "FINISHED") \/ v = SetState(u, c, "REJECTED")
    BY <1>1, <1>3, <1>4, <1>5, <1>12
  <1>13. CASE Observed(u, c, i, v)
    <2>1. Asks(Cleared(u, c), T, h) /\ Good(Cleared(u, c)) /\ Cleared(u, c).stream = stream
      BY <1>3, ClearedAsks
    <2>2. CASE v = SetState(Cleared(u, c), c, "RUNNING") \/ v = SetState(Cleared(u, c), c, "AWAITING_USER_INPUT")
      BY <1>1, <1>4, <1>5, <2>1, <2>2
    <2>3. CASE v = Cleared(u, c)
      BY <1>6, <2>1, <2>3
    <2> QED BY <1>10, <1>13, <2>2, <2>3 DEF Observed
  <1> HIDE DEF e
  <1>14. u.stream[i] = e
    BY <1>3 DEF e
  <1> QED BY <1>2, <1>7, <1>8, <1>9, <1>10, <1>11, <1>12, <1>13, <1>14 DEF ByKind

LEMMA AsksOnEvent ==
    ASSUME TypeInv, NEW c \in Controllers, OnEvent(c), Asks(World, Top(World), handled)
    PROVE  Asks(World', Top(World'), handled')
  <1>1. PICK v : Handles(c, v)
    BY OnEventFacts
  <1>2. stepping = "none"
    BY DEF OnEvent, CallbackMayRun
  <1>3. /\ Good(World) /\ Good(v) /\ Good(World') /\ handled' = handled + 1 /\ handled + 1 \in Nat
        /\ handled + 1 <= Len(v.stream) /\ World.stream = stream /\ handled \in Nat
        /\ Fails(v, c, World') \/ Calls(v, c, World') \/ World' = v
    <2>1. Len(stream) <= Len(v.stream) /\ Len(v.stream) \in Nat /\ Len(stream) \in Nat
      BY <1>1, Fields, StreamType, WorldFields DEF Handles, Grew
    <2> QED BY <1>1, <2>1, WorldFields DEF Handles, TypeInv, TypeOK
  <1>4. Top(World) \in Int /\ Top(v) = Top(World) /\ v.stepping = "none" /\ Top(World') \in Int
    BY <1>1, <1>2, <1>3, TopHandled, TopType
  <1>5. Top(v) <= Top(World')
    BY <1>3, <1>4, TopStep
  <1>6. Asks(v, Top(v), handled + 1)
    BY <1>1, <1>4, AsksHandled
  <1>7. v.stream \in Seq(GoodEvent) /\ Ready(v)
    BY <1>3, <1>6, AsksFields DEF Asks
  <1> DEFINE r == World'
             T == Top(v)
             U == Top(r)
             g == handled + 1
  <1> SUFFICES Asks(r, U, g)
    BY <1>3
  <1>8. CASE Fails(v, c, r)
    <2>1. /\ r.stream = Append(v.stream, StateEvent("ERROR")) /\ r.ctl[c].pending = NoAction
          /\ r.ctl[c].asked = v.ctl[c].asked /\ r.ctl[c].state = "ERROR"
          /\ \A d \in Controllers : d # c => r.ctl[d] = v.ctl[d]
      BY <1>8 DEF Fails
    <2>2. /\ StateEvent("ERROR") \in GoodEvent /\ Elsewhere(StateEvent("ERROR"))
          /\ StateEvent("ERROR").k = "state" /\ ~Executes(StateEvent("ERROR")) /\ NoAction.k # "run"
      BY StateGood DEF AgentStates, Elsewhere, Executes, NoAction
    <2>3. Harmless(v.stream, r.stream, U) /\ Elsewheres(v.stream, r.stream)
      BY <1>7, <2>1, <2>2, HarmlessOne
    <2>4. /\ r.ctl["parent"].asked = v.ctl["parent"].asked
          /\ \A d \in Controllers : SameRun(v.ctl[d].pending, r.ctl[d].pending)
      BY <2>1, <2>2, <1>3, AsksFields DEF SameRun
    <2>5. Ready(r)
      BY <1>7, <2>4, ReadyKept
    <2> HIDE DEF r, U, T, g
    <2>6. Good(r) /\ U \in Int /\ T \in Int /\ T <= U /\ g \in Nat /\ g <= g /\ g <= Len(v.stream) /\ Asks(v, T, g)
      BY <1>3, <1>4, <1>5, <1>6 DEF r, T, U, g
    <2> QED BY <1>3, <2>3, <2>4, <2>5, <2>6, AsksGrows
  <1>9. CASE Calls(v, c, r) \/ r = v
    <2>1. r.stream = v.stream /\ r.ctl = v.ctl
      BY <1>9 DEF Calls
    <2>2. Harmless(v.stream, r.stream, U)
      BY <1>7, <2>1, HarmlessSame
    <2>3. Ready(r)
      BY <1>7, <2>1 DEF Ready
    <2> HIDE DEF r, U, T, g
    <2>4. Good(r) /\ U \in Int /\ T \in Int /\ T <= U /\ g \in Nat /\ g <= g /\ g <= Len(v.stream) /\ Asks(v, T, g)
      BY <1>3, <1>4, <1>5, <1>6 DEF r, T, U, g
    <2> QED BY <1>3, <2>1, <2>2, <2>3, <2>4, AsksGrows
  <1> QED BY <1>3, <1>8, <1>9

(* The LLM's answer: the new action has a number no action has. *)
LEMMA AsksLlm ==
    ASSUME TypeInv, NEW o \in Outcomes, o # "askUngated", LlmReturns(o),
           Asks(World, Top(World), handled)
    PROVE  Asks(World', Top(World'), handled')
  <1> DEFINE a == Answering
             c == stepping
             r == World'
             h == handled
             T == Top(World)
             U == Top(World')
  <1>1. /\ c \in Controllers /\ r = Produce(a, c, o) /\ handled' = h /\ Good(r)
    BY LlmReturnsFacts
  <1>2. /\ Good(a) /\ a.stream = stream /\ a.ctl = ctl /\ Good(World) /\ h \in Nat /\ h <= Len(stream)
        /\ stream \in Seq(GoodEvent)
    BY AnsweringFacts, StreamType DEF TypeInv, TypeOK
  <1>3. T \in Int /\ U = T + 1 /\ U \in Int /\ U = a.flags.iter /\ U \in Nat
    BY <1>2, TopReturns, TopType DEF TypeInv
  <1>4. Asks(a, T, h)
    BY <1>2, WorldFields DEF Asks, Ready
  <1>5. MayProduce(c, o) /\ o \in AllOutcomes
    BY ConfigAssumption DEF LlmReturns
  <1>6. /\ "other" \in ErrKinds /\ "RATE_LIMITED" \in AgentStates /\ "ERROR" \in AgentStates
        /\ "confirmed" \in Confirmation /\ "awaiting" \in Confirmation /\ TRUE \in BOOLEAN
        /\ "AWAITING_USER_CONFIRMATION" \in AgentStates
        /\ "parent" \in Controllers /\ "delegate" \in Controllers
    BY DEF ErrKinds, AgentStates, Confirmation, Controllers
  <1> SUFFICES Asks(r, U, h)
    BY <1>1
  <1> HIDE DEF a, c, r, T, U, h
  <1>7. /\ T <= U /\ T < U /\ U <= U /\ h <= h /\ h <= Len(a.stream)
    BY <1>2, <1>3
  <1>8. ASSUME NEW q, Good(q), q.stream = stream, Asks(q, T, h), NEW new \in AgentStates,
               new # "USER_CONFIRMED", r = SetState(q, c, new)
        PROVE  Asks(r, U, h)
    <2>1. Asks(r, T, h) /\ h <= Len(r.stream) /\ r.stream \in Seq(GoodEvent)
      <3>1. Asks(r, T, h)
        BY <1>1, <1>2, <1>3, <1>7, <1>8, SetStateAsks
      <3>2. Quiet(q, r)
        BY <1>1, <1>8, SetStateQuiet
      <3>3. Len(stream) <= Len(r.stream) /\ Len(r.stream) \in Nat /\ Len(stream) \in Nat
        BY <1>1, <1>2, <1>8, <3>2, AsksFields DEF Quiet, Grew
      <3> QED BY <1>1, <1>2, <3>1, <3>3, AsksFields
    <2>2. Harmless(r.stream, r.stream, U) /\ Ready(r)
      BY <2>1, HarmlessSame DEF Asks
    <2> QED BY <1>1, <1>2, <1>3, <1>7, <2>1, <2>2, AsksGrows
  <1>9. CASE o = "run" /\ r = Runnable(a, c, TRUE, "confirmed")
    <2> DEFINE p == Runs(Len(a.stream) + 1, a.flags.iter, TRUE)
               e == RunEvent(p, "confirmed")
    <2>1. Frame(a, c, r) /\ r.ctl[c].state = a.ctl[c].state /\ r.ctl[c].pending = p
          /\ r.stream = Append(a.stream, e)
      <3>1. Ran(a, c, TRUE, "confirmed", r)
        BY <1>1, <1>2, <1>6, <1>9, RunnableFacts
      <3> QED BY <3>1 DEF Ran
    <2>2. p.act = U /\ p.k = "run" /\ p.gated = TRUE
      BY <1>3 DEF Runs
    <2>3. e \in GoodEvent /\ e.k = "run" /\ e.act = U
      BY <1>3, <1>6, <2>2, RunEventGood
    <2> HIDE DEF p, e
    <2> DEFINE A == a.ctl["parent"].asked
               st == a.ctl["parent"].state
    <2>4. Book(a.stream, A, st, T, h) /\ A \in SUBSET Nat /\ a.stream \in Seq(GoodEvent) /\ Ready(a)
      BY <1>2, <1>4, AsksFields DEF Asks
    <2>5. r.ctl["parent"].asked = A /\ r.ctl["parent"].state = st
      BY <1>6, <2>1 DEF Frame
    <2> HIDE DEF A, st
    <2>6. T < e.act /\ e.act <= U
      BY <1>7, <2>3
    <2>7. Book(r.stream, A, st, U, h)
      BY <1>1, <1>2, <1>3, <1>7, <2>1, <2>3, <2>4, <2>6, BookRuns
    <2>8. U \notin A
      BY <1>3, <1>7, <2>4 DEF Book
    <2>9. Ready(r)
      <3>1. \A d \in Controllers : r.ctl[d].pending = IF d = c THEN p ELSE a.ctl[d].pending
        BY <2>1 DEF Frame
      <3>2. r.ctl["parent"].asked = a.ctl["parent"].asked /\ p.act \notin a.ctl["parent"].asked
        BY <2>2, <2>5, <2>8 DEF A
      <3> QED BY <1>6, <2>2, <2>4, <3>1, <3>2 DEF Ready
    <2> QED BY <2>5, <2>7, <2>9 DEF Asks
  <1>10. CASE o = "ask" /\ r = Ask(a, c, TRUE)
    <2> DEFINE v == SetState(a, c, "AWAITING_USER_CONFIRMATION")
               p == Runs(Len(v.stream) + 1, a.flags.iter, TRUE)
               e == RunEvent(p, "awaiting")
    <2>0. c = "parent"
      BY <1>5, <1>10 DEF MayProduce
    <2>1. /\ \A d \in Controllers : d # c => r.ctl[d] = a.ctl[d]
          /\ r.ctl[c].asked = a.ctl[c].asked \cup {a.flags.iter}
          /\ r.ctl[c].state = "AWAITING_USER_CONFIRMATION"
          /\ r.ctl[c].pending = p
          /\ r.stream = Append(v.stream, e)
      <3>1. AskedFor(a, c, TRUE, r)
        BY <1>1, <1>2, <1>6, <1>10, AskFacts
      <3> QED BY <3>1 DEF AskedFor
    <2>2. p.act = U /\ p.k = "run" /\ p.gated = TRUE
      BY <1>3 DEF Runs
    <2>3. e \in GoodEvent /\ e.k = "run" /\ e.act = U /\ e.x = "awaiting"
      BY <1>3, <1>6, <2>2, RunEventGood
    <2>4. /\ Good(v) /\ Frame(a, c, v) /\ v.ctl[c].state = "AWAITING_USER_CONFIRMATION"
          /\ Quiet(a, v) /\ Asks(v, T, h)
      <3>1. /\ Good(v) /\ Frame(a, c, v) /\ v.ctl[c].state = "AWAITING_USER_CONFIRMATION"
        BY <1>1, <1>2, <1>6, SetStateFacts
      <3>2. Quiet(a, v)
        BY <1>1, <1>2, <1>6, SetStateQuiet
      <3>3. Asks(v, T, h)
        BY <1>1, <1>2, <1>3, <1>4, <1>6, <1>7, SetStateAsks
      <3> QED BY <3>1, <3>2, <3>3
    <2> HIDE DEF v, p, e
    <2> DEFINE A == v.ctl["parent"].asked
               B == r.ctl["parent"].asked
               st == v.ctl["parent"].state
    <2>5. /\ Book(v.stream, A, st, T, h) /\ A \in SUBSET Nat /\ B \in SUBSET Nat
          /\ v.stream \in Seq(GoodEvent) /\ Ready(v) /\ h <= Len(v.stream)
      <3>1. Len(a.stream) <= Len(v.stream) /\ Len(v.stream) \in Nat /\ Len(a.stream) \in Nat
        BY <1>2, <2>4, AsksFields DEF Quiet, Grew
      <3> QED BY <1>1, <1>2, <1>7, <2>4, <3>1, AsksFields DEF Asks
    <2>6. A = a.ctl["parent"].asked /\ B = A \cup {U} /\ r.ctl["parent"].state = st
      BY <1>3, <1>6, <2>0, <2>1, <2>4 DEF Frame
    <2> HIDE DEF A, B, st
    <2>7. Harmless(v.stream, r.stream, U)
      <3>1. ~Executes(e) /\ (e.k = "run" => e.act <= U)
        BY <1>7, <2>3 DEF Executes
      <3> QED BY <2>1, <2>3, <2>5, <3>1, HarmlessOne
    <2>8. \A b \in B : b <= U /\ (b \in A \/ b > T)
      BY <1>3, <1>7, <2>5, <2>6 DEF Book
    <2>9. Leaves(v.stream, r.stream, st, st)
      BY DEF Leaves
    <2>10. Book(r.stream, B, st, U, h)
      BY <1>2, <1>3, <1>7, <2>5, <2>7, <2>8, <2>9, BookGrows
    <2>11. Ready(r)
      <3> DEFINE q == a.ctl["delegate"].pending
      <3>1. r.ctl["delegate"].pending = q /\ v.ctl["delegate"].pending = q /\ r.ctl["parent"].pending = p
        BY <1>6, <2>0, <2>1, <2>4 DEF Frame
      <3>2. q.k = "run" => q.act \notin A /\ q.gated = TRUE
        BY <1>6, <2>5, <3>1 DEF Ready, A
      <3>3. ASSUME q.k = "run" PROVE q.act # U
        <4>1. PendingIn(v.stream, q)
          BY <1>6, <2>4, <3>1, Fields
        <4>2. q.id \in 1 .. Len(v.stream) /\ v.stream[q.id].k = "run" /\ v.stream[q.id].act = q.act
          BY <3>3, <4>1 DEF PendingIn, NoAction
        <4>3. q.act <= T /\ q.act \in Nat
          BY <2>4, <2>5, <4>2, LogFacts DEF Book, Below
        <4> QED BY <1>3, <1>7, <4>3
      <3> HIDE DEF q
      <3>4. q.k = "run" => q.act \notin r.ctl["parent"].asked
        BY <2>6, <3>2, <3>3 DEF B
      <3>5. \A d \in Controllers : r.ctl[d].pending = IF d = "parent" THEN p ELSE q
        BY <3>1 DEF Controllers
      <3> QED BY <2>2, <3>1, <3>2, <3>4, <3>5 DEF Ready
    <2> QED BY <2>6, <2>10, <2>11 DEF Asks, B
  <1>11. CASE o \in Adds /\ r = Emit(a, Added(o, a.flags.iter))
    <2> DEFINE e == Added(o, a.flags.iter)
    <2>1. e \in GoodEvent /\ e.k # "run"
      BY <1>3, <1>11, AddedGood
    <2>2. r.stream = Append(a.stream, e) /\ r.ctl = a.ctl
      BY <1>2, <1>11, <2>1, EmitFacts
    <2> HIDE DEF e
    <2>3. Harmless(a.stream, r.stream, U)
      BY <1>2, <2>1, <2>2, HarmlessOne DEF Executes
    <2>4. Ready(r)
      BY <1>4, <2>2 DEF Asks, Ready
    <2> QED BY <1>1, <1>2, <1>3, <1>4, <1>7, <2>2, <2>3, <2>4, AsksGrows
  <1>12. ASSUME NEW n \in Nat, NEW x \in ErrKinds, r = SetState(Failing(a, c, x, n), c, "ERROR")
         PROVE  Asks(r, U, h)
    <2> DEFINE q == Failing(a, c, x, n)
    <2>1. Noted(a, c, x, n, q)
      BY <1>1, <1>2, WithErr
    <2> HIDE DEF q
    <2>2. /\ Good(q) /\ q.stream = stream
          /\ \A d \in Controllers : q.ctl[d].state = a.ctl[d].state /\ q.ctl[d].pending = a.ctl[d].pending
                                    /\ q.ctl[d].asked = a.ctl[d].asked
      BY <1>2, <2>1 DEF Noted
    <2>3. Asks(q, T, h)
      BY <1>2, <1>4, <1>6, <2>2 DEF Asks, Ready
    <2> QED BY <1>6, <1>8, <1>12, <2>2, <2>3 DEF q
  <1>13. CASE r = ReactToException(a, c, "other")
    <2> DEFINE n == IF c = "parent" THEN a.errors + 1 ELSE a.errors
    <2>1. n \in Nat
      BY <1>2, Fields
    <2>2. r = SetState(Failing(a, c, "other", n), c, "ERROR")
      BY <1>13 DEF ReactToException, Failing
    <2> HIDE DEF n
    <2> QED BY <1>6, <1>12, <2>1, <2>2
  <1>14. CASE r = SetState(a, c, "RATE_LIMITED")
    BY <1>2, <1>4, <1>6, <1>8, <1>14
  <1>15. CASE r = SetState([a EXCEPT !.ctl[c].err = "other"], c, "ERROR")
    <2>1. a \in WorldType /\ a.errors \in Nat
      BY <1>2, Fields DEF Good
    <2>2. [a EXCEPT !.ctl[c].err = "other"] = Failing(a, c, "other", a.errors)
      BY <2>1 DEF Failing, WorldType
    <2> QED BY <1>6, <1>12, <1>15, <2>1, <2>2
  <1> QED BY <1>1, <1>5, <1>9, <1>10, <1>11, <1>13, <1>14, <1>15, ProduceCases

(* The delegate is stopped, reported and gone. *)
LEMMA AsksEnd ==
    ASSUME TypeInv, EndDelegate, Asks(World, Top(World), handled)
    PROVE  Asks(World', Top(World'), handled')
  <1>1. PICK v : Ends(v)
    BY EndDelegateFacts
  <1> DEFINE w == World
             q == SetState(w, "delegate", "STOPPED")
             e == Event("obs", "delegated", 0, w.ctl["parent"].lastDelegate)
             T == Top(World)
             h == handled
             r == World'
  <1>2. /\ Good(w) /\ w.stream = stream /\ h \in Nat /\ h <= Len(stream) /\ T \in Int
        /\ T <= T /\ h <= h /\ h <= h + 1 /\ h + 1 \in Nat
    BY WorldFields, StreamType, TopType DEF TypeInv, TypeOK
  <1>3. "STOPPED" \in AgentStates /\ "delegate" \in Controllers /\ "parent" \in Controllers
    BY DEF AgentStates, Controllers
  <1>4. v = Emit(q, e) /\ IsPlaced(v, FALSE, r) /\ handled' = h + 1 /\ Good(r)
        /\ Reported(w, v)
    BY <1>1 DEF Ends, Report
  <1>5. /\ Good(q) /\ Quiet(w, q) /\ Asks(q, T, h)
    <2>1. Good(q)
      BY <1>2, <1>3, SetStateFacts
    <2>2. Quiet(w, q)
      BY <1>2, <1>3, SetStateQuiet
    <2>3. Asks(q, T, h)
      BY <1>2, <1>3, SetStateAsks
    <2> QED BY <2>1, <2>2, <2>3
  <1>6. e \in GoodEvent /\ e.k = "obs"
    <2>1. w.ctl["parent"].lastDelegate \in Nat
      BY <1>2, <1>3, Fields DEF CtlType
    <2> QED BY <2>1 DEF Event, GoodEvent, EventType, ActionKinds, Answers
  <1>7. Top(r) = T
    BY <1>4 DEF IsPlaced, Reported, Top
  <1> HIDE DEF q, e, r, T, h
  <1>8. /\ Good(v) /\ v.stream = Append(q.stream, e) /\ v.ctl = q.ctl
        /\ q.stream \in Seq(GoodEvent) /\ h <= Len(q.stream)
    <2>1. Len(w.stream) <= Len(q.stream) /\ Len(q.stream) \in Nat /\ Len(w.stream) \in Nat
      BY <1>2, <1>5, AsksFields DEF Quiet, Grew
    <2>2. h <= Len(w.stream) /\ h \in Nat
      BY <1>2
    <2>3. h <= Len(q.stream)
      BY <2>1, <2>2
    <2>4. Good(v) /\ v.stream = Append(q.stream, e) /\ v.ctl = q.ctl
      BY <1>4, <1>5, <1>6, EmitFacts
    <2>5. q.stream \in Seq(GoodEvent)
      BY <1>5, AsksFields
    <2> QED BY <2>3, <2>4, <2>5
  <1>9. /\ r.stream = v.stream /\ r.ctl["parent"] = q.ctl["parent"] /\ r.ctl["delegate"].pending = NoAction
        /\ NoAction.k # "run"
    BY <1>4, <1>8, FreshType DEF IsPlaced, NoAction
  <1>10. Harmless(q.stream, r.stream, T)
    BY <1>6, <1>8, <1>9, HarmlessOne DEF Executes
  <1>11. \A d \in Controllers : SameRun(q.ctl[d].pending, r.ctl[d].pending)
    BY <1>9 DEF SameRun, Controllers
  <1>12. Ready(r)
    BY <1>5, <1>9, <1>11, ReadyKept DEF Asks
  <1>13. Asks(r, T, h + 1)
    BY <1>2, <1>4, <1>5, <1>8, <1>9, <1>10, <1>12, AsksGrows
  <1> QED BY <1>4, <1>7, <1>13 DEF r

LEMMA NextAsk == ASSUME TypeInv, AskInv, "askUngated" \notin Outcomes, [Next]_vars PROVE AskInv'
  <1>0. /\ Good(World) /\ World.stream = stream /\ World.ctl = ctl /\ Asks(World, Top(World), handled)
        /\ Released /\ handled \in Nat /\ handled <= Len(stream) /\ Top(World) \in Int
        /\ executed \subseteq 1 .. Len(stream) /\ stream \in Seq(GoodEvent) /\ Len(stream) \in Nat
    BY WorldFields, StreamType, TopType DEF TypeInv, TypeOK, AskInv
  <1>1. ASSUME Good(World'), Grew(World, World'), executed' = executed PROVE Released'
    <2>1. \A i \in executed : stream'[i] = stream[i]
      BY <1>0, <1>1, NewWorldFields DEF Grew
    <2> QED BY <1>0, <1>1, <2>1 DEF Released, Executes
  <1>2. ASSUME NEW e, AddsEvent(e), e.k # "run", UNCHANGED <<handled, ctl, stepping, flags>>
        PROVE  Asks(World', Top(World'), handled')
    <2>1. /\ Good(World') /\ World'.stream = Append(World.stream, e) /\ World'.ctl = World.ctl
          /\ Top(World') = Top(World) /\ e \in GoodEvent
      BY <1>0, <1>2, WorldFields, NewWorldFields DEF AddsEvent, Top
    <2>2. Harmless(World.stream, World'.stream, Top(World))
      BY <1>0, <1>2, <2>1, HarmlessOne DEF Executes
    <2>3. Ready(World')
      BY <1>0, <2>1 DEF Asks, Ready
    <2>4. Top(World) <= Top(World) /\ handled <= handled
      BY <1>0
    <2>5. Asks(World', Top(World), handled)
      BY <1>0, <2>1, <2>2, <2>3, <2>4, AsksGrows
    <2> QED BY <1>2, <2>1, <2>5
  <1>3. ASSUME UNCHANGED <<stream, handled, ctl, stepping, flags>>
        PROVE  Asks(World', Top(World'), handled')
    <2>1. World'.stream = World.stream /\ World'.ctl = World.ctl /\ Top(World') = Top(World)
      BY <1>3, WorldFields, NewWorldFields DEF Top
    <2> QED BY <1>0, <1>3, <2>1 DEF Asks, Ready
  <1>4. ASSUME NEW c \in Controllers, OnEvent(c) PROVE AskInv'
    <2>1. Asks(World', Top(World'), handled')
      BY <1>0, <1>4, AsksOnEvent
    <2>2. Good(World') /\ Grew(World, World')
      BY <1>4, OnEventFacts DEF Handles
    <2>3. executed' = executed
      BY <1>4 DEF OnEvent, runtimeVars
    <2> QED BY <1>1, <2>1, <2>2, <2>3, AskInvNext
  <1>5. ASSUME EndDelegate PROVE AskInv'
    <2>1. Asks(World', Top(World'), handled')
      BY <1>0, <1>5, AsksEnd
    <2>2. Good(World') /\ Grew(World, World')
      BY <1>5, EndDelegateFacts DEF Ends
    <2>3. executed' = executed
      BY <1>5 DEF EndDelegate, runtimeVars
    <2> QED BY <1>1, <2>1, <2>2, <2>3, AskInvNext
  <1>6. ASSUME NEW o \in Outcomes, LlmReturns(o) PROVE AskInv'
    <2>1. Asks(World', Top(World'), handled')
      BY <1>0, <1>6, AsksLlm
    <2>2. Good(World') /\ Grew(World, World')
      BY <1>6, LlmReturnsFacts
    <2>3. executed' = executed
      BY <1>6 DEF LlmReturns, runtimeVars
    <2> QED BY <1>1, <2>1, <2>2, <2>3, AskInvNext
  <1>7. ASSUME ApplyStatusError PROVE AskInv'
    <2> DEFINE l == Lowered
    <2>1. /\ Good(l) /\ l.stream = stream /\ l.ctl = ctl /\ l.stepping = stepping
          /\ l.flags = flags /\ World' = SetState(l, "parent", "ERROR") /\ handled' = handled
          /\ Moved(l, "parent", World') /\ flags' = flags /\ Good(World') /\ Quiet(World, World')
      BY <1>7, ApplyStatusErrorFacts
    <2> HIDE DEF l
    <2>2. Asks(l, Top(World), handled)
      BY <1>0, <2>1 DEF Asks, Ready
    <2>3. "parent" \in Controllers /\ "ERROR" \in AgentStates
      BY DEF Controllers, AgentStates
    <2>4. Asks(World', Top(World), handled)
      <3>1. handled <= handled /\ handled <= Len(l.stream)
        BY <1>0, <2>1
      <3> QED BY <1>0, <2>1, <2>2, <2>3, <3>1, SetStateAsks
    <2>5. Top(World') = Top(World)
      BY <2>1, WorldFields, NewWorldFields DEF Top, Moved
    <2>6. executed' = executed
      BY <1>7 DEF ApplyStatusError, runtimeVars
    <2> QED BY <1>1, <2>1, <2>4, <2>5, <2>6, AskInvNext DEF Quiet
  <1>8. ASSUME RuntimeTakes PROVE AskInv'
    <2>1. PICK i \in 1 .. Len(stream) :
             \/ /\ Executes(stream[i]) /\ executed' = executed \cup {i} /\ stream' = stream
             \/ /\ AddsEvent(ReplyTo(i)) /\ executed' = executed
      BY <1>8, RuntimeTakesFacts
    <2>2. UNCHANGED <<handled, ctl, stepping, flags>>
      BY <1>8 DEF RuntimeTakes, controllerVars
    <2>3. CASE Executes(stream[i]) /\ executed' = executed \cup {i} /\ stream' = stream
      <3>1. Asks(World', Top(World'), handled')
        BY <1>3, <2>2, <2>3
      <3>2. Released'
        BY <1>0, <2>3 DEF Released, Executes
      <3> QED BY <3>1, <3>2, AskInvNext
    <2>4. CASE AddsEvent(ReplyTo(i)) /\ executed' = executed
      <3>1. ReplyTo(i).k # "run"
        BY DEF ReplyTo, Event
      <3>2. Asks(World', Top(World'), handled') /\ Released'
        BY <1>1, <1>2, <2>2, <2>4, <3>1 DEF AddsEvent
      <3> QED BY <3>2, AskInvNext
    <2> QED BY <2>1, <2>3, <2>4
  <1>9. ASSUME RuntimeFinishes PROVE AskInv'
    <2>1. AddsEvent(ResultOf(running)) /\ ResultOf(running).k # "run"
      BY <1>9, RuntimeFinishesFacts DEF ResultOf, Event
    <2>2. UNCHANGED <<handled, ctl, stepping, flags>> /\ executed' = executed
      BY <1>9 DEF RuntimeFinishes, controllerVars
    <2>3. Asks(World', Top(World'), handled') /\ Released'
      BY <1>1, <1>2, <2>1, <2>2 DEF AddsEvent
    <2> QED BY <2>3, AskInvNext
  <1>10. ASSUME MemoryAnswers PROVE AskInv'
    <2>1. PICK i, x : AddsEvent(RecalledAs(x, i))
      BY <1>10, MemoryAnswersFacts
    <2>2. UNCHANGED <<handled, ctl, stepping, flags>> /\ executed' = executed
      BY <1>10 DEF MemoryAnswers, controllerVars, runtimeVars
    <2>3. RecalledAs(x, i).k # "run"
      BY DEF RecalledAs, Event
    <2>4. Asks(World', Top(World'), handled') /\ Released'
      BY <1>1, <1>2, <2>1, <2>2, <2>3 DEF AddsEvent
    <2> QED BY <2>4, AskInvNext
  <1>11. ASSUME NEW input \in UserInputs, UserSends(input) PROVE AskInv'
    <2>1. AddsEvent(InputEvent(input)) /\ InputEvent(input).k # "run"
      BY <1>11, UserSendsFacts DEF IsChange
    <2>2. UNCHANGED <<handled, ctl, stepping, flags>> /\ executed' = executed
      BY <1>11 DEF UserSends, controllerVars, runtimeVars
    <2>3. Asks(World', Top(World'), handled') /\ Released'
      BY <1>1, <1>2, <2>1, <2>2 DEF AddsEvent
    <2> QED BY <2>3, AskInvNext
  <1>12. ASSUME RuntimeRaises \/ MemoryRaises \/ UNCHANGED vars PROVE AskInv'
    <2>1. UNCHANGED <<stream, handled, ctl, stepping, flags>> /\ executed' = executed
      BY <1>12 DEF RuntimeRaises, MemoryRaises, vars, controllerVars, runtimeVars
    <2>2. Asks(World', Top(World'), handled')
      BY <1>3, <2>1
    <2>3. Released'
      BY <1>0, <2>1 DEF Released, Executes
    <2> QED BY <2>2, <2>3, AskInvNext
  <1> QED BY <1>4, <1>5, <1>6, <1>7, <1>8, <1>9, <1>10, <1>11, <1>12
          DEF Next, ControllerNext, LlmNext

LEMMA InitAsk == ASSUME Init, TypeInv PROVE AskInv
  <1>1. /\ World.stream = stream /\ World.ctl["parent"] = Fresh /\ World.ctl["delegate"] = Fresh
        /\ Top(World) = 0 /\ handled = 0 /\ executed = {} /\ Len(stream) \in Nat
    BY WorldFields, StreamType DEF Init, Controllers, Top
  <1>2. \A i \in 1 .. Len(stream) : stream[i].k \in {"message", "change"}
    BY DEF Init, Event
  <1>3. Repeated(stream) = {} /\ \A i \in 1 .. Len(stream) : ~Executes(stream[i])
    BY <1>2 DEF Repeated, Repeats, Executes
  <1>4. PaidUp(stream, 0)
    <2>1. Count({}, Len(stream)) = 0
      <3>1. UpTo({}, Len(stream)) = {}
        BY DEF UpTo
      <3> QED BY <3>1, FS_EmptySet DEF Count
    <2>2. Count(Confirmed(stream), 0) \in Nat
      BY CountFacts
    <2> QED BY <1>3, <2>1, <2>2 DEF PaidUp
  <1>5. Book(stream, {}, "LOADING", 0, 0)
    BY <1>2, <1>3, <1>4 DEF Book, Below, AskedFirst, LeftSince, LeftBetween
  <1>6. Ready(World)
    <2>1. \A c \in Controllers : World.ctl[c].pending.k = "none"
      BY <1>1, FreshType DEF Controllers, NoAction
    <2>2. "delegate" \in Controllers
      BY DEF Controllers
    <2> QED BY <2>1, <2>2 DEF Ready
  <1> QED BY <1>1, <1>5, <1>6, FreshType DEF AskInv, Asks, Released

LEMMA AskInvariant == "askUngated" \notin Outcomes => (Spec => []AskInv)
  <1> SUFFICES ASSUME "askUngated" \notin Outcomes PROVE Spec => []AskInv
    OBVIOUS
  <1>1. Init /\ TypeInv => AskInv
    BY InitAsk
  <1>2. TypeInv /\ AskInv /\ [Next]_vars => AskInv'
    BY NextAsk
  <1> QED BY <1>1, <1>2, TypeInvariant, PTL DEF Spec

(* Confirmation mode, for every configuration without actions that lose    *)
(* their confirmation state: however late, often and contradictorily the   *)
(* user answers, every execution of an action he was asked about, and      *)
(* every repeated one, has a confirmation of its own sent before it was    *)
(* released (set_agent_state_to, Runtime._handle_action).                  *)
THEOREM NoExecutionUnconfirmed ==
    "askUngated" \notin Outcomes => (Spec => []NoUnconfirmedExecution)
  <1> SUFFICES ASSUME "askUngated" \notin Outcomes PROVE Spec => []NoUnconfirmedExecution
    OBVIOUS
  <1>1. TypeInv /\ AskInv => NoUnconfirmedExecution
    <2> SUFFICES ASSUME TypeInv, AskInv, NEW i \in executed, NeedsConfirm(i)
                 PROVE  Cardinality({j \in executed : j <= i /\ NeedsConfirm(j)}) <= Confirms(i - 1)
      BY DEF NoUnconfirmedExecution
    <2> DEFINE S == {j \in executed : j <= i /\ NeedsConfirm(j)}
    <2>1. /\ \A j \in executed : j \in 1 .. Len(stream) /\ Executes(stream[j])
          /\ Len(stream) \in Nat /\ i \in 1 .. Len(stream)
      BY StreamType DEF TypeInv, TypeOK, AskInv, Released
    <2>2. Book(stream, ctl["parent"].asked, ctl["parent"].state, Top(World), handled)
      BY WorldFields DEF AskInv, Asks
    <2>3. ASSUME NEW j \in executed, NeedsConfirm(j) PROVE j \in Repeated(stream)
      <3>1. CASE stream[j].act \in ctl["parent"].asked
        BY <2>1, <2>2, <3>1 DEF Book, AskedFirst, Repeated
      <3>2. CASE \E k \in executed : k < j /\ stream[k].act = stream[j].act
        <4>1. PICK k \in executed : k < j /\ stream[k].act = stream[j].act
          BY <3>2
        <4>2. k \in 1 .. j - 1 /\ stream[k].k = "run"
          BY <2>1, <4>1 DEF Executes
        <4> QED BY <2>1, <4>1, <4>2 DEF Repeated, Repeats
      <3> QED BY <2>3, <3>1, <3>2 DEF NeedsConfirm
    <2>4. S \in SUBSET UpTo(Repeated(stream), i)
      <3> SUFFICES ASSUME NEW j \in executed, j <= i, NeedsConfirm(j)
                   PROVE  j \in UpTo(Repeated(stream), i)
        OBVIOUS
      <3>1. j \in Repeated(stream)
        BY <2>3
      <3>2. j \in 1 .. i
        BY <2>1
      <3> QED BY <3>1, <3>2 DEF UpTo
    <2>5. IsFiniteSet(UpTo(Repeated(stream), i)) /\ Count(Repeated(stream), i) \in Nat
      BY <2>1, CountFacts
    <2> HIDE DEF S
    <2>6. Cardinality(S) <= Count(Repeated(stream), i) /\ Cardinality(S) \in Nat
      BY <2>4, <2>5, FS_Subset, FS_CardinalityType DEF Count
    <2>7. Count(Repeated(stream), i) <= Count(Confirmed(stream), i - 1)
      BY <2>2, <2>3 DEF Book, PaidUp
    <2>8. Count(Confirmed(stream), i - 1) = Confirms(i - 1) /\ Count(Confirmed(stream), i - 1) \in Nat
      <3>1. UpTo(Confirmed(stream), i - 1) = {k \in 1 .. i - 1 : IsChange(stream[k], "USER_CONFIRMED")}
        BY <2>1 DEF UpTo, Confirmed, IsConfirm
      <3>2. i - 1 \in Nat
        BY <2>1
      <3> QED BY <3>1, <3>2, CountFacts DEF Count, Confirms
    <2>9. Cardinality(S) <= Confirms(i - 1)
      BY <2>5, <2>6, <2>7, <2>8
    <2> QED BY <2>9 DEF S
  <1> QED BY <1>1, AskInvariant, TypeInvariant, PTL

(* A repeated answer releases nothing, for every configuration without     *)
(* actions that lose their confirmation state: between two executions of   *)
(* an action the user was asked about the agent was in another state than  *)
(* USER_CONFIRMED (set_agent_state_to's early return).                     *)
THEOREM RepeatedAnswersReleaseNothing ==
    "askUngated" \notin Outcomes => (Spec => []ReleasedOncePerAnswer)
  <1> SUFFICES ASSUME "askUngated" \notin Outcomes PROVE Spec => []ReleasedOncePerAnswer
    OBVIOUS
  <1>1. TypeInv /\ AskInv => ReleasedOncePerAnswer
    <2> SUFFICES ASSUME TypeInv, AskInv, NEW i \in executed, NEW j \in executed, i < j,
                        stream[i].act = stream[j].act, stream[i].act \in ctl["parent"].asked
                 PROVE  \E s \in i + 1 .. j - 1 : stream[s].k = "state" /\ stream[s].x # "USER_CONFIRMED"
      BY DEF ReleasedOncePerAnswer
    <2>1. i \in 1 .. Len(stream) /\ j \in 1 .. Len(stream) /\ Executes(stream[i]) /\ Executes(stream[j])
      BY DEF TypeInv, TypeOK, AskInv, Released
    <2>2. LeftBetween(stream, ctl["parent"].asked)
      BY WorldFields DEF AskInv, Asks, Book
    <2> QED BY <2>1, <2>2 DEF LeftBetween, Elsewhere
  <1> QED BY <1>1, AskInvariant, TypeInvariant, PTL

=============================================================================
