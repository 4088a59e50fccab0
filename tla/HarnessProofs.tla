--------------------------- MODULE HarnessProofs ---------------------------
(***************************************************************************)
(* Proofs about the execution harness, for any number of calls, tokens,    *)
(* kinds of action and policies: the types, NoUnconfirmedRun,              *)
(* TokenSpentOnce, EveryReturnAudited, and that the gate implements        *)
(* Permits.                                                                *)
(*                                                                         *)
(* TokenSpentOnce alone is not inductive: a call may consume a token only  *)
(* if no other call has, which the gate knows from what it remembers.  The *)
(* invariant relates the three records of a token: what was issued, what   *)
(* the gate still remembers, and the call that ran with it.                *)
(***************************************************************************)
EXTENDS Harness, SequenceTheorems, TLAPS

MintedOnce == \A m, n \in minted : m.id = n.id => m = n

(* What the gate remembers was issued, once, as remembered. *)
RememberedAsMinted ==
    \A t \in tokens : \E m \in minted :
        m.id = t.id /\ m.subject = t.subject /\ m.expires = t.expires

RememberedOnce == \A t, u \in tokens : t.id = u.id => t = u

(* A call ran with a token that was issued for it, and which the gate has  *)
(* marked or forgotten.                                                    *)
SpentAsMinted ==
    \A c \in Calls : call[c].via # NoToken =>
        \E m \in minted : m.id = call[c].via /\ m.subject = Subject(call[c].action)

SpentIsConsumed ==
    \A c \in Calls, t \in tokens : t.id = call[c].via => t.consumed

GateInv ==
    /\ HarnessTypeOK
    /\ MintedOnce
    /\ RememberedAsMinted
    /\ RememberedOnce
    /\ SpentAsMinted
    /\ SpentIsConsumed
    /\ TokenSpentOnce
    /\ NoUnconfirmedRun

-----------------------------------------------------------------------------
(* Types.                                                                  *)

(* A call that was not made has consumed nothing; one that was made has an *)
(* action.                                                                 *)
LEMMA CallShape ==
    ASSUME HarnessTypeOK, NEW c \in Calls
    PROVE  /\ call[c].pc = "idle" => call[c] = NotCalled
           /\ call[c].pc # "idle" =>
                 call[c] \in [pc : Ran \cup Refused, action : Actions, via : Tokens \cup {NoToken}]
           /\ call[c].via \in Tokens \cup {NoToken}
           /\ call[c].via # NoToken => call[c].pc # "idle"
  <1>1. call[c] \in CallType
    BY DEF HarnessTypeOK
  <1> QED
    BY <1>1 DEF CallType, NotCalled, Ran, Refused

(* The subject of an action is one that tokens are issued for. *)
LEMMA SubjectType ==
    ASSUME NEW a \in Actions
    PROVE  Subject(a) \in SubjectSet
  BY DEF Actions, Subject, SubjectSet

LEMMA RecordType ==
    ASSUME HarnessTypeOK, NEW c \in Calls,
           NEW status \in {"success", "error"} \cup Refused, Record(c, status)
    PROVE  audit' \in Seq([call : Calls, status : {"success", "error"} \cup Refused])
  <1> DEFINE E == [call : Calls, status : {"success", "error"} \cup Refused]
  <1>1. audit \in Seq(E)
    BY DEF HarnessTypeOK
  <1>2. [call |-> c, status |-> status] \in E
    OBVIOUS
  <1>3. audit' = Append(audit, [call |-> c, status |-> status])
    BY DEF Record
  <1> HIDE DEF E
  <1>4. audit' \in Seq(E)
    BY <1>1, <1>2, <1>3
  <1> QED
    BY <1>4 DEF E

(* Each step keeps the types. *)
LEMMA TypeStep ==
    ASSUME HarnessTypeOK, [HarnessNext]_harnessVars
    PROVE  HarnessTypeOK'
  <1> USE HarnessAssumption
  <1>1. ASSUME NEW i \in Tokens, NEW s \in SubjectSet, NEW ttl \in Ttls, Issue(i, s, ttl)
        PROVE  HarnessTypeOK'
    <2> DEFINE e == IF ttl = Never THEN Never ELSE now + ttl
    <2>1. e \in Nat \cup {Never}
      BY DEF HarnessTypeOK, Never
    <2>2. /\ minted' = minted \cup {[id |-> i, subject |-> s, expires |-> e]}
          /\ tokens' = {t \in tokens : ~t.consumed /\ ~Expired(t)} \cup
                {[id |-> i, subject |-> s, expires |-> e, consumed |-> FALSE]}
          /\ UNCHANGED <<now, call, audit>>
      BY <1>1 DEF Issue
    <2> HIDE DEF e
    <2>3. minted' \subseteq MintType
      BY <2>1, <2>2 DEF HarnessTypeOK, MintType
    <2>4. tokens' \subseteq TokenType
      <3> DEFINE new == [id |-> i, subject |-> s, expires |-> e, consumed |-> FALSE]
      <3>1. new \in TokenType
        BY <2>1 DEF TokenType
      <3> HIDE DEF new
      <3>2. tokens' \subseteq tokens \cup {new}
        BY <2>2, Zenon DEF new
      <3>3. tokens \subseteq TokenType
        BY DEF HarnessTypeOK
      <3> QED
        BY <3>1, <3>2, <3>3
    <2> QED
      BY <2>2, <2>3, <2>4 DEF HarnessTypeOK
  <1>2. ASSUME NEW c \in Calls, NEW a \in Actions, NEW status \in Refused, Refuse(c, a, status)
        PROVE  HarnessTypeOK'
    <2>1. audit' \in Seq([call : Calls, status : {"success", "error"} \cup Refused])
      BY <1>2, RecordType DEF Refuse
    <2>2. call' \in [Calls -> CallType]
      BY <1>2 DEF Refuse, HarnessTypeOK, CallType
    <2> QED
      BY <1>2, <2>1, <2>2 DEF Refuse, HarnessTypeOK
  <1>3. ASSUME NEW c \in Calls, NEW a \in Actions, NEW i \in Tokens \cup {NoToken}, Run(c, a, i)
        PROVE  call' \in [Calls -> CallType]
    BY <1>3 DEF Run, HarnessTypeOK, CallType, Ran
  <1>4. ASSUME NEW c \in Calls, NEW a \in Actions, RunFreely(c, a)
        PROVE  HarnessTypeOK'
    BY <1>3, <1>4 DEF RunFreely, HarnessTypeOK
  <1>5. ASSUME NEW c \in Calls, NEW a \in Actions, NEW i \in Tokens \cup {NoToken},
               RunConfirmed(c, a, i)
        PROVE  HarnessTypeOK'
    <2>1. PICK t \in tokens : tokens' = (tokens \ {t}) \cup {Consumed(t)}
      BY <1>5 DEF RunConfirmed
    <2>2. tokens' \subseteq TokenType
      BY <2>1 DEF HarnessTypeOK, TokenType, Consumed
    <2> QED
      BY <1>3, <1>5, <2>2 DEF RunConfirmed, HarnessTypeOK
  <1>6. ASSUME NEW c \in Calls, NEW pc \in Ran, call[c].pc = "running",
               call' = [call EXCEPT ![c].pc = pc]
        PROVE  call' \in [Calls -> CallType]
    <2>1. call[c] \in [pc : Ran \cup Refused, action : Actions, via : Tokens \cup {NoToken}]
      BY <1>6, CallShape
    <2>2. [call[c] EXCEPT !.pc = pc] \in CallType
      BY <2>1 DEF CallType
    <2> QED
      BY <1>6, <2>2 DEF HarnessTypeOK
  <1>7. ASSUME NEW c \in Calls, NEW status \in {"success", "error"}, Finish(c, status)
        PROVE  HarnessTypeOK'
    <2>1. audit' \in Seq([call : Calls, status : {"success", "error"} \cup Refused])
      BY <1>7, RecordType DEF Finish
    <2>2. call' \in [Calls -> CallType]
      BY <1>6, <1>7 DEF Finish, Ran
    <2> QED
      BY <1>7, <2>1, <2>2 DEF Finish, HarnessTypeOK
  <1>8. ASSUME NEW c \in Calls, Cancel(c)
        PROVE  HarnessTypeOK'
    BY <1>6, <1>8 DEF Cancel, HarnessTypeOK, Ran
  <1>9. ASSUME NEW c \in Calls, CallNext(c)
        PROVE  HarnessTypeOK'
    BY <1>2, <1>4, <1>5, <1>7, <1>8, <1>9
       DEF CallNext, Denied, ConfirmationRequired, Refused
  <1>10. CASE Tick
    BY <1>10 DEF Tick, HarnessTypeOK
  <1>11. CASE UNCHANGED harnessVars
    BY <1>11 DEF harnessVars, HarnessTypeOK
  <1> QED
    BY <1>1, <1>9, <1>10, <1>11 DEF HarnessNext

-----------------------------------------------------------------------------
(* The invariant.                                                          *)

LEMMA InitInv == HarnessInit => GateInv
  <1> SUFFICES ASSUME HarnessInit PROVE GateInv
    OBVIOUS
  <1>1. \A c \in Calls : call[c] = NotCalled
    BY DEF HarnessInit
  <1>2. HarnessTypeOK
    BY DEF HarnessInit, HarnessTypeOK, CallType
  <1>3. SpentAsMinted /\ TokenSpentOnce /\ NoUnconfirmedRun
    BY <1>1 DEF SpentAsMinted, TokenSpentOnce, NoUnconfirmedRun, NotCalled, Ran
  <1> QED
    BY <1>2, <1>3
       DEF HarnessInit, GateInv, MintedOnce, RememberedAsMinted, RememberedOnce, SpentIsConsumed

(* issue: the new token has an id that no call and no token has; what is   *)
(* pruned was marked or is over, and no part of the invariant needs it.    *)
LEMMA IssueInv ==
    ASSUME GateInv, NEW i \in Tokens, NEW s \in SubjectSet, NEW ttl \in Ttls, Issue(i, s, ttl)
    PROVE  /\ MintedOnce' /\ RememberedAsMinted' /\ RememberedOnce'
           /\ SpentAsMinted' /\ SpentIsConsumed' /\ TokenSpentOnce' /\ NoUnconfirmedRun'
  <1> USE HarnessAssumption
  <1> DEFINE e == IF ttl = Never THEN Never ELSE now + ttl
             m0 == [id |-> i, subject |-> s, expires |-> e]
             t0 == [id |-> i, subject |-> s, expires |-> e, consumed |-> FALSE]
  <1>1. /\ \A m \in minted : m.id # i
        /\ minted' = minted \cup {m0}
        /\ tokens' = {t \in tokens : ~t.consumed /\ ~Expired(t)} \cup {t0}
        /\ call' = call
    BY DEF Issue
  <1>2. /\ m0.id = i /\ m0.subject = s /\ m0.expires = e
        /\ t0.id = i /\ t0.subject = s /\ t0.expires = e
    OBVIOUS
  <1> HIDE DEF e, m0, t0
  <1>3. tokens' \subseteq tokens \cup {t0} /\ minted \subseteq minted'
    BY <1>1, Zenon
  <1>4. \A t \in tokens : t.id # i
    BY <1>1 DEF GateInv, RememberedAsMinted
  <1>5. \A c \in Calls : call[c].via # i
    BY <1>1 DEF GateInv, SpentAsMinted
  <1>6. MintedOnce'
    BY <1>1, <1>2 DEF GateInv, MintedOnce
  <1>7. RememberedAsMinted'
    BY <1>1, <1>2, <1>3 DEF GateInv, RememberedAsMinted
  <1>8. RememberedOnce'
    BY <1>2, <1>3, <1>4 DEF GateInv, RememberedOnce
  <1>9. SpentAsMinted'
    BY <1>1, <1>3 DEF GateInv, SpentAsMinted
  <1>10. SpentIsConsumed'
    BY <1>1, <1>2, <1>3, <1>5, Zenon DEF GateInv, SpentIsConsumed
  <1>11. TokenSpentOnce'
    BY <1>1 DEF GateInv, TokenSpentOnce
  <1>12. NoUnconfirmedRun'
    BY <1>1, <1>3 DEF GateInv, NoUnconfirmedRun
  <1> QED
    BY <1>6, <1>7, <1>8, <1>9, <1>10, <1>11, <1>12

(* A call that goes from idle to a state with no token, or that only moves *)
(* on in its states, changes nothing about tokens.                         *)
LEMMA CallStepInv ==
    ASSUME GateInv, NEW c \in Calls, NEW r \in CallType,
           call' = [call EXCEPT ![c] = r], UNCHANGED <<minted, tokens>>,
           \/ r.via = NoToken
           \/ r.via = call[c].via /\ r.action = call[c].action,
           r.pc \in Ran =>
              /\ Allowed(r.action)
              /\ RequiresConfirmation(r.action) =>
                    \/ r.action.ui = "confirmed"
                    \/ \E m \in minted : m.id = r.via /\ m.subject = Subject(r.action)
    PROVE  /\ MintedOnce' /\ RememberedAsMinted' /\ RememberedOnce'
           /\ SpentAsMinted' /\ SpentIsConsumed' /\ TokenSpentOnce' /\ NoUnconfirmedRun'
  <1>1. call'[c] = r /\ \A d \in Calls : d # c => call'[d] = call[d]
    BY DEF GateInv, HarnessTypeOK
  <1>2. MintedOnce' /\ RememberedAsMinted' /\ RememberedOnce'
    BY DEF GateInv, MintedOnce, RememberedAsMinted, RememberedOnce
  <1>3. \A t \in tokens : t.id # NoToken
    BY HarnessAssumption DEF GateInv, HarnessTypeOK, TokenType
  <1>4. SpentAsMinted'
    BY <1>1 DEF GateInv, SpentAsMinted
  <1>5. SpentIsConsumed'
    <2>1. SUFFICES ASSUME NEW d \in Calls, NEW t \in tokens, t.id = call'[d].via
                   PROVE  t.consumed
      BY Zenon DEF SpentIsConsumed
    <2>2. t.id = call[d].via
      BY <1>1, <1>3, <2>1
    <2> QED
      BY <2>2, Zenon DEF GateInv, SpentIsConsumed
  <1>6. TokenSpentOnce'
    BY <1>1 DEF GateInv, TokenSpentOnce
  <1>7. NoUnconfirmedRun'
    BY <1>1 DEF GateInv, NoUnconfirmedRun
  <1> QED
    BY <1>2, <1>4, <1>5, <1>6, <1>7

(* consume: the token that is marked is the only one the gate has by that  *)
(* id, and as it was not marked no call has run with it.                   *)
LEMMA ConsumeInv ==
    ASSUME GateInv, NEW c \in Calls, NEW a \in Actions, NEW i \in Tokens \cup {NoToken},
           RunConfirmed(c, a, i)
    PROVE  /\ MintedOnce' /\ RememberedAsMinted' /\ RememberedOnce'
           /\ SpentAsMinted' /\ SpentIsConsumed' /\ TokenSpentOnce' /\ NoUnconfirmedRun'
  <1> DEFINE r == [pc |-> "running", action |-> a, via |-> i]
  <1>1. PICK t \in tokens : /\ Accepts(t, i, Subject(a))
                            /\ tokens' = (tokens \ {t}) \cup {Consumed(t)}
    BY DEF RunConfirmed
  <1>2. /\ Allowed(a) /\ minted' = minted
        /\ call'[c] = r /\ \A d \in Calls : d # c => call'[d] = call[d]
    BY DEF RunConfirmed, Run, GateInv, HarnessTypeOK
  <1>3. r.pc = "running" /\ r.action = a /\ r.via = i
    OBVIOUS
  <1> HIDE DEF r
  <1>4. t.id = i /\ ~t.consumed /\ t.subject = Subject(a) /\ t \in TokenType
    BY <1>1 DEF Accepts, GateInv, HarnessTypeOK
  <1> DEFINE tc == Consumed(t)
  <1>5. tc.id = t.id /\ tc.subject = t.subject /\ tc.expires = t.expires /\ tc.consumed
    BY <1>4 DEF Consumed, TokenType
  <1>6. tokens' = (tokens \ {t}) \cup {tc}
    BY <1>1
  <1> HIDE DEF tc
  <1>7. PICK m \in minted : m.id = i /\ m.subject = Subject(a)
    BY <1>4 DEF GateInv, RememberedAsMinted
  <1>8. \A d \in Calls : call[d].via # i
    BY <1>4, Zenon DEF GateInv, SpentIsConsumed
  <1>9. MintedOnce'
    BY <1>2 DEF GateInv, MintedOnce
  <1>10. RememberedAsMinted'
    BY <1>2, <1>5, <1>6 DEF GateInv, RememberedAsMinted
  <1>11. RememberedOnce'
    BY <1>5, <1>6 DEF GateInv, RememberedOnce
  <1>12. SpentAsMinted'
    BY <1>2, <1>3, <1>7 DEF GateInv, SpentAsMinted
  <1>13. SpentIsConsumed'
    <2>1. SUFFICES ASSUME NEW d \in Calls, NEW u \in tokens', u.id = call'[d].via
                   PROVE  u.consumed
      BY DEF SpentIsConsumed
    <2>2. CASE u = tc
      BY <2>2, <1>5
    <2>3. CASE u \in tokens /\ u # t
      <3>1. u.id # i
        BY <1>4, <2>3 DEF GateInv, RememberedOnce
      <3>2. d # c
        BY <3>1, <2>1, <1>2, <1>3
      <3> QED
        BY <3>2, <2>1, <2>3, <1>2, Zenon DEF GateInv, SpentIsConsumed
    <2> QED
      BY <2>2, <2>3, <1>6
  <1>14. TokenSpentOnce'
    BY <1>2, <1>3, <1>8 DEF GateInv, TokenSpentOnce
  <1>15. NoUnconfirmedRun'
    BY <1>2, <1>3, <1>7 DEF GateInv, NoUnconfirmedRun
  <1> QED
    BY <1>9, <1>10, <1>11, <1>12, <1>13, <1>14, <1>15

LEMMA StepInv ==
    ASSUME GateInv, [HarnessNext]_harnessVars
    PROVE  GateInv'
  <1> DEFINE Gate == /\ MintedOnce /\ RememberedAsMinted /\ RememberedOnce
                     /\ SpentAsMinted /\ SpentIsConsumed /\ TokenSpentOnce /\ NoUnconfirmedRun
  <1>1. HarnessTypeOK'
    BY TypeStep DEF GateInv
  <1>2. ASSUME NEW c \in Calls, NEW a \in Actions, NEW status \in Refused, Refuse(c, a, status)
        PROVE  Gate'
    <2> DEFINE r == [pc |-> status, action |-> a, via |-> NoToken]
    <2>1. r \in CallType /\ r.via = NoToken /\ r.pc \notin Ran
      BY DEF CallType, Ran, Refused
    <2>2. call' = [call EXCEPT ![c] = r] /\ UNCHANGED <<minted, tokens>>
      BY <1>2 DEF Refuse
    <2> HIDE DEF r
    <2> QED
      BY <2>1, <2>2, CallStepInv
  <1>3. ASSUME NEW c \in Calls, NEW a \in Actions, RunFreely(c, a)
        PROVE  Gate'
    <2> DEFINE r == [pc |-> "running", action |-> a, via |-> NoToken]
    <2>1. r \in CallType /\ r.via = NoToken /\ r.action = a
      BY DEF CallType, Ran
    <2>2. call' = [call EXCEPT ![c] = r] /\ UNCHANGED <<minted, tokens>>
      BY <1>3 DEF RunFreely, Run
    <2>3. Allowed(r.action) /\ (RequiresConfirmation(r.action) => r.action.ui = "confirmed")
      BY <1>3, <2>1 DEF RunFreely
    <2> HIDE DEF r
    <2> QED
      BY <2>1, <2>2, <2>3, CallStepInv
  <1>4. ASSUME NEW c \in Calls, NEW pc \in Ran, call[c].pc = "running",
               call' = [call EXCEPT ![c].pc = pc], UNCHANGED <<minted, tokens>>
        PROVE  Gate'
    <2> DEFINE r == [call[c] EXCEPT !.pc = pc]
    <2>1. call[c] \in [pc : Ran \cup Refused, action : Actions, via : Tokens \cup {NoToken}]
      BY <1>4, CallShape DEF GateInv
    <2>2. r \in CallType /\ r.via = call[c].via /\ r.action = call[c].action
      BY <2>1 DEF CallType
    <2>3. call' = [call EXCEPT ![c] = r]
      BY <1>4
    <2>4. call[c].pc \in Ran
      BY <1>4 DEF Ran
    <2> HIDE DEF r
    <2>5. /\ Allowed(r.action)
          /\ RequiresConfirmation(r.action) =>
                \/ r.action.ui = "confirmed"
                \/ \E m \in minted : m.id = r.via /\ m.subject = Subject(r.action)
      BY <2>2, <2>4 DEF GateInv, NoUnconfirmedRun
    <2> QED
      BY <1>4, <2>2, <2>3, <2>5, CallStepInv
  <1>5. ASSUME NEW c \in Calls, CallNext(c)
        PROVE  Gate'
    <2>1. CASE \E a \in Actions : Denied(c, a)
      BY <2>1, <1>2 DEF Denied, Refused
    <2>2. CASE \E a \in Actions : RunFreely(c, a)
      BY <2>2, <1>3
    <2>3. CASE \E a \in Actions, i \in Tokens \cup {NoToken} : RunConfirmed(c, a, i)
      BY <2>3, ConsumeInv
    <2>4. CASE \E a \in Actions, i \in Tokens \cup {NoToken} : ConfirmationRequired(c, a, i)
      BY <2>4, <1>2 DEF ConfirmationRequired, Refused
    <2>5. CASE \E status \in {"success", "error"} : Finish(c, status)
      BY <2>5, <1>4 DEF Finish, Ran
    <2>6. CASE Cancel(c)
      BY <2>6, <1>4 DEF Cancel, Ran
    <2> QED
      BY <1>5, <2>1, <2>2, <2>3, <2>4, <2>5, <2>6, Zenon DEF CallNext
  <1>6. ASSUME \E i \in Tokens, s \in SubjectSet, ttl \in Ttls : Issue(i, s, ttl)
        PROVE  Gate'
    BY <1>6, IssueInv
  <1>7. ASSUME UNCHANGED <<minted, tokens, call>>
        PROVE  Gate'
    BY <1>7 DEF GateInv, MintedOnce, RememberedAsMinted, RememberedOnce,
                SpentAsMinted, SpentIsConsumed, TokenSpentOnce, NoUnconfirmedRun
  <1>8. Gate'
    BY <1>5, <1>6, <1>7 DEF HarnessNext, harnessVars, Tick
  <1> QED
    BY <1>1, <1>8 DEF GateInv

LEMMA GateInvariant == HarnessSpec => []GateInv
  BY InitInv, StepInv, PTL DEF HarnessSpec

(* The types of the harness's state are kept (service.py, confirmation.py).*)
THEOREM HarnessTypeCorrect == HarnessSpec => []HarnessTypeOK
  BY GateInvariant, PTL DEF GateInv

(* For any policy and any number of concurrent calls, an action that       *)
(* requires a confirmation runs only with one that was given for it        *)
(* (_preflight_result, ConfirmationGate.consume).                          *)
THEOREM HarnessConfirms == HarnessSpec => []NoUnconfirmedRun
  BY GateInvariant, PTL DEF GateInv

(* A confirmation token lets at most one call run, even after _prune made  *)
(* the gate forget it (ConfirmationGate.consume).                          *)
THEOREM HarnessSpendsOnce == HarnessSpec => []TokenSpentOnce
  BY GateInvariant, PTL DEF GateInv

-----------------------------------------------------------------------------
(* Refinement.                                                             *)

(* A step that moves a call without giving it a token leaves Spent alone.  *)
LEMMA SpentKept ==
    ASSUME HarnessTypeOK, NEW c \in Calls, NEW r \in CallType, call' = [call EXCEPT ![c] = r],
           \/ r.via = NoToken /\ call[c].via = NoToken
           \/ r.via = call[c].via /\ r.action = call[c].action
    PROVE  Spent' = Spent
  <1>1. call'[c] = r /\ \A d \in Calls : d # c => call'[d] = call[d]
    BY DEF HarnessTypeOK
  <1>2. \A d \in Calls : /\ call'[d].via = call[d].via
                         /\ call[d].via # NoToken => call'[d].action = call[d].action
    BY <1>1
  <1> QED
    BY <1>2 DEF Spent

(* Every step of the harness is a step of Permits or leaves it unchanged.  *)
LEMMA PermitStep ==
    ASSUME GateInv, [HarnessNext]_harnessVars
    PROVE  [P!PermitsNext]_(P!permitVars)
  <1> USE HarnessAssumption
  <1> DEFINE Same == UNCHANGED <<Granted, Ended, Spent>>
  <1>0. Same => UNCHANGED P!permitVars
    BY DEF P!permitVars
  <1>1. UNCHANGED <<minted, now>> => UNCHANGED <<Granted, Ended>>
    BY DEF Granted, Ended, Expired
  <1>2. ASSUME NEW c \in Calls, NEW a \in Actions, NEW status, call[c].pc = "idle",
               Refuse(c, a, status), status \in Refused
        PROVE  Same
    <2> DEFINE r == [pc |-> status, action |-> a, via |-> NoToken]
    <2>1. r \in CallType /\ r.via = NoToken
      BY <1>2 DEF CallType
    <2>2. call[c].via = NoToken
      BY <1>2, CallShape DEF GateInv, NotCalled
    <2>3. call' = [call EXCEPT ![c] = r] /\ UNCHANGED <<minted, now>>
      BY <1>2 DEF Refuse
    <2> HIDE DEF r
    <2> QED
      BY <1>1, <2>1, <2>2, <2>3, SpentKept DEF GateInv
  <1>3. ASSUME NEW c \in Calls, NEW a \in Actions, RunFreely(c, a)
        PROVE  Same
    <2> DEFINE r == [pc |-> "running", action |-> a, via |-> NoToken]
    <2>1. r \in CallType /\ r.via = NoToken
      BY DEF CallType, Ran
    <2>2. call[c].via = NoToken
      BY <1>3, CallShape DEF RunFreely, GateInv, NotCalled
    <2>3. call' = [call EXCEPT ![c] = r] /\ UNCHANGED <<minted, now>>
      BY <1>3 DEF RunFreely, Run
    <2> HIDE DEF r
    <2> QED
      BY <1>1, <2>1, <2>2, <2>3, SpentKept DEF GateInv
  <1>4. ASSUME NEW c \in Calls, NEW pc \in Ran, call[c].pc = "running",
               call' = [call EXCEPT ![c].pc = pc], UNCHANGED <<minted, now>>
        PROVE  Same
    <2> DEFINE r == [call[c] EXCEPT !.pc = pc]
    <2>1. call[c] \in [pc : Ran \cup Refused, action : Actions, via : Tokens \cup {NoToken}]
      BY <1>4, CallShape DEF GateInv
    <2>2. r \in CallType /\ r.via = call[c].via /\ r.action = call[c].action
      BY <2>1 DEF CallType
    <2>3. call' = [call EXCEPT ![c] = r]
      BY <1>4
    <2> HIDE DEF r
    <2> QED
      BY <1>1, <1>4, <2>2, <2>3, SpentKept DEF GateInv
  <1>5. ASSUME NEW c \in Calls, NEW a \in Actions, NEW i \in Tokens \cup {NoToken},
               RunConfirmed(c, a, i)
        PROVE  P!PermitsNext
    <2> DEFINE r == [pc |-> "running", action |-> a, via |-> i]
               x == [id |-> i, holder |-> c, subject |-> Subject(a)]
    <2>1. PICK t \in tokens : Accepts(t, i, Subject(a))
      BY <1>5 DEF RunConfirmed
    <2>2. PICK m \in minted : m.id = i /\ m.subject = Subject(a) /\ m.expires = t.expires
      BY <2>1 DEF Accepts, GateInv, RememberedAsMinted
    <2>3. ~Expired(m)
      BY <2>1, <2>2 DEF Accepts, Expired
    <2>4. i \notin Ended
      BY <2>2, <2>3 DEF Ended, GateInv, MintedOnce
    <2>5. i # NoToken
      BY <2>1 DEF Accepts, GateInv, HarnessTypeOK, TokenType
    <2>6. call[c].via = NoToken
      BY <1>5, CallShape DEF RunConfirmed, GateInv, NotCalled
    <2>7. \A d \in Calls : call[d].via # i
      BY <2>1, Zenon DEF Accepts, GateInv, SpentIsConsumed
    <2>8. \A y \in Spent : y.id # i /\ y.holder # c
      BY <2>6, <2>7 DEF Spent
    <2>9. /\ r.via = i /\ r.action = a
          /\ call'[c] = r /\ \A d \in Calls : d # c => call'[d] = call[d]
      BY <1>5 DEF RunConfirmed, Run, GateInv, HarnessTypeOK
    <2> HIDE DEF r
    <2>10. Spent' = Spent \cup {x}
      BY <2>5, <2>6, <2>9 DEF Spent
    <2>11. UNCHANGED <<Granted, Ended>>
      BY <1>1, <1>5 DEF RunConfirmed
    <2>12. \E p \in Granted : p.id = i /\ p.subject = Subject(a)
      <3> DEFINE p == [id |-> m.id, subject |-> m.subject]
      <3>1. p \in Granted /\ p.id = i /\ p.subject = Subject(a)
        BY <2>2 DEF Granted
      <3> QED
        BY <3>1
    <2>13. P!Spend(i, c, Subject(a))
      BY <2>4, <2>8, <2>10, <2>11, <2>12 DEF P!Spend
    <2>14. x \in Spent' /\ x.id = i /\ x.holder = c /\ x.subject = Subject(a)
      BY <2>10
    <2> QED
      BY <2>13, <2>14 DEF P!PermitsNext
  <1>6. ASSUME NEW i \in Tokens, NEW s \in SubjectSet, NEW ttl \in Ttls, Issue(i, s, ttl)
        PROVE  P!PermitsNext
    <2> DEFINE e == IF ttl = Never THEN Never ELSE now + ttl
               m0 == [id |-> i, subject |-> s, expires |-> e]
               p == [id |-> i, subject |-> s]
    <2>1. /\ \A m \in minted : m.id # i
          /\ minted' = minted \cup {m0} /\ now' = now /\ call' = call
      BY <1>6 DEF Issue
    <2>2. ~Expired(m0)
      BY DEF Expired, Never, GateInv, HarnessTypeOK
    <2>3. m0.id = i /\ m0.subject = s
      OBVIOUS
    <2> HIDE DEF m0, e
    <2>4. Granted' = Granted \cup {p}
      BY <2>1, <2>3 DEF Granted
    <2>5. Ended' = Ended
      BY <2>1, <2>2 DEF Ended, Expired
    <2>6. Spent' = Spent
      BY <2>1 DEF Spent
    <2>7. \A q \in Granted : q.id # i
      BY <2>1 DEF Granted
    <2>8. \A x \in Spent : x.id # i
      BY <2>1 DEF Spent, GateInv, SpentAsMinted
    <2>9. P!Grant(p)
      BY <2>4, <2>5, <2>6, <2>7, <2>8 DEF P!Grant
    <2> QED
      BY <2>4, <2>9 DEF P!PermitsNext
  <1>7. CASE Tick
    <2>1. Granted' = Granted /\ Spent' = Spent
      BY <1>7 DEF Tick, Granted, Spent
    <2>2. \A m \in minted : m.expires \in Nat \cup {Never}
      BY DEF GateInv, HarnessTypeOK, MintType
    <2>3. now \in Nat /\ now' = now + 1 /\ minted' = minted
      BY <1>7 DEF Tick, GateInv, HarnessTypeOK
    <2>4. Ended \subseteq Ended'
      BY <2>2, <2>3 DEF Ended, Expired, Never
    <2> QED
      BY <2>1, <2>4 DEF P!PermitsNext, P!End
  <1>8. ASSUME NEW c \in Calls, CallNext(c)
        PROVE  P!PermitsNext \/ Same
    <2>1. CASE \E a \in Actions : Denied(c, a)
      BY <2>1, <1>2 DEF Denied, Refused
    <2>2. CASE \E a \in Actions : RunFreely(c, a)
      BY <2>2, <1>3
    <2>3. CASE \E a \in Actions, i \in Tokens \cup {NoToken} : RunConfirmed(c, a, i)
      BY <2>3, <1>5
    <2>4. CASE \E a \in Actions, i \in Tokens \cup {NoToken} : ConfirmationRequired(c, a, i)
      BY <2>4, <1>2 DEF ConfirmationRequired, Refused
    <2>5. CASE \E status \in {"success", "error"} : Finish(c, status)
      BY <2>5, <1>4 DEF Finish, Ran
    <2>6. CASE Cancel(c)
      BY <2>6, <1>4 DEF Cancel, Ran
    <2> QED
      BY <1>8, <2>1, <2>2, <2>3, <2>4, <2>5, <2>6, Zenon DEF CallNext
  <1>9. CASE UNCHANGED harnessVars
    BY <1>9, <1>1 DEF harnessVars, Spent, Granted, Ended, P!permitVars
  <1> QED
    BY <1>0, <1>6, <1>7, <1>8, <1>9 DEF HarnessNext

(* The confirmation gate, which forgets tokens, implements permits that    *)
(* are spent once and never forgotten (ConfirmationGate).                  *)
THEOREM GateImplementsPermits == HarnessSpec => ImplementsPermits
  <1>1. HarnessInit => P!PermitsInit
    BY DEF HarnessInit, NotCalled, P!PermitsInit, Granted, Ended, Spent
  <1> QED
    BY <1>1, PermitStep, GateInvariant, PTL
       DEF HarnessSpec, ImplementsPermits, P!PermitsSpec

-----------------------------------------------------------------------------
(* The audit.                                                              *)

(* The audit events of a call. *)
AuditOf(c) == {n \in 1 .. Len(audit) : audit[n].call = c}

AuditedOnce(c) ==
    IF call[c].pc \in {"idle", "running", "cancelled"} THEN AuditOf(c) = {}
    ELSE \E n \in AuditOf(c) : AuditOf(c) = {n} /\ audit[n].status = call[c].pc

LEMMA AuditedSplit == EveryReturnAudited <=> \A c \in Calls : AuditedOnce(c)
  BY DEF EveryReturnAudited, AuditedOnce, AuditOf

(* Nothing is recorded of a call that starts to run or is cancelled. *)
LEMMA Unrecorded ==
    ASSUME HarnessTypeOK, EveryReturnAudited, audit' = audit, NEW c \in Calls,
           call[c].pc \in {"idle", "running"}, call'[c].pc \in {"running", "cancelled"},
           \A d \in Calls : d # c => call'[d] = call[d]
    PROVE  EveryReturnAudited'
  <1>1. \A d \in Calls : AuditedOnce(d)
    BY AuditedSplit
  <1>3. \A d \in Calls : AuditedOnce(d)'
    BY <1>1 DEF AuditedOnce, AuditOf
  <1> QED
    BY <1>3 DEF EveryReturnAudited, AuditedOnce, AuditOf

(* A call that returns had no event and has one now. *)
LEMMA Recorded ==
    ASSUME HarnessTypeOK, EveryReturnAudited, NEW c \in Calls,
           NEW status \in {"success", "error"} \cup Refused, Record(c, status),
           call[c].pc \in {"idle", "running"}, NEW x, x.pc = status,
           call' = [call EXCEPT ![c] = x]
    PROVE  EveryReturnAudited'
  <1> DEFINE E == [call : Calls, status : {"success", "error"} \cup Refused]
  <1>0. PICK e : e = [call |-> c, status |-> status]
    OBVIOUS
  <1>1. audit \in Seq(E) /\ e \in E /\ e.call = c /\ e.status = status
    BY <1>0 DEF HarnessTypeOK
  <1>2. audit' = Append(audit, e)
    BY <1>0 DEF Record
  <1> HIDE DEF E
  <1>3. /\ Len(audit) \in Nat /\ Len(audit') = Len(audit) + 1
        /\ \A n \in 1 .. Len(audit) : audit'[n] = audit[n]
        /\ audit'[Len(audit) + 1] = e
    BY <1>1, <1>2, AppendProperties, LenProperties
  <1>4. \A d \in Calls : AuditedOnce(d)
    BY AuditedSplit
  <1>5. call'[c].pc = status /\ \A d \in Calls : d # c => call'[d] = call[d]
    BY DEF HarnessTypeOK
  <1>6. \A d \in Calls : AuditOf(d)' = IF d = c THEN AuditOf(d) \cup {Len(audit) + 1} ELSE AuditOf(d)
    BY <1>1, <1>3 DEF AuditOf
  <1>7. AuditedOnce(c)'
    <2>1. AuditOf(c)' = {Len(audit) + 1}
      BY <1>4, <1>6 DEF AuditedOnce
    <2>2. status \notin {"idle", "running", "cancelled"}
      BY DEF Refused
    <2> QED
      BY <1>1, <1>3, <1>5, <2>1, <2>2 DEF AuditedOnce
  <1>8. ASSUME NEW d \in Calls, d # c PROVE AuditedOnce(d)'
    <2>1. AuditOf(d)' = AuditOf(d) /\ call'[d] = call[d] /\ AuditedOnce(d)
      BY <1>4, <1>5, <1>6, <1>8
    <2>2. \A n \in AuditOf(d) : audit'[n] = audit[n]
      BY <1>3 DEF AuditOf
    <2> QED
      BY <2>1, <2>2 DEF AuditedOnce
  <1>9. \A d \in Calls : AuditedOnce(d)'
    BY <1>7, <1>8
  <1> QED
    BY <1>9 DEF EveryReturnAudited, AuditedOnce, AuditOf

LEMMA AuditStep ==
    ASSUME HarnessTypeOK, EveryReturnAudited, [HarnessNext]_harnessVars
    PROVE  EveryReturnAudited'
  <1>1. CASE UNCHANGED <<call, audit>>
    BY <1>1 DEF EveryReturnAudited
  <1>2. ASSUME NEW c \in Calls, CallNext(c) PROVE EveryReturnAudited'
    <2>0. call[c].pc # "idle" =>
             call[c] \in [pc : Ran \cup Refused, action : Actions, via : Tokens \cup {NoToken}]
      BY CallShape
    <2>1. ASSUME NEW a \in Actions, NEW status \in Refused, call[c].pc = "idle", Refuse(c, a, status)
          PROVE  EveryReturnAudited'
      BY <2>1, Recorded DEF Refuse
    <2>2. ASSUME NEW a \in Actions, NEW i, call[c].pc = "idle", Run(c, a, i), UNCHANGED audit
          PROVE  EveryReturnAudited'
      <3>1. PICK x : x = [pc |-> "running", action |-> a, via |-> i]
        OBVIOUS
      <3>2. x.pc \in {"running", "cancelled"} /\ call[c].pc \in {"idle", "running"}
        BY <2>2, <3>1
      <3>3. call'[c] = x /\ audit' = audit /\ \A d \in Calls : d # c => call'[d] = call[d]
        BY <2>2, <3>1 DEF Run, HarnessTypeOK
      <3> QED
        BY <3>2, <3>3, Unrecorded
    <2>3. ASSUME NEW status \in {"success", "error"}, Finish(c, status)
          PROVE  EveryReturnAudited'
      <3>1. PICK x : x = [call[c] EXCEPT !.pc = status]
        OBVIOUS
      <3>2. x.pc = status /\ call[c].pc = "running"
        BY <2>0, <2>3, <3>1 DEF Finish
      <3> QED
        BY <2>3, <3>1, <3>2, Recorded DEF Finish
    <2>4. CASE Cancel(c)
      <3>1. PICK x : x = [call[c] EXCEPT !.pc = "cancelled"]
        OBVIOUS
      <3>2. x.pc \in {"running", "cancelled"} /\ call[c].pc \in {"idle", "running"}
        BY <2>0, <2>4, <3>1 DEF Cancel
      <3>3. call'[c] = x /\ audit' = audit /\ \A d \in Calls : d # c => call'[d] = call[d]
        BY <2>4, <3>1 DEF Cancel, HarnessTypeOK
      <3> QED
        BY <3>2, <3>3, Unrecorded
    <2> QED
      BY <1>2, <2>1, <2>2, <2>3, <2>4
      DEF CallNext, Denied, RunFreely, RunConfirmed, ConfirmationRequired, Refused
  <1> QED
    BY <1>1, <1>2 DEF HarnessNext, Issue, Tick, harnessVars

(* Every call that returns leaves one audit event, with its own status, in *)
(* whatever order calls end, and a call under way leaves none              *)
(* (_record_result).                                                       *)
THEOREM HarnessAudits == HarnessSpec => []EveryReturnAudited
  <1>1. HarnessInit => EveryReturnAudited
    BY DEF HarnessInit, EveryReturnAudited, NotCalled
  <1>2. GateInv => HarnessTypeOK
    BY DEF GateInv
  <1>3. HarnessTypeOK /\ EveryReturnAudited /\ [HarnessNext]_harnessVars => EveryReturnAudited'
    BY AuditStep
  <1> QED
    BY <1>1, <1>2, <1>3, GateInvariant, PTL DEF HarnessSpec
=============================================================================
