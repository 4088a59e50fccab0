------------------------------ MODULE Permits ------------------------------
(***************************************************************************)
(* What a confirmation promises: a permit is granted for one subject, ends *)
(* at some time, and is spent at most once, by a holder that wants to do   *)
(* what the permit was granted for.  Nothing is ever forgotten.  The gate  *)
(* of the execution harness, which forgets, implements this (see Harness). *)
(***************************************************************************)
CONSTANTS PermitHolders, PermitSubjects

VARIABLES
    granted, \* the permits: [id, subject]
    ended,   \* ids of permits whose time is over
    spent    \* who spent what, on what: [id, holder, subject]

permitVars == <<granted, ended, spent>>

Grant(p) ==
    /\ p.subject \in PermitSubjects
    /\ \A q \in granted : q.id # p.id
    /\ \A x \in spent : x.id # p.id
    /\ granted' = granted \cup {p}
    /\ UNCHANGED <<ended, spent>>

End ==
    /\ ended \subseteq ended'
    /\ UNCHANGED <<granted, spent>>

Spend(i, h, s) ==
    /\ h \in PermitHolders
    /\ \E p \in granted : p.id = i /\ p.subject = s
    /\ i \notin ended
    /\ \A x \in spent : x.id # i /\ x.holder # h
    /\ spent' = spent \cup {[id |-> i, holder |-> h, subject |-> s]}
    /\ UNCHANGED <<granted, ended>>

PermitsInit == granted = {} /\ ended = {} /\ spent = {}

PermitsNext ==
    \/ \E p \in granted' : Grant(p)
    \/ End
    \/ \E x \in spent' : Spend(x.id, x.holder, x.subject)

PermitsSpec == PermitsInit /\ [][PermitsNext]_permitVars
=============================================================================
