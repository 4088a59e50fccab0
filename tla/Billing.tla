------------------------------- MODULE Billing -------------------------------
(***************************************************************************)
(* Buying credits: enterprise/server/routes/billing.py over Stripe, the    *)
(* table of billing sessions and the budgets of the teams in LiteLLM       *)
(* (storage/lite_llm_manager.py).  Every checkout buys one unit.           *)
(*                                                                         *)
(* The browser is redirected to the success callback and may ask for it    *)
(* again; the callback reads the row and the budget, writes the budget and *)
(* commits the row in separate steps, without a lock.                      *)
(***************************************************************************)
EXTENDS Integers, FiniteSets

CONSTANTS
    Checkouts,   \* Stripe checkout sessions
    Teams,       \* the organizations of the user
    Personal,    \* the one that is current at first
    Callbacks,   \* concurrent callbacks
    MaxCredits   \* bound: callbacks that raise a budget

ASSUME BillingAssumption ==
    /\ MaxCredits \in Nat /\ Personal \in Teams
    /\ IsFiniteSet(Checkouts) /\ IsFiniteSet(Teams)

VARIABLES
    stripe,   \* the state of a checkout at Stripe
    bill,     \* the billing sessions: status, and the team they were made for
    selected, \* current_org_id of the user
    budget,   \* max_budget of the teams
    callback, \* the callbacks under way
    credits,  \* how often each checkout raised a budget
    muddled   \* whether two callbacks overlapped, one failed after raising a budget,
              \* or one took a budget it could not read for zero

billingVars == <<stripe, bill, selected, budget, callback, credits, muddled>>

NoBill == [status |-> "absent"]
NoCallback == [pc |-> "idle"]

(* The units that f gives to the members of S, one by one; how many. *)
Units(f, S) == UNION {{x} \X (1 .. f[x]) : x \in S}
Sum(f, S) == Cardinality(Units(f, S))

-----------------------------------------------------------------------------
(* create_checkout_session: the session at Stripe, then the row. *)
CreateCheckout(k) ==
    /\ stripe[k] = "none"
    /\ stripe' = [stripe EXCEPT ![k] = "open"]
    /\ UNCHANGED <<bill, selected, budget, callback, credits, muddled>>

StoreBill(k) ==
    /\ stripe[k] = "open" /\ bill[k] = NoBill
    /\ bill' = [bill EXCEPT ![k] = [status |-> "in_progress", team |-> selected]]
    /\ UNCHANGED <<stripe, selected, budget, callback, credits, muddled>>

(* The user pays at Stripe. *)
Pay(k) ==
    /\ stripe[k] = "open" /\ bill[k] # NoBill
    /\ stripe' = [stripe EXCEPT ![k] = "complete"]
    /\ UNCHANGED <<bill, selected, budget, callback, credits, muddled>>

(* The user works in another organization. *)
SelectTeam(t) ==
    /\ t # selected
    /\ selected' = t
    /\ UNCHANGED <<stripe, bill, budget, callback, credits, muddled>>

-----------------------------------------------------------------------------
(* success_callback *)

OtherCallbacks(r) == \E q \in Callbacks \ {r} : callback[q] # NoCallback

(* Faulty variant: the status of the row is not part of the query. *)
SuccessOfAnyBill(r, k) ==
    /\ callback[r] = NoCallback
    /\ bill[k] # NoBill /\ stripe[k] = "complete"
    /\ callback' = [callback EXCEPT ![r] = [pc |-> "read", checkout |-> k]]
    /\ muddled' = (muddled \/ OtherCallbacks(r))
    /\ UNCHANGED <<stripe, bill, selected, budget, credits>>

(* The row must be in progress, and Stripe's session complete. *)
Success(r, k) ==
    /\ callback[r] = NoCallback
    /\ bill[k].status = "in_progress" /\ stripe[k] = "complete"
    /\ callback' = [callback EXCEPT ![r] = [pc |-> "read", checkout |-> k]]
    /\ muddled' = (muddled \/ OtherCallbacks(r))
    /\ UNCHANGED <<stripe, bill, selected, budget, credits>>

(* The budget of the team that is the user's current one NOW.  When the    *)
(* team, or the user's membership of it, is missing in LiteLLM the budget  *)
(* reads zero, and the credits that are there will be overwritten.         *)
ReadBudget(r) ==
    /\ callback[r].pc = "read"
    /\ \E found \in {0, budget[selected]} :
          /\ callback' = [callback EXCEPT ![r] =
                [pc |-> "raise", checkout |-> callback[r].checkout, team |-> selected,
                 new |-> found + 1]]
          /\ muddled' = (muddled \/ found # budget[selected])
    /\ UNCHANGED <<stripe, bill, selected, budget, credits>>

(* update_team_and_users_budget *)
RaiseBudget(r) ==
    /\ callback[r].pc = "raise" /\ Sum(credits, Checkouts) < MaxCredits
    /\ budget' = [budget EXCEPT ![callback[r].team] = callback[r].new]
    /\ credits' = [credits EXCEPT ![callback[r].checkout] = @ + 1]
    /\ callback' = [callback EXCEPT ![r].pc = "commit"]
    /\ UNCHANGED <<stripe, bill, selected, muddled>>

(* The user is gone, LiteLLM fails, before or after the team has its new   *)
(* budget, or the database does: the row keeps its status.                 *)
CallbackFails(r) ==
    /\ callback[r].pc \in {"read", "raise", "commit"}
    /\ callback' = [callback EXCEPT ![r] = NoCallback]
    /\ muddled' = (muddled \/ callback[r].pc = "commit")
    /\ UNCHANGED <<stripe, bill, selected, budget, credits>>

Complete(r) ==
    /\ callback[r].pc = "commit"
    /\ bill' = [bill EXCEPT ![callback[r].checkout].status = "completed"]
    /\ callback' = [callback EXCEPT ![r] = NoCallback]
    /\ UNCHANGED <<stripe, selected, budget, credits, muddled>>

-----------------------------------------------------------------------------
(* cancel_callback: reads a row in progress, then writes it. *)

CancelCheckout(r, k) ==
    /\ callback[r] = NoCallback /\ bill[k].status = "in_progress"
    /\ callback' = [callback EXCEPT ![r] = [pc |-> "cancel", checkout |-> k]]
    /\ muddled' = (muddled \/ OtherCallbacks(r))
    /\ UNCHANGED <<stripe, bill, selected, budget, credits>>

CommitCancel(r) ==
    /\ callback[r].pc = "cancel"
    /\ bill' = [bill EXCEPT ![callback[r].checkout].status = "cancelled"]
    /\ callback' = [callback EXCEPT ![r] = NoCallback]
    /\ UNCHANGED <<stripe, selected, budget, credits, muddled>>

-----------------------------------------------------------------------------
BillingInit ==
    /\ stripe = [k \in Checkouts |-> "none"]
    /\ bill = [k \in Checkouts |-> NoBill]
    /\ selected = Personal
    /\ budget = [t \in Teams |-> 0]
    /\ callback = [r \in Callbacks |-> NoCallback]
    /\ credits = [k \in Checkouts |-> 0]
    /\ muddled = FALSE

BillingNext ==
    \/ \E k \in Checkouts : CreateCheckout(k) \/ StoreBill(k) \/ Pay(k)
    \/ \E t \in Teams : SelectTeam(t)
    \/ \E r \in Callbacks :
          \/ \E k \in Checkouts : Success(r, k) \/ CancelCheckout(r, k)
          \/ ReadBudget(r) \/ RaiseBudget(r) \/ CallbackFails(r) \/ Complete(r) \/ CommitCancel(r)

BillingSpec == BillingInit /\ [][BillingNext]_billingVars

-----------------------------------------------------------------------------
(* Properties.                                                             *)

BillType == {NoBill} \cup [status : {"in_progress", "completed", "cancelled"}, team : Teams]

CallbackType ==
    {NoCallback} \cup [pc : {"read", "cancel"}, checkout : Checkouts] \cup
    [pc : {"raise", "commit"}, checkout : Checkouts, team : Teams,
     new : 1 .. Sum(credits, Checkouts) + 1]

(* The type invariant.  No callback is about to write more than one unit   *)
(* beyond what was credited.                                               *)
BillingTypeOK ==
    /\ stripe \in [Checkouts -> {"none", "open", "complete"}]
    /\ bill \in [Checkouts -> BillType]
    /\ selected \in Teams /\ muddled \in BOOLEAN
    /\ budget \in [Teams -> 0 .. MaxCredits]
    /\ credits \in [Checkouts -> 0 .. MaxCredits]
    /\ callback \in [Callbacks -> CallbackType]

(* Credits are never made up: the budgets together never exceed the        *)
(* credits given, however stale the budget a callback writes back, and a   *)
(* checkout that was credited, or is completed, was paid for.  A checkout  *)
(* may be credited more than once: by callbacks that overlap, or again     *)
(* after one that failed.                                                  *)
CreditsArePaid ==
    /\ Sum(budget, Teams) <= Sum(credits, Checkouts)
    /\ \A k \in Checkouts :
          /\ credits[k] > 0 => stripe[k] = "complete"
          /\ bill[k] # NoBill /\ bill[k].status = "completed" => credits[k] > 0

(* The books are exact as long as no two callbacks overlapped, none failed *)
(* after the budget was raised and each could read the budget it raised:   *)
(* the completed checkouts, and the one about to be, were credited once,   *)
(* no other one was, and the budgets are the sum of the credits.  Whoever  *)
(* pays after the session was cancelled is never credited.                 *)
SerialIsExact ==
    ~muddled =>
        /\ Sum(budget, Teams) = Sum(credits, Checkouts)
        /\ \A k \in Checkouts : credits[k] =
              IF \/ bill[k] # NoBill /\ bill[k].status = "completed"
                 \/ \E r \in Callbacks : callback[r].pc = "commit" /\ callback[r].checkout = k
              THEN 1 ELSE 0

(* The books balance: the budgets hold nothing that was not paid for; and  *)
(* while callbacks come one after another, do not fail half-way and find   *)
(* the team, they hold exactly the completed checkouts.                    *)
BooksBalance == CreditsArePaid /\ SerialIsExact
=============================================================================
