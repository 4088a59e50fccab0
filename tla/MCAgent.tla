------------------------------ MODULE MCAgent ------------------------------
(***************************************************************************)
(* The agent controller, model-checked in two settings, told apart by      *)
(* setting: delegation under limits (the constants of the configuration),  *)
(* and commands that ask for confirmation (the instance Confirm).  They    *)
(* differ in their constants only, so that the properties, which are those *)
(* of AgentController, are about both.                                     *)
(***************************************************************************)
EXTENDS AgentController

VARIABLE setting

(* Confirmation mode: repeated answers, stops, messages, raising actions.  *)
Confirm == INSTANCE AgentController WITH
    ConfirmationMode <- TRUE,
    Outcomes <- {"run", "ask", "wait"},
    UserInputs <- {"message", "stop", "confirm", "refuse"},
    InitialLimit <- 2, InitialBudget <- 0, MayGetStuck <- FALSE

Stopped == \E i \in 1 .. Len(stream') : IsChange(stream'[i], "STOPPED")
Wrote   == \E i \in 2 .. Len(stream') : FromUser(stream'[i])

(* A second input, when an action raises, only of a user who stops the     *)
(* agent; a third one, when none does, only of one who does nothing but    *)
(* answer.                                                                 *)
ConfirmNext ==
    /\ Confirm!Next
    /\ inputs' <= 1 \/ faults' = 0 \/ Stopped
    /\ inputs' <= 2 \/ (faults' = 0 /\ ~Stopped /\ ~Wrote)

(* Parent and delegate share an iteration limit and a budget.  One input   *)
(* of the user, to start the agent, during an LLM call or while there is a *)
(* delegate, and no action that raises keep this setting small.            *)
DelegateNext ==
    /\ Next
    /\ inputs' <= 1 /\ faults' = 0
    /\ inputs' = inputs \/ stream[1].k = "change" \/ stepping # "none" \/ delegated

AgentInit == \/ setting = "confirm" /\ Confirm!Init
             \/ setting = "delegate" /\ Init

AgentNext == /\ \/ setting = "confirm" /\ ConfirmNext
                \/ setting = "delegate" /\ DelegateNext
             /\ UNCHANGED setting

AgentSpec == AgentInit /\ [][AgentNext]_<<setting, vars>>
=============================================================================
