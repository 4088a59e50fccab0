SPECIFICATION Spec
CONSTANTS
    ConfirmationMode = TRUE
    Outcomes = {"ask", "askUngated"}
    UserInputs = {"confirm", "refuse"}
    InitialLimit = 1
    InitialBudget = 0
    MayGetStuck = FALSE
    MaxInputs = 1
    MaxFaults = 0
INVARIANTS
    NoUnconfirmedExecution
CHECK_DEADLOCK FALSE
