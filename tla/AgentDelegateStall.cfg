SPECIFICATION Spec
CONSTANTS
    ConfirmationMode = FALSE
    Outcomes = {"delegate", "finish", "wait"}
    UserInputs = {"message"}
    InitialLimit = 3
    InitialBudget = 0
    MayGetStuck = FALSE
    MaxInputs = 1
    MaxFaults = 0
INVARIANTS
    NoLostWakeup
CHECK_DEADLOCK FALSE
