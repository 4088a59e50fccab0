SPECIFICATION AgentSpec
CONSTANTS
    ConfirmationMode = FALSE
    Outcomes = {"run", "think", "message", "wait", "finish", "reject", "delegate",
                "delegateIdle", "failure", "rateLimitExhausted"}
    UserInputs = {"message", "stop"}
    InitialLimit = 3
    InitialBudget = 3
    MayGetStuck = TRUE
    MaxInputs = 3
    MaxFaults = 1
INVARIANTS
    TypeOK
    NoUnconfirmedExecution
    ReleasedOncePerAnswer
    IterationsPaidFor
    DelegationsSettled
CHECK_DEADLOCK FALSE
