SPECIFICATION LiveSpec
CONSTANTS
    ConfirmationMode = TRUE
    Outcomes = {"run", "ask", "wait", "condense", "malformed", "failure", "rateLimit"}
    UserInputs = {"message", "stop", "confirm", "refuse"}
    InitialLimit = 2
    InitialBudget = 0
    MayGetStuck = FALSE
    MaxInputs = 1
    MaxFaults = 1
    Events = {e1, e2}
    NoEvent = NoEvent
    Writers = {w1, w2}
    Readers = {r1}
    memory = memory
    runtime = runtime
    Servers = {n1, n2}
    Cids = {k1}
    Clients = {c1}
INVARIANT NoLostWakeup
PROPERTIES ComesToRest AddedEventuallyDelivered ClientEventuallyServed
CHECK_DEADLOCK FALSE
