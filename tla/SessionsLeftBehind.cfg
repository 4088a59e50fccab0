SPECIFICATION SessionsSpec
CONSTANTS
    Sids = {a1}
    Conns = {b1}
    MaxConcurrent = 1
    MaxCalls = 3
INVARIANTS NoControllerLeftBehind
CHECK_DEADLOCK FALSE
