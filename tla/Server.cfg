SPECIFICATION ServerSpec
CONSTANTS
    Sids = {a1, a2}
    Conns = {b1, b2}
    MaxConcurrent = 1
    MaxCalls = 4
    Requests = {a1, a2, a3}
    MaxConvs = 3
    MaxAgents = 2
    Servers = {a1, a2}
    Cids = {k1}
    Clients = {b1, b2}
    SlowStarts = FALSE
    MaxFaults = 1
    MaxJoins = 2
    MaxStops = 1
    MaxEvents = 1
    MaxQueue = 2
    Nested = {a1, a2}
    Starters = {b1, b2}
    MaxRunning = 1
    MaxAsks = 4
    Convs = {a1, a2}
    MaxPerBox = 2
    MaxBoxes = 2
    MaxCreated = 2
    MaxOps = 1
    Senders = {a1, a2}
    MaxQueued = 1
    MaxMessages = 3
SYMMETRY Symmetry
CHECK_DEADLOCK FALSE
INVARIANTS
    ServerTypeOK
    TableHoldsOpenSessions
    ClosedReleasesRuntime
    AttachmentsKept
    OneLoopPerConversation
    StartsAreControlled
    ReadyKeepsPromise
    QueueIsFaithful
