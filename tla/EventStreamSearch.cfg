\* Searches while events are added and writes fail.
CONSTANTS
    memory = memory
    runtime = runtime
    server = server
    NoEvent = NoEvent
    Events = {e1, e2, e3}
    Writers = {w1, w2}
    Readers = {r1}
    EarlyReaders = {}
    Subs = {memory, runtime}
    SubOrder <- MemoryRuntime
    Joiners = {}
    Leavers = {}
    CacheSize = 2
    MayClose = FALSE
    MaxId = 2
    MaxCrashes = 0
    MaxFailures = 1
SYMMETRY Symmetric
SPECIFICATION Spec
PROPERTIES ImplementsEventLog
INVARIANTS CachePageTransparent SearchFindsDelivered
CHECK_DEADLOCK FALSE
