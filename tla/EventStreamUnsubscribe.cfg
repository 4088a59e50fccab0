\* A subscriber leaves while an event is being handed out.
CONSTANTS
    memory = memory
    runtime = runtime
    server = server
    NoEvent = NoEvent
    Events = {e1, e2, e3}
    Writers = {w1, w2}
    Readers = {}
    EarlyReaders = {}
    Subs = {runtime, server}
    SubOrder <- RuntimeServer
    Joiners = {}
    Leavers = {server}
    CacheSize = 2
    MayClose = FALSE
    MaxId = 2
    MaxCrashes = 0
    MaxFailures = 0
SPECIFICATION Spec
INVARIANT QueueThreadSurvives
CHECK_DEADLOCK FALSE
