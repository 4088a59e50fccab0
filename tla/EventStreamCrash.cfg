\* Crashes, failed writes, a subscriber that comes and goes, close.
CONSTANTS
    memory = memory
    runtime = runtime
    server = server
    NoEvent = NoEvent
    Events = {e1, e2, e3}
    Writers = {w1, w2}
    Readers = {}
    EarlyReaders = {}
    Subs = {runtime, server}
    SubOrder <- RuntimeServer
    Joiners = {server}
    Leavers = {server}
    CacheSize = 2
    MayClose = TRUE
    MaxId = 2
    MaxCrashes = 2
    MaxFailures = 1
SYMMETRY Symmetric
SPECIFICATION Spec
INVARIANTS TypeOK DeliveredIsDurable
PROPERTIES DurableEventsNeverOverwritten ImplementsEventLog
CHECK_DEADLOCK FALSE
