\* A crash between the write of a cache page and the write of an event on it.
CONSTANTS
    memory = memory
    runtime = runtime
    server = server
    NoEvent = NoEvent
    Events = {e1, e2, e3}
    Writers = {w1, w2}
    Readers = {}
    EarlyReaders = {}
    Subs = {runtime, server}
    SubOrder <- RuntimeServer
    Joiners = {}
    Leavers = {}
    CacheSize = 2
    MayClose = FALSE
    MaxId = 2
    MaxCrashes = 1
    MaxFailures = 0
SPECIFICATION Spec
INVARIANT CachePageTransparent
CHECK_DEADLOCK FALSE
