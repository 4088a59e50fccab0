SPECIFICATION PortSpec
CONSTANTS
    Workers = {a1, a2}
    Ports = {k1}
    LastPort = k1
    MaxAttempts = 2
    MaxFiles = 3
    MaxKills = 0
CHECK_DEADLOCK FALSE
INVARIANTS NoPortAllocatedTwice
