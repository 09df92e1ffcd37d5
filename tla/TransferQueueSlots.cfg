\* Three jobs compete for the slots of two machines, through a restart.
SPECIFICATION AloneSpec
CONSTANTS
    j1 = j1
    j2 = j2
    j3 = j3
    h1 = h1
    h2 = h2
    Jobs = {j1, j2, j3}
    Hosts = {h1, h2}
    Items = {1}
    HostsOf <- Straddle
    Moves = {}
    Deletable = {}
    MaxInFlight = 2
    MaxPerHost = 1
    MaxCancels = 0
    MaxRetries = 0
    MaxCrashes = 1
    MaxFaults = 0
INVARIANTS
    TypeOK
    CapsRespected
    NoIdleSlot
PROPERTIES
    RefinesSlotPool
CHECK_DEADLOCK FALSE
