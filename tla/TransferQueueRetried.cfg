\* A retry while the run it follows has not left the running set.
SPECIFICATION AloneSpec
CONSTANTS
    j1 = j1
    j2 = j2
    j3 = j3
    h1 = h1
    h2 = h2
    Jobs = {j1}
    Hosts = {h1, h2}
    Items = {1}
    HostsOf <- Paired
    Moves = {}
    Deletable = {}
    MaxInFlight = 2
    MaxPerHost = 2
    MaxCancels = 0
    MaxRetries = 1
    MaxCrashes = 0
    MaxFaults = 0
INVARIANTS
    QueuedHasAPlace
CHECK_DEADLOCK FALSE
