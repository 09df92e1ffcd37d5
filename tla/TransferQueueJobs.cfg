\* A copy and a move for one slot, and the long life of a job of two entries.
SPECIFICATION KindSpec
CONSTANTS
    j1 = j1
    j2 = j2
    j3 = j3
    h1 = h1
    h2 = h2
    Jobs = {j1, j2}
    Hosts = {h1, h2}
    Items = {1}
    HostsOf <- Paired
    Moves = {j2}
    Deletable = {}
    MaxInFlight = 1
    MaxPerHost = 1
    MaxCancels = 1
    MaxRetries = 0
    MaxCrashes = 1
    MaxFaults = 0
INVARIANTS
    LineIsALine
    RunningRowHasRun
    DoneHasNoFailure
PROPERTIES
    EndedStays
    JobsSettle
CHECK_DEADLOCK FALSE
