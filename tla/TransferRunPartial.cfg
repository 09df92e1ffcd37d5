\* A reclaimed move that takes the rename path with its directory already done.
SPECIFICATION AloneSpec
CONSTANTS
    fileA = fileA
    fileB = fileB
    dirD = dirD
    NoItem = NoItem
    Items = {fileA, fileB, dirD}
    Dirs = {dirD}
    Above <- Tree
    Decision <- OverAndAsk
    IsMove = TRUE
    SameHost = TRUE
    SameFs = TRUE
    Replaces = TRUE
    MaxNames = 2
    MaxFaults = 0
    MaxBlind = 0
    MaxCrashes = 1
    MaxAborts = 0
    MaxRetries = 0
    MaxMeddles = 0
INVARIANTS
    DoneCoversItems
CHECK_DEADLOCK FALSE
