\* A move between hosts with one file to skip and one to overwrite, a copy and a move by rename.
SPECIFICATION KindSpec
CONSTANTS
    fileA = fileA
    fileB = fileB
    dirD = dirD
    NoItem = NoItem
    Items = {fileA, fileB, dirD}
    Dirs = {dirD}
    Above <- Tree
    Decision <- SkipAndOver
    IsMove = TRUE
    SameHost = FALSE
    SameFs = FALSE
    Replaces = TRUE
    MaxNames = 2
    MaxFaults = 1
    MaxBlind = 1
    MaxCrashes = 1
    MaxAborts = 1
    MaxRetries = 1
    MaxMeddles = 1
INVARIANTS
    TypeOK
    NothingLost
    DoneIsComplete
PROPERTIES
    OthersKept
    DoneStays
    MoveSettles
CHECK_DEADLOCK FALSE
