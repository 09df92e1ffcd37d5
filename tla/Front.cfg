SPECIFICATION PartSpec
CONSTANTS
    Parts = {"tray", "strip", "feed", "sizes", "pane", "term", "dialogs"}
    u1 = u1  u2 = u2  u3 = u3
    Batches <- Packed
    Claimed = {u3}
    Size = 2
    MaxRetries = 2
    MaxWaits = 1
    MaxDrops = 1
    MaxRefused = 2
    MaxRuns = 2
    MaxFrames = 2
    MaxCuts = 1
    MaxEntries = 3
    Backfill = 2
    MaxWritten = 3
    MaxLost = 2
    MaxAttempts = 1
    MaxOnWire = 2
    Listed = {"a", "b"}
    MaxStreams = 3
    MaxWindows = 1
    Hosts = {"H", "I"}
    Places = {"/", "/a", "/b"}
    HomeOf <- SameHome
    Listing <- TwoNames
    MaxTabs = 2
    MaxHist = 2
    MaxSteps = 4
    Machines = {"H", "I"}
    HomeOn <- RootHomes
    Trees <- TwoTrees
    Called <- TwoMatch
    Bare = {}
    PathOf <- Typed
    Lines <- TermLines
    OutputLimit = 3
    MaxLines = 2
    MaxMoves = 1
    DlgDirs = {"p", "q"}
    DlgNames = {"a", "b"}
    Held0 <- TwoDirs
    Start <- FirstDir
    FirstOf <- Sorted
    MaxActs = 4
    MaxPosts = 2
    MaxStrays = 0
    Touched <- Theirs
INVARIANTS FrontTypesOK OnceIsOnce ScreenIsTrue
PROPERTIES OverIsOver PageSettles
CHECK_DEADLOCK FALSE
