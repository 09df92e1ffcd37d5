SPECIFICATION PartSpec
CONSTANTS
    Parts = {"scans"}
    s1 = s1  s2 = s2  s3 = s3
    h1 = h1  h2 = h2
    j1 = j1  j2 = j2
    f1 = f1  f2 = f2
    NoScan = NoScan
    Scans = {s1, s2, s3}
    ScanHosts = {h1, h2}
    HostOf <- Together
    ScansInFlight = 2
    KeepPerRoot = 1
    MaxScanCancels = 0
    MaxScanEnds = 0
    MaxScanFaults = 0
    Nodes = {"r", "a", "b", "c", "d", "e", "f"}
    Root = "r"
    UpOf <- Family
    Directories = {"r", "a", "d", "b"}
    OwnSizes = {1, 4}
    LevelDepth = 2
    TopPerParent = 2
    MaxParents = 2
    MaxEntries = 5
    FloorPart = 6
    HashIds = {j1, j2}
    HashFiles = {f1, f2}
    TargetsOf <- Overlap
    HashInFlight = 1
    ArgsPerCall = 2
    MaxFileWrites = 1
    MaxHashCancels = 1
    Dirs = {1, 2, 3}
    Workers = {"w1", "w2"}
    Readable <- Mixed
PROPERTY RefusedMeansRunning
CHECK_DEADLOCK FALSE
