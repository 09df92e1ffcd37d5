SPECIFICATION PartSpec
CONSTANTS
    Parts = {"tail", "rename", "delete", "permissions", "upload", "download", "compare"}
    q1 = q1  q2 = q2
    u1 = u1  u2 = u2
    Streams = {"t1", "t2", "t3"}
    TailFiles = {"f"}
    FileOf <- OneFile
    SessionOf <- Sessioned
    Follows <- Returning
    MaxTailsPerHost = 1
    MaxTailsPerSession = 1
    RingLines = 1
    MaxLines = 2
    Names = {"a", "b", "c", "d", "e"}
    Bad = "bad"
    Parking = {"p0", "p1"}
    Held = {"a", "b", "c", "e"}
    Guarded = {"e"}
    MaxFaults = 2
    MaxLost = 1
    Nodes <- Deletable
    TopDir = "z"
    ParentOf <- Holder
    KindOf <- KindsOf
    PointsAt <- Leads
    Late = {"n"}
    Barred = {}
    Denied = {"g"}
    Unlistable = {}
    RootOwned = {"k", "d"}
    Requests = {q1, q2}
    MaxPaths <- Selected
    Ceiling = 3
    Threshold = 4
    PermNodes <- Chmodded
    PermTop = "z"
    PermParent <- Within
    Folders = {"d", "s", "z"}
    Was <- Modes
    Shut = "shut"
    NewModes = {"shut", "b"}
    Locked = {"g"}
    RootModes = {"k"}
    MaxPermPaths = 2
    MaxUndos = 2
    MaxGone = 1
    Attempts = {u1, u2}
    Copies = 2
    Protected = {2}
    Size = 2
    MaxRivals = 1
    DownEntries <- Served
    DownTop = "z"
    DownParent <- ServedIn
    Churned = {"n", "k"}
    DownDenied = {"k"}
    Hidden = {"d"}
    NotOurs = {"f"}
    DownCeiling = 3
    SeenCeiling = 1
    MaxBytes = 2
    MaxMeddling = 1
    CmpPaths <- Twins
    PathUnder <- TwinsIn
    AtFirst <- TwinsAre
    CmpDepth = 2
    CmpCeiling = 2
    CmpWrites = 1
INVARIANTS FileTypesOK ReadingsAreTrue RenamesAreWhole DeletionsAreSurveyed ModesAreUndone UploadsAreWhole
SYMMETRY Alike
CHECK_DEADLOCK FALSE
