SPECIFICATION PartSpec
CONSTANTS
    Parts = {"readings", "edits", "keys", "trail", "sudo", "calls", "deploy"}
    Readers = {"a", "b"}
    Window = 1
    MaxEdits = 1
    MaxReadings = 2
    Paths = {"/", "/h", "/h/a"}
    Within <- Nested
    Edits = {"e1", "e2"}
    Keys = {"k1", "k2", "k3"}
    AlgOf <- TwoKinds
    Legacy = "ssh"
    Dials = {"d1", "d2"}
    MaxSwaps = 1
    Calls = {"c1", "c2"}
    MaxUses = 1
    MaxBroken = 2
    MaxCrashes = 1
    Sids = {"s", "t"}
    SudoHosts = {"h1"}
    Asks = {"a1"}
    Length = 2
    MaxTime = 3
    MaxSignIns = 1
    Commands = {"x", "y"}
    Slots = 1
    MaxShips = 2
    MaxTree = 1
INVARIANTS HostTypesOK HostsAreKept ActsAreOnRecord
PROPERTIES NothingIsGranted WaitsEnd
CHECK_DEADLOCK FALSE
