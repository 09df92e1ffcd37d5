\* Two panes and two scans for two slots, one reserved, over three connections.
SPECIFICATION FairSpec
CONSTANTS
    p1 = p1
    p2 = p2
    s1 = s1
    s2 = s2
    Borrowers = {p1, p2, s1, s2}
    Background = {s1, s2}
    MaxConcurrency = 2
    Reserved = 1
    MaxConns = 3
    MaxBad = 1
    MaxDrops = 1
    MaxEvictions = 1
INVARIANTS
    TypeOK
    SlotsHeld
    RevokedIsTraded
PROPERTIES
    AcquireAnswered
CHECK_DEADLOCK FALSE
