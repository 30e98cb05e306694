CONSTANTS
    s1 = s1
    s2 = s2
    s3 = s3
    r = r
    kl = kl
    kr = kr
    kt = kt
    L2 = L2
    Switches = {s1, s2, s3}
    Keys = {kl, kr, kt}
    LocalKeys = {kl}
    Routes <- RingRoutes
    Links <- Ring
    AccessSwitches = {s1}
    ForeignSids = {2}
    MaxSessions = 2
    MaxEvents = 1
    MaxServerPaths = 2
SPECIFICATION Spec
CHECK_DEADLOCK FALSE
INVARIANTS
    OneSessionPerKey
    LocalPathsUp
    SessionInv
    SidKeepsKey
PROPERTIES
    FailedLinkSwept
