CONSTANTS
    a = a
    b = b
    k1 = k1
    k2 = k2
    Controllers = {a, b}
    Keys = {k1}
    Home <- RetryHome
    Routes <- RetryRoutes
    MaxPending = 2
    MaxPackets = 3
    MaxRequests = 2
    Faulty = {b}
    ClockMarks = {"stale", "expired"}
SPECIFICATION Spec
CHECK_DEADLOCK FALSE
INVARIANTS
    
    QueueInv
    NewestPathLast

    
