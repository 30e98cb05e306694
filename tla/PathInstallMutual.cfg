CONSTANTS
    a = a
    b = b
    k1 = k1
    k2 = k2
    Controllers = {a, b}
    Keys = {k1, k2}
    Home <- MutualHome
    Routes <- MutualRoutes
    MaxPending = 1
    MaxPackets = 1
    MaxRequests = 1
    Faulty = {b}
    ClockMarks = {}
SPECIFICATION FairSpec
CHECK_DEADLOCK FALSE

    
    
PROPERTIES
    RequestIsAnswered
    QueueIsReleased
