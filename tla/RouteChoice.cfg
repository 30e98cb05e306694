CONSTANTS
    t1 = t1
    t2 = t2
    q1 = q1
    q2 = q2
    ab = ab
    ba = ba
    ac = ac
    cb = cb
    Threads = {t1, t2}
    Queries = {q1, q2}
    Paths <- MCPaths
    Links = {ab, ba, ac, cb}
    Reverse <- MCReverse
    Static = {ab, ba}
    Mode = "hybrid"
    MaxEvents = 1
    MaxBreaks = 2
    MaxRequests = 1
SPECIFICATION FairSpec
CHECK_DEADLOCK FALSE
INVARIANTS
    ServiceInv
    AnswerSound
    
PROPERTIES
    RequestEnds
