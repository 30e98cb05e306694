CONSTANTS
    Nodes = {1, 2, 3, 4}
    Threads = {1}
    Topologies <- MCTopologies
    Static <- MCStatic
    Agents = {1, 2, 3}
    Hops = 2
    MaxRequests = 1
SPECIFICATION FairSpec
CHECK_DEADLOCK FALSE
INVARIANTS
    WalkInv
    AnswerRight
PROPERTIES
    GivenUpOnlyWhenStuck
    RequestAnswered
