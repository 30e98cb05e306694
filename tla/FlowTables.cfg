CONSTANTS
    Keys = {k1, k2}
    Web = {w1, w2}
    PartSize = 2
    MaxQueue = 1
    MaxOps = 2
    MaxEvents = 1
    MaxLosses = 1
SPECIFICATION FairSpec
INVARIANTS
    FlowInv
    DeletionStands
PROPERTIES
    TableSettles
