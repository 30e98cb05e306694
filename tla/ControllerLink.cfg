CONSTANTS
    s1 = s1
    s2 = s2
    r1 = r1
    r2 = r2
    heartbeat = heartbeat
    None = None
    Other = Other
    Sockets = {s1, s2}
    Receivers = {r1, r2}
    Senders = {heartbeat}
    Cap = 3
    MaxBreaks = 1
SPECIFICATION FairSpec
CHECK_DEADLOCK FALSE
INVARIANTS
    LinkInv
    UpLinesWhole
PROPERTIES
    ReceiverSparesNewLink
    LinkHeals
    ServerReadsOn
