CONSTANTS
    e = e
    s1 = s1
    s2 = s2
    s3 = s3
    A = A
    B = B
    C = C
    p = p
    q = q
    Switches = {e, s1, s2, s3}
    Links <- Triangle
    Access <- Corners
    External <- Outside
    Allowed = {A}
    Hosts = {A, B, C}
    Home <- Homes
    Gateway = Gateway
    Pairs <- Asks
    Moves <- AMoves
    None = None
    Broadcast = Broadcast
    MaxEvents = 2
SPECIFICATION FairSpec
CHECK_DEADLOCK FALSE

    
PROPERTIES
    FloodsEnd
    Resolves
