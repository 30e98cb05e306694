CONSTANTS
    a = a
    b = b
    r1 = r1
    r2 = r2
    Clients = {a, b}
    Heartbeat = hb
    Reports = {r1, r2}
    Mortal = {a}
    MaxReports = 2
SPECIFICATION Spec
CHECK_DEADLOCK FALSE
SYMMETRY Symmetric
INVARIANTS
    MembershipInv
    
