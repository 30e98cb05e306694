SPECIFICATION HostSpec
CONSTANTS
    s1 = s1
    s2 = s2
    h1 = h1
    h2 = h2
    m = m
    Switches = {s1, s2}
    Ports = {1, 2}
    Hosts = {h1, h2}
    Mac <- MCMac
    External <- MCExternal
    Virtual = {s1}
    MaxConnections = 2
SYMMETRY Symmetric
INVARIANTS
    HostInv
    LinksConsistent
