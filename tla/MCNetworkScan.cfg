\* A fresh folder: two TCP ports, one UDP port, every configuration.
CONSTANTS
    t1 = t1
    t2 = t2
    u1 = u1
    TcpPorts = {t1, t2}
    UdpPorts = {u1}
    Leftovers = FALSE
SPECIFICATION Spec
SYMMETRY PortSymmetry
CHECK_DEADLOCK FALSE
INVARIANTS
    FlagsFit
    PortListsFit
    RevealedWereFiltered
    ServicesOfListedPorts
    OpenPortsExact
