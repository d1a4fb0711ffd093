\* Any of the ports open, in any order, with any service name detected.
CONSTANTS
    PortKeys <- MCPortKeys
    Udp <- MCUdp
    Standard <- MCStandard
    Canons = {"dns", "smb", "unhandled"}
    Handled = {"dns", "smb"}
    HostWide = {"smb"}
    NoService = "none"
SPECIFICATION Spec
CHECK_DEADLOCK FALSE
INVARIANTS
    TypeOK
    HostWideOnce
    EveryPortAccountedFor
    SubItemsFit
    BrokenHandlerContained
