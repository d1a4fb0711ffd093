\* The same, against the claim that nothing is lost.
CONSTANTS
    Ranges <- MCRanges
    UdpPorts = {53}
    Evidence <- MCEvidence
SPECIFICATION Spec
CHECK_DEADLOCK FALSE
INVARIANT
    NothingLost
