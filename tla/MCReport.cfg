\* Every outcome of the scans, each file, and every way to write a report.
CONSTANTS
    Ranges <- MCRanges
    UdpPorts = {53}
    Evidence <- MCEvidence
SPECIFICATION Spec
CHECK_DEADLOCK FALSE
INVARIANTS
    TableAccountedFor
    RemovedOnlyWithReport
    LostAccountedFor
