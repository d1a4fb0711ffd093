\* Two CVEs, one of which the report has no room for, one request each.
CONSTANTS
    Cves = {c1, c2}
    MaxScripts = 2
    Scores <- MCScores
    Epss = {0, 7}
    BatchSize = 1
    TopN = 1
SPECIFICATION FindingsSpec
CHECK_DEADLOCK FALSE
INVARIANTS
    EachCveOnce
    OmittedAccountedFor
