\* Two runs of a domain target, deaths anywhere.
CONSTANTS
    r1 = r1
    r2 = r2
    Runs = {r1, r2}
    NoRun = NoRun
    IsDomain = TRUE
SPECIFICATION Spec
SYMMETRY RunSymmetry
INVARIANTS
    OneRunAtATime
    PhaseHasFolder
    NoOrphanEvidence
    TraceBeforeEvidence
PROPERTIES
    OwnEvidenceKept
    ImplementsStore
