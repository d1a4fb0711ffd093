\* Two runs of an IP-only target, deaths anywhere; liveness, so no symmetry.
CONSTANTS
    r1 = r1
    r2 = r2
    Runs = {r1, r2}
    NoRun = NoRun
    IsDomain = FALSE
SPECIFICATION FairSpec
PROPERTIES
    Termination
