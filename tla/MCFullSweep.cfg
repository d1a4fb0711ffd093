\* Seven ports in three chunks of 3, 3 and 1; the rounding loses nothing.
CONSTANTS
    TotalPorts = 7
    Chunks = 3
    Budget = 9
    MinTimeout = 2
    OpenPorts <- SomePorts
SPECIFICATION SweepSpec
CHECK_DEADLOCK FALSE
INVARIANTS
    GapsAccountedFor
    NoteIsExact
    WithinBudget
