CONSTANTS
    Pushers = {p1, p2}
    Poppers = {c1, c2}
    Lap = 3
    MaxPushes = 2
    MaxPops = 2
    Closing = TRUE
SPECIFICATION Spec
SYMMETRY Symmetry
INVARIANTS
    MemorySafe
    WaitsForAnother
PROPERTIES
    FifoKept
CHECK_DEADLOCK FALSE
