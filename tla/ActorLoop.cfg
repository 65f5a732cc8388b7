CONSTANTS
    Refs = {k1, k2}
    Muts = {x1}
    GracefulStops = {}
    HardStops = {h1}
    Timers = {x1}
    Streamed = {k1, k2}
    k1 = k1
    k2 = k2
    Tick <- MCTick
    NoMsg = NoMsg
    SizeHint = 2
    MaxWakes = 1
    MayStop = FALSE
    MayAbort = FALSE
SPECIFICATION Spec
INVARIANTS
    TypeOK
    TaskNotStranded
    InboxNotStranded
PROPERTIES
    CanceledNeverRuns
CHECK_DEADLOCK FALSE
