CONSTANTS
    Refs = {r1}
    Muts = {x1}
    GracefulStops = {g1}
    HardStops = {}
    Timers = {}
    Streamed = {}
    k1 = k1
    k2 = k2
    Tick <- MCTick
    NoMsg = NoMsg
    SizeHint = 2
    MaxWakes = 1
    MayStop = TRUE
    MayAbort = TRUE
SPECIFICATION FairSpec
INVARIANTS
    ExclusiveAlone
    GracefulCompletes
    TakenAnswered
PROPERTIES
    Barrier
    Answered
    StopEnds
CHECK_DEADLOCK FALSE
