CONSTANTS
    Senders = {s1, s2}
    Receivers = {r1, r2}
    Closers = {c1}
    Cap = 2
    Word = 8
    MaxSends = 2
    DoSends = TRUE
    Canceling = TRUE
    SingleThread = FALSE
SPECIFICATION Spec
SYMMETRY Symmetry
INVARIANTS
    TypeOK
    SlotsAccounted
    CapacityKept
    ReceiverNotStranded
CHECK_DEADLOCK FALSE
