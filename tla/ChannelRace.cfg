CONSTANTS
    Senders = {s1, s2}
    Receivers = {r1}
    Closers = {}
    Cap = 1
    Word = 8
    MaxSends = 2
    DoSends = FALSE
    Canceling = FALSE
    SingleThread = FALSE
SPECIFICATION Spec
INVARIANTS
    SenderNotStranded
CHECK_DEADLOCK FALSE
