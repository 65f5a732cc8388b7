CONSTANTS
    Senders = {s1, s2, s3}
    Receivers = {r1}
    Closers = {}
    Cap = 2
    Word = 8
    MaxSends = 2
    DoSends = FALSE
    Canceling = TRUE
    SingleThread = TRUE
SPECIFICATION FairSpec
INVARIANTS
    SenderNotStranded
PROPERTIES
    SendCompletes
    QueueDrained
CHECK_DEADLOCK FALSE
