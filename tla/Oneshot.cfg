CONSTANTS
    Wakers = {w1, w2, w3}
    NoWaker = NoWaker
SPECIFICATION FairSpec
INVARIANTS
    TypeOK
    ValueReadOnce
    NoLostWakeup
PROPERTIES
    PromiseKept
    Answered
