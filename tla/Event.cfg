CONSTANTS
    Listeners = {l1, l2, l3}
    Notifiers = {c1, c2}
    Wakers = {w1, w2}
    NoListener = NoListener
    NoWaker = NoWaker
    All = 7
SPECIFICATION Spec
SYMMETRY Symmetry
INVARIANTS
    NotifiedFirst
    CacheUnshared
    LatestWakerCalled
PROPERTIES
    PromiseKept
