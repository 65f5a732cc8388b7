CONSTANTS
    Clones = {s1}
    Workers = {w1, w2}
    Instances = {i1, i2}
    Messages = {x1}
    Stops = {x1}
    MaxPanics = 1
    NoWorker = NoWorker
    NoInstance = NoInstance
SPECIFICATION Spec
INVARIANTS
    GracefulWaits
CHECK_DEADLOCK FALSE
