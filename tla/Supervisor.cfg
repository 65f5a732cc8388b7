CONSTANTS
    Clones = {s1, s2}
    Workers = {w1, w2}
    Instances = {i1}
    Messages = {m1, x1}
    Stops = {x1}
    MaxPanics = 1
    NoWorker = NoWorker
    NoInstance = NoInstance
SPECIFICATION FairSpec
INVARIANTS
    SettledKept
PROPERTIES
    WorkersEnd
    MailServed
CHECK_DEADLOCK FALSE
