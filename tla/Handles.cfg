CONSTANTS
    Senders = {h1, h2, h3}
    Receivers = {q1, q2}
SPECIFICATION FairSpec
INVARIANTS
    CountsTrue
    LiveIsOpen
PROPERTIES
    AbandonedCloses
CHECK_DEADLOCK FALSE
