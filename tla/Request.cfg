SPECIFICATION FairSpec
INVARIANTS
    OutcomeTrue
    RestsWatched
PROPERTIES
    Ends
    AnswerHeard
