SPECIFICATION FairSpec

CONSTANTS
    p1 = p1
    p2 = p2
    Pages <- MCPages
    Speeds <- MCSpeeds
    LongStep = 2
    FixedStep = 2
    MaxClock = 1
    MaxCommands <- MCCommands

INVARIANTS
    SessionsAreConsistent
    TimeAddsUp

PROPERTIES
    PagesNeverGoBack
    CommandsAreAnswered

\* Every page may be closed.
CHECK_DEADLOCK FALSE
