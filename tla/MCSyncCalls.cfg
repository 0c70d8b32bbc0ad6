CONSTANTS
    c1 = c1
    c2 = c2
    b1 = b1
    b2 = b2
    Nobody = Nobody
    Other = Other
    Calls <- MCCall
    Bids <- MCBids
    WithPage <- MCWithPage
    Requests <- MCRequests
    MaxKeys = 2
SPECIFICATION FairSpec
INVARIANTS
    TypeOK
    ServicesAreAtomic
    CompletedIsTrue
    LaterStepsKeepSelection
    RetriesAreHonest
    FailuresAreAlerted
PROPERTY EveryCallEnds
CHECK_DEADLOCK FALSE
