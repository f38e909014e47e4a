SPECIFICATION FairSpec
CONSTANTS
    Clients = {c1}
    Resources = {r1, r2}
    Backlog = 2
    SubscriberBuffer = 1
    Bases <- TwoRuns
    MaxEvents = 4
    NoCursor = NoCursor
    Unreadable = 1000
INVARIANTS
    TypeOK
    ReconnectCatchesUp
    StreamCarriesChanges
    PipeContinuesCursor
PROPERTY
    EventuallyFresh
