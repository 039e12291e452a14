SPECIFICATION FairSpec
CONSTANTS
    MIN_WINDOW_SIZE = 1
    MAX_WINDOW_SIZE = 1
    Second = 1
    Listeners = {t1, t2}
    Classes = {0, 1}
    Profiles <- MCProfiles
    Params <- MCParams
    InitialParams <- MCPolicy
    DefaultParams <- MCPolicy
    MaxRequests = 2
    Nobody = Nobody
    Messages <- MCMessages
    Arrivals <- MCArrivals
    NoMessage = NoMessage
    NoCall = NoCall
    NoId = NoId
    BufferSize = 5
    HeaderSize = 2
    RequestSize = 2
    RejectSize = 1
    LinkRetries <- MCLinkRetries
INVARIANTS
    TypeOK
    AnswersMatch
    UnansweredOnlyIf
    ModesKept
PROPERTIES
    ImplementsService
    ListenersStop
