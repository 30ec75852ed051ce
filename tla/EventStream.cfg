CONSTANTS
    Events = 5
    WithId = {1, 3, 4}
    Rejected = {3}
    Silent = {2}
    Crlf = TRUE
    Fns = {f1, f2}
    NoInterceptor = NoInterceptor
    MaxSlots = 2
    MaxChunk = 5
    sseMaxRetryAttempts = 3

SPECIFICATION FairSpec

INVARIANTS
    TypeOK
    InterceptorsRun

PROPERTIES
    FeedSpec
    AbortEndsStream

CHECK_DEADLOCK FALSE
