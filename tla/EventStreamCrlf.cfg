CONSTANTS
    Events = 3
    WithId = {1, 2, 3}
    Rejected = {}
    Silent = {}
    Crlf = TRUE
    Fns = {f1}
    NoInterceptor = NoInterceptor
    MaxSlots = 1
    MaxChunk = 4
    sseMaxRetryAttempts = 2

SPECIFICATION Spec

PROPERTIES
    LineEndsNormalized

CHECK_DEADLOCK FALSE
