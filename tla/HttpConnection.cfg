CONSTANTS
    MaxParam = 99
    Settings <- MCSettings
    MaxRequests = 3
    HeaderRead = 5
    BodyRead = 2
    MaxBodyLen = 5
    DiskOffloadMin = 3
    MaxContent = 2
SPECIFICATION Spec
INVARIANTS TypeOK RequestIntact BodyWithinRequest RouteIsLeast FramingKept
PROPERTIES ConnectionEnds ImplementsExchange
\* a connection ends
CHECK_DEADLOCK FALSE
