SPECIFICATION SseSpec
CONSTANTS
    Names = {created, other}
    NoName = NoName
    Keys = {created}
    Asserting = {created, Star}
    Star = Star
    HasStar = TRUE
    Heartbeat = TRUE
    MaxEvents = 3
    MaxBeats = 2
CHECK_DEADLOCK FALSE
INVARIANTS
    SseInv
PROPERTIES
    ImplementsStream
    EndReachesClient
    Released
