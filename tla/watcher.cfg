SPECIFICATION WatcherSpec
CONSTANTS
    Files = {f, g}
    MaxEdits = 3
    MaxTimers = 3
CHECK_DEADLOCK FALSE
INVARIANTS
    WatcherInv
    NoStuckEvents
    EventsExplainSnapshot
PROPERTIES
    ChangesReported
    StopReturns
