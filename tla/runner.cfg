SPECIFICATION RunnerSpec
CONSTANTS
    a = a
    Callers <- OneCaller
    NoCaller = NoCaller
    MaxStarts = 3
INVARIANTS
    SingleCallerInv
    NoDoubleClose
PROPERTIES
    StopReaps
    CallsReturn
    ImplementsSlot
