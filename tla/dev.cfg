SPECIFICATION DevSpec
CONSTANTS
    Main = Main
    Sig = Sig
    Rs = Rs
    Callers <- Goroutines
    NoCaller = NoCaller
    MaxStarts = 3
    Files = {f}
    MaxEdits = 1
    MaxTimers = 1
    Broken = {0}
    MaxRs = 1
CHECK_DEADLOCK FALSE
INVARIANTS
    DevInv
    RestartedAfterBuild
PROPERTIES
    ChangesBuilt
    ShutdownEnds
