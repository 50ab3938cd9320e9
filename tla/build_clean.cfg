SPECIFICATION BuildSpec
CONSTANTS
    f = f
    g = g
    c1 = c1
    c2 = c2
    plain = plain
    bad = bad
    k1 = k1
    k2 = k2
    Files <- MCFiles
    ContentsOf <- MCContentsOf
    Erroneous = {bad}
    Controllers = {c1, c2}
    Configs = {k1, k2}
    BadConfig = BadConfig
    Settings <- CleanSettings
    MaxBuilds = 2
    MaxEdits = 0
    Nil = Nil
    Mixed = Mixed
    Plain = Plain
CHECK_DEADLOCK FALSE
INVARIANTS
    CleanRebuilds
