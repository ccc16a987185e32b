CONSTANTS
    p1 = p1
    p2 = p2
    t1 = t1
    t2 = t2
    i1 = i1
    i2 = i2
    Processes <- OneProcess
    Threads <- TwoThreads
    Home <- SameProcess
    Ids <- TwoIds
    Limit = 1
    Window = 2
    Delay = 1
    LocalCap = 1
    Spare = 1
    MaxChecks = 4
    MaxClock = 3
SPECIFICATION Spec
CHECK_DEADLOCK FALSE
SYMMETRY LimiterSymmetry
INVARIANTS
    SharedLimit
    CountersDie
    FallbackOvershoot
PROPERTY PruningKeepsFew
