CONSTANTS
    t1 = t1
    t2 = t2
    t3 = t3
    c1 = c1
    k1 = k1
    None = None
    Turns <- TwoTurns
    Clears <- OneClear
    Keys <- OneKey
    MaxEntries = 3
    RedisFaults = TRUE
    DbFaults = TRUE
    MaxCrashes = 1
SPECIFICATION Spec
SYMMETRY TurnSymmetry
CHECK_DEADLOCK FALSE
INVARIANTS
    CacheNeverAhead
    CacheIsTruth
    PromptsSeeTruth
    AnsweredIsCommitted
