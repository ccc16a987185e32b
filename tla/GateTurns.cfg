CONSTANTS
    u1 = u1
    u2 = u2
    r1 = r1
    r2 = r2
    r3 = r3
    r4 = r4
    None = None
    Users <- OneUser
    Requests <- TwoTurns
    Owner <- SoleOwner
    Deployments <- AllDeployments
    Cap = 1
    Serial = FALSE
    DbFaults = TRUE
    RedisFaults = TRUE
    MaxCrashes = 1
    MaxWindows = 1
    MaxLosses = 1
SPECIFICATION FairSpec
CONSTRAINT OneChange
CHECK_DEADLOCK FALSE
INVARIANT CapHolds
PROPERTIES
    SendsAreAuthorised
    LedgerSettles
    TurnsEnd
