CONSTANTS
    u1 = u1
    u2 = u2
    r1 = r1
    r2 = r2
    r3 = r3
    r4 = r4
    None = None
    Users <- OneUser
    Requests <- ThreeTurns
    Owner <- SoleOwner
    Deployments <- AllDeployments
    Cap = 0
    Serial = FALSE
    DbFaults = FALSE
    RedisFaults = FALSE
    MaxCrashes = 0
    MaxWindows = 0
    MaxLosses = 0
SPECIFICATION Spec
CHECK_DEADLOCK FALSE
INVARIANT AtMostOneDelivery
