CONSTANTS
    l1 = l1
    l2 = l2
    r1 = r1
    r2 = r2
    r3 = r3
    None = None
    Logins <- OneLogin
    Requests <- ThreeRequests
    RedisFaults = TRUE
    DbFaults = TRUE
    MaxCrashes = 1
SPECIFICATION Spec
CHECK_DEADLOCK FALSE
INVARIANTS
    RefusedLoginLeavesNoRow
    LogoutIsFinal
    NoSpuriousLogout
    SessionsHaveTtl
PROPERTY ImplementsLifecycle
