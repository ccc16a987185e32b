CONSTANTS
    a1 = a1
    a2 = a2
    m1 = m1
    m2 = m2
    Actions <- TwoActions
    Members <- TwoMembers
    Deployments <- AllDeployments
    RestCrm = TRUE
    FailMax = 2
SPECIFICATION FairSpec
CHECK_DEADLOCK FALSE
INVARIANTS
    SuccessIsDelivered
    DeclinedIsNotSent
    TripsNeedFailures
PROPERTY EveryActionEnds
