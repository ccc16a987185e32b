CONSTANTS
    r1 = r1
    r2 = r2
    Requests <- TwoRequests
    OpenRouterModels = 2
    GeminiModels = 2
    MaxAttempts = 2
    FailMax = 2
SPECIFICATION Spec
CHECK_DEADLOCK FALSE
INVARIANTS
    HealthyProviderAnswers
    DeadProviderRests
PROPERTY RequestEnds
