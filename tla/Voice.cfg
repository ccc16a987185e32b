CONSTANTS
    r1 = r1
    r2 = r2
    u1 = u1
    u2 = u2
    Requests <- TwoRequests
    Users <- TwoUsers
    Owner <- OwnerOfAll
    Chain <- TwoTiers
    MaxAttempts = 2
    Workers = 2
    MaxRestarts = 1
    FailMax = 1
SPECIFICATION Spec
CONSTRAINT BeginsBeforeRestart
CHECK_DEADLOCK FALSE
INVARIANTS
    UrlIsPlayable
    AudioIsWhole
    LocalFilesGone
    SameFailThrough
PROPERTY VoiceEnds
