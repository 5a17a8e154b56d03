SPECIFICATION Spec
CONSTANTS
    MaxRequests = 3
    Caller = {c1, c2}
    MaxPolls = 3
    Burst = 3
    Rate = 1
    AnonymousBurst = 3
    AnonymousRate = 2
    MaxTrackedKeys = 2
    MaxRetryAfter = 5
    MaxCost = 3
    ReadyTtl = 1
    ProbeTimeout = 1
    Grace = 2
    MaxTime = 3
    Scene <- Scenes
PROPERTIES
    ImplementsBuckets
    RetryAfterIsEnough
    DrainIsHonest
    NothingHangs
CHECK_DEADLOCK FALSE
