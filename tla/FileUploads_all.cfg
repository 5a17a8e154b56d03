SPECIFICATION Spec
CONSTANTS
    Host = {h1, h2}
    Trusted = {h2}
    MAX_REDIRECTS = 2
    ApiTries = 1
    MaxAttempts = 2
    MaxOthers = 1
INVARIANTS
    ConnectsToTheChecked
    ChainKeepsItsPromises
    NothingHeld
    UploadIsReported
PROPERTY RequestEnds
CHECK_DEADLOCK FALSE
