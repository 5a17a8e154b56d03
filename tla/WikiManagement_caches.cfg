SPECIFICATION Spec
CONSTANTS
    Key = {k1, k2}
    Initial = {k1}
    Default = k2
    MaxAttempts = 2
    MaxGen = 2
    MaxReconciles = 1
INVARIANTS
    SessionMatchesConfig
    CachedIsAlive
    SecretStaysHome
    ProbeHasSession
    ReadOnlyStays
PROPERTIES
    PassesEnd
CHECK_DEADLOCK FALSE
