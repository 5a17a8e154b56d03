SPECIFICATION Spec
CONSTANTS
    Key = {k1, k2, k3}
    Initial = {k1, k2, k3}
    Default = k1
    MaxAttempts = 1
    MaxGen = 1
    MaxReconciles = 2
INVARIANTS
    OfferedMatchesRegistry
CHECK_DEADLOCK FALSE
