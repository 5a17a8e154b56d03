SPECIFICATION Spec
CONSTANTS
    Process = {p1}
    Key = {k1}
    Issuer = {w1}
    FixedPort = FALSE
    MaxToken = 2
    MaxCalls = 2
    MaxRestarts = 0
INVARIANTS
    LoggedOutStaysOut
CHECK_DEADLOCK FALSE
