SPECIFICATION Spec
CONSTANTS
    Process = {p1}
    Key = {k1, k2}
    Issuer = {w1, w2}
    FixedPort = TRUE
    MaxToken = 3
    MaxCalls = 2
    MaxRestarts = 1
INVARIANTS
    SentHome
    StoredTokenGood
PROPERTIES
    GoodTokenKept
    CallsAnswered
    ImplementsStore
CHECK_DEADLOCK FALSE
