SPECIFICATION FairSpec
CONSTANTS
    Grant = {g1}
    TokenReq = {t1, t2}
    BearerReq = {b1, b2}
    Wiki = {w1, w2}
    NoWiki = NoWiki
    Rotating = {w1}
    FlushFails = FALSE
    MaxVersion = 3
    MaxRid = 3
    MaxRestarts = 1
INVARIANTS
    SentToItsWiki
    StoredTokenAccepted
PROPERTIES
    ServesLiveToken
    RevocationIsReplay
    ImplementsFamily
    RequestsSettle
CHECK_DEADLOCK FALSE
