SPECIFICATION Spec
CONSTANTS
    Flow = {f1, f2}
    Client = {c1, c2, m1}
    Cimd = {m1}
    Host = {h1}
    Callback = {r1, r2}
    MaxClients = 1
    MaxGrants = 1
SYMMETRY Symmetry
INVARIANTS
    ConsentBeforeCode
    CodePerGrant
CHECK_DEADLOCK FALSE
