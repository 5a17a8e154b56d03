SPECIFICATION Spec
CONSTANTS
    c1 = c1
    c2 = c2
    Call = {c1, c2}
    Wiki = {w1, w2}
    Default = w1
    MaxAttempts = 2
    Scene <- Scenes
INVARIANTS
    ActsAsItsCaller
    CaveatIsHonest
    StrandedIsWarned
PROPERTIES
    CallsEnd
CHECK_DEADLOCK FALSE
