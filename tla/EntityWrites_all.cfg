SPECIFICATION Spec
CONSTANTS
    None = None
    q1 = q1
    q2 = q2
    q3 = q3
    ada = ada
    bob = bob
    page = page
    r = r
    c1 = c1
    c2 = c2
    Call = {c1, c2}
    Item = {q1, q2, q3}
    Name = {ada, bob}
    Page = {page}
    Role = {r}
    Args <- MCArgs
    Default <- MCDefault
    SearchLimit = 2
    MaxSends = 2
    MaxBroken = 1
    MaxOthers = 1
SYMMETRY MCSymmetry
INVARIANTS
    RetryMakesNoTwin
    SuccessIsTrue
    VocabularyIsTheWikis
CHECK_DEADLOCK FALSE
