SPECIFICATION EditSpec
CONSTANTS
    c1 = c1
    p = p
    q = q
    Call = {c1}
    Piece = {p, q}
    Shows <- MCShows
    First <- MCFirst
    Source <- MCSource
    Cap = 2
    Width = 6
    MaxRevs = 3
    Tool = {"update", "create", "move", "delete", "protect", "other"}
PROPERTIES
    NothingOthersWroteIsLost
    OutlineKept
CHECK_DEADLOCK FALSE
