SPECIFICATION Spec
CONSTANTS
    Requests = {r1, r2}
    Clients = {c1}
    Users = {u1}
    Passwords = {p1, p2}
    NoUser = NoUser
    PageSize = 1
    MaxPage = 1
    MaxPosts = 2
    DatabaseFails = TRUE
SYMMETRY MCSymmetry

INVARIANTS
    TotalIsUsable
    OneAccountPerName
    SessionsAreEarned

PROPERTIES
    DriftOnlyByCount
