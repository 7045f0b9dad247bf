SPECIFICATION Spec
CONSTANTS
    Loops = {l1, l2}
    Clients = {b1, b2}
    Users = {u1, u2}
    SessionIds = {s1, s2, s3}
    NoSession = NoSession
    NoUser = NoUser
    NoRequest = NoRequest
    MaxRequests = 4
SYMMETRY Symmetry
INVARIANTS
    TypeOK
    ActsForProvedUser
    LogoutEndsLogin
    LockOutHasACause
