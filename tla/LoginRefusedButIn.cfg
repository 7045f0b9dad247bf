SPECIFICATION Spec
CONSTANTS
    Loops = {l1}
    Clients = {b1, b2}
    Users = {u1}
    SessionIds = {s1, s2}
    NoSession = NoSession
    NoUser = NoUser
    NoRequest = NoRequest
    MaxRequests = 3
PROPERTIES
    RefusedLoginStaysOut
