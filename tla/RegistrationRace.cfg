SPECIFICATION RegistrationSpec
CONSTANTS
    Loops = {l1, l2}
    Clients = {b1, b2}
    Names = {n1}
    Nobody = Nobody
    Schemas = {FALSE}
    MaxRequests = 2
    MaxDbErrors = 0
INVARIANTS
    NewIdReturned
