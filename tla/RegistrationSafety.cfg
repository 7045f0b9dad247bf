SPECIFICATION RegistrationSpec
CONSTANTS
    Loops = {l1, l2}
    Clients = {b1, b2}
    Names = {n1, n2}
    Nobody = Nobody
    Schemas = {TRUE, FALSE}
    MaxRequests = 4
    MaxDbErrors = 2
SYMMETRY Symmetry
INVARIANTS
    UniqueNameIsOwned
    CopiesNeedOverlap
