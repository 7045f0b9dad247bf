SPECIFICATION LiveSpec
CONSTANTS
    Setups <- Secured
    Protocols = {"TLS_1_2"}
    Versions <- OnlyTls13
    Coalescing = {TRUE}
    Pipelining = {FALSE}
    MaxRequests = 1
PROPERTIES
    RequestsAreAnswered
