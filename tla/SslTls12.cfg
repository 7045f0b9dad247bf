SPECIFICATION LiveSpec
CONSTANTS
    Setups <- Secured
    Protocols = {"TLS_1_2"}
    Versions <- OnlyTls12
    Coalescing = {FALSE}
    Pipelining = {FALSE}
    MaxRequests = 1
PROPERTIES
    HandshakeSucceeds
