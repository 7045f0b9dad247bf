SPECIFICATION Spec
CONSTANTS
    Setups <- AllSetups
    Protocols = {"TLS_1_2"}
    Versions <- OnlyTls13
    Coalescing = {FALSE}
    Pipelining = {FALSE}
    MaxRequests = 1
INVARIANTS
    OnlyCiphertext
    PlainByDefault
