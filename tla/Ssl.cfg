SPECIFICATION LiveSpec
CONSTANTS
    Setups <- AllSetups
    Protocols = {"TLS_1_1", "TLS_1_2", "TLS_1_3"}
    Versions <- Clients
    Coalescing = {TRUE, FALSE}
    Pipelining = {TRUE, FALSE}
    MaxRequests = 4
INVARIANTS
    TypeOK
    NothingLostInside
    EnabledMeansTls
PROPERTIES
    ServiceSpec
    Tls13HandshakeSucceeds
    PatientClientIsAnswered
