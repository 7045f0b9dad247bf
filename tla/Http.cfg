SPECIFICATION LiveSpec
CONSTANTS
    Messages <- AllMessages
    Pipelining = {TRUE, FALSE}
    MaxMessages = 3
INVARIANTS
    ClosedAsAsked
PROPERTIES
    ServiceSpec
    PatientClientIsAnswered
