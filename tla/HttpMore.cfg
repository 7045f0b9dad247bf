SPECIFICATION LiveSpec
CONSTANTS
    Messages <- AllMessages
    Pipelining = {TRUE, FALSE}
    MaxMessages = 3
INVARIANTS
    TypeOK
    GoodClientIsServed
