SPECIFICATION Spec
CONSTANTS
    Messages <- AllMessages
    Pipelining = {FALSE}
    MaxMessages = 2
INVARIANTS
    NoAssertionFails
    BodyIsOwn
    ShortConnectionCloses
