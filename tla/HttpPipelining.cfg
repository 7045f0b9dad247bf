SPECIFICATION LiveSpec
CONSTANTS
    Messages <- WellFormed
    Pipelining = {TRUE}
    MaxMessages = 2
PROPERTIES
    EveryMessageAnswered
