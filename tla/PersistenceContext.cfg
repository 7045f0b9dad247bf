SPECIFICATION Spec
CONSTANTS
    Workers = {w1, w2}
    Channels <- TwoChannels
    NoRow = NoRow
    Poison <- NoPoison
    MaxRows = 2
    MaxCrashes = 1
    MaxDbErrors = 0
    MaxBrokerRestarts = 0
INVARIANTS
    ContextIsComplete
