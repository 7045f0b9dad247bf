SPECIFICATION LiveSpec
CONSTANTS
    Workers = {w1, w2}
    Channels <- TwoChannels
    NoRow = NoRow
    Poison <- SecondRow
    MaxRows = 4
    MaxCrashes = 1
    MaxDbErrors = 1
    MaxBrokerRestarts = 1
INVARIANTS
    TypeOK
    NothingForgotten
    DuplicatesNeedFailures
PROPERTIES
    RestartMissesOnlyQueued
    QueuedIsStored
