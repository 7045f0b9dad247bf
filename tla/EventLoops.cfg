SPECIFICATION LiveSpec
CONSTANTS
    l1 = l1
    l2 = l2
    c1 = c1
    c2 = c2
    c3 = c3
    Loops = {l1, l2}
    Workers = {w1}
    Conns = {db1}
    Channels <- MCChannels
    Clients = {c1, c2}
    LoopOf <- MCLoopOf
    Kinds <- AllKinds
    Nobody = nobody
    Nothing = "nothing"
    Mutexes <- MCMutexes
    MaxPolls = 2
    MaxRequests = 2
    MaxDbErrors = 1
INVARIANTS
    GuardedAreRaceFree
    NothingHeldWhileWaiting
PROPERTIES
    RequestsFinish
