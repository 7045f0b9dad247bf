SPECIFICATION LiveSpec
CONSTANTS
    Threads = {t1, t2}
    Conns = {c1, c2}
    NoConn = NoConn
    Nobody = Nobody
    CleanupMayThrow = FALSE
    MaxLosses = 1
    MaxOutages = 0
PROPERTIES
    TakenIsReturned
