SPECIFICATION LiveSpec
CONSTANTS
    Threads = {t1, t2, t3}
    Conns = {c1, c2}
    NoConn = NoConn
    Nobody = Nobody
    CleanupMayThrow = TRUE
    MaxLosses = 0
    MaxOutages = 1
PROPERTIES
    IdleIsRepaired
    OnlyCheckerHoldsBack
    PoolServes
