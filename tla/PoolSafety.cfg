SPECIFICATION Spec
CONSTANTS
    Threads = {t1, t2, t3, t4}
    Conns = {c1, c2}
    NoConn = NoConn
    Nobody = Nobody
    CleanupMayThrow = TRUE
    MaxLosses = 2
    MaxOutages = 1
SYMMETRY Symmetry
INVARIANTS
    TypeOK
    Conservation
    NoLostWakeup
