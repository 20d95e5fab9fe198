SPECIFICATION BFairSpec
CONSTANTS
    Threads = {t1, t2, t3, t4, t5}
    CONCURRENCY_DEGREE = 4
    NoThread = NoThread

INVARIANTS
    BarrierInv

PROPERTIES
    FullBarrierOpens
