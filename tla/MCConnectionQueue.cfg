SPECIFICATION QFairSpec
CONSTANTS
    Producers = {p1, p2}
    Consumers = {c1, c2}
    Fds <- MCFds
    CAPACITY = 2
    NoThread = NoThread

INVARIANTS
    QInv
    NoLostSignal

PROPERTIES
    ImplementsBoundedQueue
    QueueMovesOn
