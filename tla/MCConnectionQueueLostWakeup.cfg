SPECIFICATION QFairSpec
CONSTANTS
    Producers = {p1}
    Consumers = {c1, c2}
    Fds <- MCOneFd
    CAPACITY = 1
    NoThread = NoThread
PROPERTY ShutdownUnblocks
