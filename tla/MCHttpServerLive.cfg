SPECIFICATION FairSpec
CONSTANTS
    Main = main
    Producers <- MCProducers
    Consumers = {w1, w2}
    Fds <- MCTwoClients
    CAPACITY = 1
    NoThread = NoThread

PROPERTIES
    AcceptedIsClosed
    BroadcastReleasesSleepers
    ShutdownEnds

CHECK_DEADLOCK FALSE
