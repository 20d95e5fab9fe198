SPECIFICATION Spec
CONSTANTS
    Main = main
    Producers <- MCProducers
    Consumers = {w1, w2}
    Fds <- MCThreeClients
    CAPACITY = 2
    NoThread = NoThread
SYMMETRY MCSymmetry

INVARIANTS
    ServerIsOrderly
    ExactlyOneOwner

PROPERTIES
    ServesInOrder

CHECK_DEADLOCK FALSE
