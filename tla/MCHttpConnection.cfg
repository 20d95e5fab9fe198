SPECIFICATION FairSpec
CONSTANTS
    Workers = {w1, w2}
    Requests <- MCRequests
    Resources <- MCResources
    Extension <- MCExtension
    BUFSIZE = 3
    HeaderLength = 1
    Files <- MCFiles
    MaxFds = 4
    MaxChanges = 1

INVARIANTS
    ExchangesAreSound
    ResponseIsFile

PROPERTIES
    LossesAreBrokenRequests
    ImplementsHttpExchange
    

CHECK_DEADLOCK FALSE
