SPECIFICATION FairSpec
CONSTANTS
    Lines <- MCLines
    MaxPipes = 2
    Failures <- MCAllFailures
    PipeSize = 1
    MaxOutput = 2

INVARIANTS
    CommandsAreConnected
    NoStrayEnds
    ChildrenAreWaitedFor

PROPERTIES
    PipelineEnds

CHECK_DEADLOCK FALSE
