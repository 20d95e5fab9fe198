SPECIFICATION FairSpec
CONSTANTS
    Ids <- MCIds
    Files <- MCFiles
    Distance <- MCDistance
    Strategies = {"astar", "dijkstra", "dfs"}

INVARIANTS
    MapIsRight
    RoutesAreFound
    AnswerIsBest

PROPERTIES
    SearchEnds

CHECK_DEADLOCK FALSE
