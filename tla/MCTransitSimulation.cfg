SPECIFICATION Spec
CONSTANTS
    Viewers = {v1}
    Schedulers = {s1,s2}
    Names = {n1}
    Types = {"standard", "fancy"}
    Searches = {"dfs"}
    Scene <- MCDrones
    MaxEntities = 5
    MaxFlight = 1

INVARIANTS
    RidesAreSound
    RidesGoWhereLastAsked

PROPERTIES
    ImplementsRideHailing
    WaitingRobotsArrive
