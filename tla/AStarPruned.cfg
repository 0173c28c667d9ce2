SPECIFICATION MCSpec
CONSTANTS
    Parts = {"astar"}
    State <- mcState
    Start = "s"
    Calls <- mcCalls
    Infinity = Infinity
    None = None
CHECK_DEADLOCK FALSE
INVARIANT
    UnsolvabilityProven
