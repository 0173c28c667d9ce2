SPECIFICATION MCSpec
CONSTANTS
    Parts = {"astar"}
    State <- mcState
    Start = "s"
    Calls <- mcUnstableCalls
    Infinity = Infinity
    None = None
CHECK_DEADLOCK FALSE
INVARIANT
    SolvedByPlan
