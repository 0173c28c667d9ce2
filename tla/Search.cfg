SPECIFICATION MCSpec
CONSTANTS
    Parts = {"astar", "open_list"}
    State <- mcState
    Start = "s"
    Calls <- mcCalls
    Infinity = Infinity
    None = None
CHECK_DEADLOCK FALSE
INVARIANTS
    PlanReachesGoal
    OptimalPlan
    ExhaustedUnsolvable
PROPERTIES
    NoStarvation
    CallsReturn
