SPECIFICATION Spec
CONSTANTS
    State <- mcState
    Start = "s"
    Calls <- mcLazyCalls
    Infinity = Infinity
    None = None
    Boost = 4
    MaxH = 3
CHECK_DEADLOCK FALSE
INVARIANTS
    PlanReachesGoal
    ExhaustedUnsolvable
    QueuesPartition
    ShareBounded
PROPERTIES
    Alternates
    Returns
