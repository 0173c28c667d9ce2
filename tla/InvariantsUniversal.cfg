SPECIFICATION MCSpec
CONSTANTS
    Parts = {"invariants"}
    Schemas <- mcUniversal
    Tasks <- mcTasks
    DerivedFacts <- mcDerived
CHECK_DEADLOCK FALSE
INVARIANT
    MutexGroups
