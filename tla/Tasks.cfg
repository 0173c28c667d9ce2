SPECIFICATION MCSpec
CONSTANTS
    Parts = {"grounder", "canonical", "invariants", "match_tree", "formalism"}
    Schemas <- mcSchemas
    Tasks <- mcTasks
    DerivedFacts <- mcDerived
CHECK_DEADLOCK FALSE
INVARIANTS
    GroundTaskFaithful
    EstimateConsistent
    MutexGroups
    ListsApplicable
    TranslationFaithful
    CopiesFaithful
    RowsFaithful
PROPERTY
    DeadEndsStay
