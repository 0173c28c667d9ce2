SPECIFICATION MCSpec
CONSTANTS
    Predicate <- mcPredicate
    Programs <- mcPrograms
    Vertex <- mcVertex
    StaticGraph <- mcGraphs
    MaxIterations = 3
CHECK_DEADLOCK FALSE
INVARIANTS
    RulesStratified
    StrataMinimal
    FullGraphExact
    HeadsExact
    DomainsSuffice
PROPERTIES
    DeltaGraphExact
    NewCliquesOnce
