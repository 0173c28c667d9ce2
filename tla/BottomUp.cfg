SPECIFICATION Spec
CONSTANTS
    Fact <- mcFact
    Predicate <- mcPredicate
    PredOf <- mcPredOf
    Rule <- mcRule
    NullaryRule <- mcNullaryRule
    NumStrata = 3
    StratumOf <- mcStratumOf
    Literal <- mcLiteral
    Atom <- mcAtom
    Positive <- mcPositive
    NullaryLiteral <- mcNullaryLiteral
    Instance <- mcInstance
    RuleOf <- mcRuleOf
    HeadOf <- mcHeadOf
    Graph <- mcGraph
    Loose <- mcLoose
    Late <- mcLate
    StartFacts <- mcStartFacts
    Goal = {"g", "t1"}
    Terminating = TRUE
INVARIANTS
    EmittedApplicable
    Founded
    Complete
    NovelBindings
    IInv
PROPERTY
    SolveEnds
