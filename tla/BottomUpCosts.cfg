SPECIFICATION Spec
CONSTANTS
    Fact <- mcFact
    Predicate <- mcPredicate
    PredOf <- mcPredOf
    Rule <- mcRule
    NullaryRule <- mcNullaryRule
    NumStrata = 3
    StratumOf <- mcStratumOf
    Literal <- mcLiteral
    Atom <- mcAtom
    Positive <- mcPositive
    NullaryLiteral <- mcNullaryLiteral
    Instance <- mcInstance
    RuleOf <- mcRuleOf
    HeadOf <- mcHeadOf
    Graph <- mcGraph
    Loose <- mcLoose
    Late <- mcLate
    StartFacts <- mcCostStartFacts
    Goal = {"z"}
    Terminating = TRUE
    Worker = {w1, w2}
    RuleCost <- mcRuleCost
    Aggregate <- SumAggregation
INVARIANTS
    OptimalCosts
    WitnessesFounded
PROPERTY
    EngineSpec
