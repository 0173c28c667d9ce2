SPECIFICATION FFSpec
CONSTANTS
    Fact <- openFact
    Predicate <- openFact
    PredOf <- openPredOf
    Rule <- openRule
    NullaryRule = {}
    NumStrata = 1
    StratumOf <- openStratumOf
    Literal <- openFact
    Atom <- openPredOf
    Positive <- openFact
    NullaryLiteral = {}
    Instance <- openInstance
    RuleOf <- openRuleOf
    HeadOf <- openHeadOf
    Graph <- openGraph
    Loose <- openNone
    Late <- openNone
    StartFacts <- openStart
    Goal = {"o1", "o2"}
    Terminating = TRUE
    Worker = {w1}
    RuleCost <- openCost
    Aggregate <- SumAggregation
    Binding <- openBinding
    BindingOf <- openBindingOf
    EffectOf <- openEffectOf
    RowOf <- openRowOf
    EffectsOf <- openEffectsOf
    Rows <- openRows
    Precondition <- openPrecondition
    Forbidden <- openForbidden
INVARIANT
    SuccessorsAgree
