SPECIFICATION FFSpec
CONSTANTS
    Fact <- chainFact
    Predicate <- chainFact
    PredOf <- chainPredOf
    Rule <- chainRule
    NullaryRule = {}
    NumStrata = 1
    StratumOf <- chainStratumOf
    Literal <- chainFact
    Atom <- chainPredOf
    Positive <- chainFact
    NullaryLiteral = {}
    Instance <- chainInstance
    RuleOf <- chainRuleOf
    HeadOf <- chainHeadOf
    Graph <- chainGraph
    Loose <- chainNone
    Late <- chainNone
    StartFacts <- chainStart
    Goal = {"g", "h"}
    Terminating = TRUE
    Worker = {w1}
    RuleCost <- chainCost
    Aggregate <- SumAggregation
    Binding <- chainBinding
    BindingOf <- chainBindingOf
    EffectOf <- chainEffectOf
    RowOf <- chainRowOf
    EffectsOf <- chainEffectsOf
    Rows <- chainRows
    Precondition <- chainPrecondition
    Forbidden <- chainForbidden
INVARIANT
    RelaxedPlanRight
