--------------------------- MODULE MCBottomUpCosts --------------------------
\* Instances of BottomUpCosts for TLC: the engine's program of TaskInstances with costs.
EXTENDS BottomUpCosts

Instances == INSTANCE TaskInstances

mcInstance == Instances!engineInstance
mcFact == Instances!engineFact
mcPredOf == Instances!enginePredOf
mcPredicate == Instances!enginePredicate
mcRule == Instances!engineRule
mcNullaryRule == Instances!engineNullaryRule
mcStratumOf == Instances!engineStratumOf
mcLiteral == Instances!engineLiteral
mcAtom == Instances!engineAtom
mcPositive == Instances!enginePositive
mcNullaryLiteral == Instances!engineNullaryLiteral
mcRuleOf == Instances!engineRuleOf
mcHeadOf == Instances!engineHeadOf
mcGraph == Instances!engineGraph
mcLoose == Instances!engineLoose
mcLate == Instances!engineLate
mcRuleCost == Instances!engineRuleCost

mcCostStartFacts == {{"p2"}, {"p1", "n"}, {"p1", "p2"}}

\* The hypothesis of the theorems of BottomUpCostsProofs, for the sums of small costs.
ASSUME AggregateAssumption == AggregateBounds(0 .. 2)
=============================================================================
