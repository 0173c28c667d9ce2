----------------------------- MODULE MCBottomUp -----------------------------
(***************************************************************************)
(* Instances of BottomUp for TLC: the engine's program of TaskInstances.    *)
(***************************************************************************)
EXTENDS BottomUp

Instances == INSTANCE TaskInstances

mcInstance == Instances!engineInstance
mcFact == Instances!engineFact
mcPredOf == Instances!enginePredOf
mcPredicate == Instances!enginePredicate
mcRule == Instances!engineRule
mcNullaryRule == Instances!engineNullaryRule
mcStratumOf == Instances!engineStratumOf
mcLiteral == Instances!engineLiteral
mcAtom == Instances!engineAtom
mcPositive == Instances!enginePositive
mcNullaryLiteral == Instances!engineNullaryLiteral
mcRuleOf == Instances!engineRuleOf
mcHeadOf == Instances!engineHeadOf
mcGraph == Instances!engineGraph
mcLoose == Instances!engineLoose
mcLate == Instances!engineLate

mcStartFacts == {{"p1"}, {"p2"}, {"p1", "p2"}, {"q1", "n"}, {"p1", "p2", "t2"}}
=============================================================================
