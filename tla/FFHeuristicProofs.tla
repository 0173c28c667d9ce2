-------------------------- MODULE FFHeuristicProofs -------------------------
(***************************************************************************)
(* The FF heuristic, for every delete-free task whose effects quantify over  *)
(* nothing: the relaxed plan is one, costs no more than the goals under      *)
(* h_add, and the cache shared with the successor generator holds what a     *)
(* direct grounding yields.                                                  *)
(***************************************************************************)
EXTENDS FFHeuristic, BottomUpCostsProofs, SequenceTheorems

\* h_FF aggregates with h_add.
HAdd == \A cost : Aggregate(cost) = SumAggregation(cost)

\* Every rule of the program costs something (RPGProgram gives each of them cost 1).
CostlyRules == \A r \in Rule : RuleCost[r] >= 1

\* No conditional effect has variables of its own: the row of objects behind the
\* action's parameters is empty.
NoUniversalEffects == \A b \in Binding : \A c \in EffectsOf[b] : Rows[c] = {<<>>}

-----------------------------------------------------------------------------
(* The inductive invariant.                                                 *)

\* Atoms the extraction has visited or will visit.
Reached(f) == f \in marked \/ \E k \in 1 .. Len(calls) : calls[k] = f

\* The action of f's witness is in the plan and the witness's body is reached.
Supported(f) ==
    /\ InPlan(andAnnot[f].inst)
    /\ \A l \in Body(andAnnot[f].inst) : Reached(Atom[l])

\* due[k] is what the k-th and the later atoms of s cost.
SuffixCosts(cost, s, due) ==
    /\ due \in [1 .. Len(s) + 1 -> Nat]
    /\ due[Len(s) + 1] = 0
    /\ \A k \in 1 .. Len(s) : cost[s[k]] \in Nat /\ due[k] = cost[s[k]] + due[k + 1]

Due(cost, s, n) == \E due : SuffixCosts(cost, s, due) /\ due[1] = n

GoalCost == Aggregate([f \in Goal |-> orAnnot[f]])

\* A relaxed plan is being extracted or has been.
Extracting == phase = "extract" \/ (phase = "returned" /\ unsatGoals = {})

PhaseInv ==
    /\ phase \in {"solve", "extract", "returned"}
    /\ phase # "solve" => pc = "done"
    /\ phase = "extract" => unsatGoals = {}
    /\ unsatGoals = Goal \ facts

\* The goals, and the bodies of the witnesses met, are visited or waiting.
ReachedInv ==
    Extracting =>
        /\ calls \in Seq(facts)
        /\ marked \subseteq facts
        /\ phase = "returned" => calls = <<>>
        /\ \A f \in Goal : Reached(f)
        /\ \A f \in marked : f \in DOMAIN andAnnot => Supported(f)

\* What the plan costs and what is still due never exceeds the cost of the goals.
BudgetInv ==
    Extracting =>
        /\ IsFiniteSet(plan)
        /\ \E n \in Nat : Due(orAnnot, calls, n) /\ Cardinality(plan) + n <= GoalCost

PreferredInv ==
    /\ Extracting => preferred = {a \in plan : IsApplicable(a[1], start)}
    /\ phase = "extract" => dirty
    /\ ~dirty => preferredViews = preferred

CacheInv ==
    /\ DOMAIN cache \subseteq Binding
    /\ \A b \in DOMAIN cache : cache[b] = GroundEffects(b, <<>>)

FFInv == PhaseInv /\ ReachedInv /\ BudgetInv /\ PreferredInv /\ CacheInv /\ SuccessorsAgree

EngineInv == Abstract!IInv /\ CostInv /\ ExplainedInv

-----------------------------------------------------------------------------
(* Sequences of atoms.                                                      *)

LEMMA SupportedAgain ==
    ASSUME UNCHANGED andAnnot, NEW f, NEW i, i = andAnnot[f].inst,
           InPlan(i)', \A l \in Body(i) : Reached(Atom[l])'
    PROVE  Supported(f)'
BY DEF Supported, InPlan, Reached

\* SetToSeq lists every element once.
LEMMA Listing ==
    ASSUME NEW A, IsFiniteSet(A), NEW s, s = SetToSeq(A)
    PROVE  /\ Cardinality(A) \in Nat
           /\ s \in [1 .. Cardinality(A) -> A]
           /\ \A x \in A : \E k \in 1 .. Cardinality(A) : s[k] = x
           /\ \A j, k \in 1 .. Cardinality(A) : s[j] = s[k] => j = k
<1> DEFINE n == Cardinality(A)
<1>1. n \in Nat /\ ExistsBijection(1 .. n, A)
  BY FS_CardinalityType
<1>2. PICK b \in Bijection(1 .. n, A) : TRUE
  BY <1>1 DEF ExistsBijection
<1>3. b \in [1 .. n -> A] /\ IsInjective(b)
  BY <1>2 DEF Bijection, Injection
<1>4. s \in [1 .. n -> A] /\ IsInjective(s)
  BY <1>3 DEF SetToSeq
<1>5. s \in Injection(1 .. n, A)
  BY <1>4 DEF Injection
<1>6. Cardinality(1 .. n) = n
  BY <1>1, FS_Interval
<1>7. s \in Surjection(1 .. n, A)
  BY <1>5, <1>6, FS_Injection
<1> QED BY <1>1, <1>4, <1>7 DEF Surjection, IsInjective

\* The atoms of a set are due at its sum.
LEMMA ListingDue ==
    ASSUME NEW cost, NEW A, CostsOn(cost, A), NEW s, s = SetToSeq(A)
    PROVE  s \in Seq(A) /\ Sum(cost, A) \in Nat /\ Due(cost, s, Sum(cost, A))
<1> DEFINE n == Cardinality(A)
           Later(k) == {s[j] : j \in k .. n}
           due == [k \in 1 .. n + 1 |-> Sum(cost, Later(k))]
<1>1. /\ n \in Nat /\ s \in [1 .. n -> A]
      /\ \A x \in A : \E k \in 1 .. n : s[k] = x
      /\ \A j, k \in 1 .. n : s[j] = s[k] => j = k
  BY Listing DEF CostsOn
<1> HIDE DEF n
<1>2. s \in Seq(A) /\ Len(s) = n
  BY <1>1
<1>3. Later(1) = A
  BY <1>1
<1>4. Later(n + 1) = {}
  BY <1>1
<1>5. ASSUME NEW k \in 1 .. n + 1 PROVE CostsOn(cost, Later(k))
  <2>1. Later(k) \in SUBSET A
    BY <1>1
  <2>2. IsFiniteSet(Later(k))
    <3> HIDE DEF Later
    <3> QED BY <2>1, FS_Subset DEF CostsOn
  <2> HIDE DEF Later
  <2> QED BY <2>1, <2>2 DEF CostsOn
<1>6. ASSUME NEW k \in 1 .. n PROVE due[k] = cost[s[k]] + due[k + 1]
  <2>1. s[k] \in Later(k) /\ Later(k) \ {s[k]} = Later(k + 1)
    BY <1>1
  <2>2. k \in 1 .. n + 1 /\ k + 1 \in 1 .. n + 1
    BY <1>1
  <2>3. CostsOn(cost, Later(k))
    BY <1>5, <2>2
  <2>4. due[k] = Sum(cost, Later(k)) /\ due[k + 1] = Sum(cost, Later(k + 1))
    BY <2>2
  <2> HIDE DEF Later, due
  <2>5. Sum(cost, Later(k)) = cost[s[k]] + Sum(cost, Later(k) \ {s[k]})
    BY <2>1, <2>3, SumSplit
  <2> QED BY <2>1, <2>4, <2>5
<1>7. \A k \in 1 .. n + 1 : due[k] \in Nat
  <2> SUFFICES ASSUME NEW k \in 1 .. n + 1 PROVE due[k] \in Nat
    OBVIOUS
  <2>1. due[k] = Sum(cost, Later(k)) /\ CostsOn(cost, Later(k))
    BY <1>5
  <2> HIDE DEF Later, due
  <2> QED BY <2>1, SumNat
<1>8. due[n + 1] = 0 /\ due[1] = Sum(cost, A) /\ due = [k \in 1 .. n + 1 |-> due[k]]
  <2>1. 1 \in 1 .. n + 1 /\ n + 1 \in 1 .. n + 1
    BY <1>1
  <2>2. Sum(cost, {}) = 0
    BY SumDef, FS_EmptySet
  <2>3. due[n + 1] = Sum(cost, Later(n + 1)) /\ due[1] = Sum(cost, Later(1))
    BY <2>1
  <2>4. due = [k \in 1 .. n + 1 |-> due[k]]
    OBVIOUS
  <2> HIDE DEF due, Later
  <2> QED BY <1>3, <1>4, <2>2, <2>3, <2>4
<1> HIDE DEF due, Later
<1>9. \A k \in 1 .. n : cost[s[k]] \in Nat
  BY <1>1 DEF CostsOn
<1>10. SuffixCosts(cost, s, due)
  BY <1>2, <1>6, <1>7, <1>8, <1>9 DEF SuffixCosts
<1> QED BY <1>2, <1>8, <1>10, SumNat DEF Due

\* What is due of f and what is due of t together.
BothPaid(cost, f, t, n) == \E m \in Nat : Due(cost, t, m) /\ n = cost[f] + m

Splits(s, f, t) == (\E A : s \in Seq(A)) /\ s # <<>> /\ f = Head(s) /\ t = Tail(s)

\* What is due of a sequence is what its first atom costs and what is due of the rest.
LEMMA TailDue ==
    ASSUME NEW cost, NEW s, NEW f, NEW t, Splits(s, f, t), NEW n, Due(cost, s, n)
    PROVE  BothPaid(cost, f, t, n)
<1>0. PICK A : s \in Seq(A) /\ s # <<>> /\ f = Head(s) /\ t = Tail(s)
  BY DEF Splits
<1>1. PICK due : SuffixCosts(cost, s, due) /\ due[1] = n
  BY DEF Due
<1> DEFINE rest == [k \in 1 .. Len(s) |-> due[k + 1]]
<1>2. Len(s) \in Nat /\ Len(s) >= 1 /\ Len(Tail(s)) = Len(s) - 1 /\ Head(s) = s[1]
  BY <1>0
<1>3. \A k \in 1 .. Len(s) - 1 : Tail(s)[k] = s[k + 1]
  BY <1>0
<1>4. /\ \A k \in 1 .. Len(s) : due[k + 1] \in Nat /\ cost[s[k]] \in Nat /\ due[k] = cost[s[k]] + due[k + 1]
      /\ due[Len(s) + 1] = 0
  <2>1. /\ \A k \in 1 .. Len(s) + 1 : due[k] \in Nat
        /\ due[Len(s) + 1] = 0
        /\ \A k \in 1 .. Len(s) : cost[s[k]] \in Nat /\ due[k] = cost[s[k]] + due[k + 1]
    BY <1>1 DEF SuffixCosts
  <2>2. \A k \in 1 .. Len(s) : k + 1 \in 1 .. Len(s) + 1
    BY <1>2
  <2> QED BY <2>1, <2>2
<1>5. rest \in [1 .. Len(Tail(s)) + 1 -> Nat]
  BY <1>2, <1>4
<1>6. rest[Len(Tail(s)) + 1] = 0
  BY <1>2, <1>4
<1>7. ASSUME NEW k \in 1 .. Len(Tail(s))
      PROVE  cost[Tail(s)[k]] \in Nat /\ rest[k] = cost[Tail(s)[k]] + rest[k + 1]
  <2>1. k \in 1 .. Len(s) /\ k + 1 \in 1 .. Len(s) /\ Tail(s)[k] = s[k + 1]
    BY <1>2, <1>3
  <2>2. rest[k] = due[k + 1] /\ rest[k + 1] = due[(k + 1) + 1]
    BY <2>1
  <2> HIDE DEF rest
  <2> QED BY <1>4, <2>1, <2>2
<1>8. rest[1] = due[2] /\ rest[1] \in Nat /\ due[1] = cost[s[1]] + due[2]
  <2>1. 1 \in 1 .. Len(s)
    BY <1>2
  <2> QED BY <1>4, <2>1
<1> HIDE DEF rest
<1>9. Due(cost, t, rest[1])
  BY <1>0, <1>5, <1>6, <1>7 DEF SuffixCosts, Due
<1>10. n = cost[f] + rest[1]
  BY <1>0, <1>1, <1>2, <1>8
<1> QED BY <1>8, <1>9, <1>10 DEF BothPaid

\* What is due of two sequences adds up.
LEMMA BothDue ==
    ASSUME NEW cost, NEW A, NEW s \in Seq(A), NEW t \in Seq(A), NEW m \in Nat, NEW n \in Nat,
           Due(cost, s, m), Due(cost, t, n)
    PROVE  Due(cost, s \o t, m + n)
<1>1. PICK due : SuffixCosts(cost, s, due) /\ due[1] = m
  BY DEF Due
<1>2. PICK rest : SuffixCosts(cost, t, rest) /\ rest[1] = n
  BY DEF Due
<1> DEFINE a == Len(s)
           b == Len(t)
           u == s \o t
           both == [k \in 1 .. a + b + 1 |-> IF k <= a THEN due[k] + n ELSE rest[k - a]]
<1>3. a \in Nat /\ b \in Nat /\ Len(u) = a + b
  OBVIOUS
<1>4. \A k \in 1 .. a + b : u[k] = IF k <= a THEN s[k] ELSE t[k - a]
  OBVIOUS
<1>5. /\ \A k \in 1 .. a + 1 : due[k] \in Nat
      /\ due[a + 1] = 0
      /\ \A k \in 1 .. a : cost[s[k]] \in Nat /\ due[k] = cost[s[k]] + due[k + 1]
  BY <1>1 DEF SuffixCosts
<1>6. /\ \A k \in 1 .. b + 1 : rest[k] \in Nat
      /\ rest[b + 1] = 0
      /\ \A k \in 1 .. b : cost[t[k]] \in Nat /\ rest[k] = cost[t[k]] + rest[k + 1]
  BY <1>2 DEF SuffixCosts
<1> HIDE DEF a, b, u
<1>7. ASSUME NEW k \in 1 .. a + b + 1 PROVE both[k] \in Nat
  <2>1. CASE k <= a
    <3>1. k \in 1 .. a + 1
      BY <1>3, <2>1
    <3> QED BY <1>3, <1>5, <2>1, <3>1
  <2>2. CASE ~(k <= a)
    <3>1. k - a \in 1 .. b + 1
      BY <1>3, <2>2
    <3> QED BY <1>6, <2>2, <3>1
  <2> QED BY <2>1, <2>2
<1>8. both[a + b + 1] = 0
  <2>1. a + b + 1 \in 1 .. a + b + 1 /\ ~(a + b + 1 <= a) /\ (a + b + 1) - a = b + 1
    BY <1>3
  <2> QED BY <1>6, <2>1
<1>9. ASSUME NEW k \in 1 .. a + b
      PROVE  cost[u[k]] \in Nat /\ both[k] = cost[u[k]] + both[k + 1]
  <2>1. k \in 1 .. a + b + 1 /\ k + 1 \in 1 .. a + b + 1
    BY <1>3
  <2>2. /\ both[k] = IF k <= a THEN due[k] + n ELSE rest[k - a]
        /\ both[k + 1] = IF k + 1 <= a THEN due[k + 1] + n ELSE rest[(k + 1) - a]
    BY <2>1
  <2> HIDE DEF both
  <2>3. CASE k < a
    <3>1. k \in 1 .. a /\ k + 1 \in 1 .. a + 1 /\ k <= a /\ k + 1 <= a
      BY <1>3, <2>3
    <3>2. cost[s[k]] \in Nat /\ due[k] = cost[s[k]] + due[k + 1] /\ due[k + 1] \in Nat /\ due[k] \in Nat
      <4>1. k \in 1 .. a + 1
        BY <1>3, <2>3
      <4> QED BY <1>5, <3>1, <4>1
    <3>3. u[k] = s[k] /\ both[k] = due[k] + n /\ both[k + 1] = due[k + 1] + n
      BY <1>4, <2>2, <3>1
    <3> QED BY <3>2, <3>3
  <2>4. CASE k = a
    <3>1. k \in 1 .. a /\ k <= a /\ ~(k + 1 <= a) /\ (k + 1) - a = 1
      BY <1>3, <2>4
    <3>2. cost[s[k]] \in Nat /\ due[k] = cost[s[k]] + due[a + 1] /\ due[a + 1] = 0
      BY <1>5, <2>4, <3>1
    <3>3. u[k] = s[k] /\ both[k] = due[k] + n /\ both[k + 1] = n
      BY <1>2, <1>4, <2>2, <3>1
    <3> QED BY <1>5, <2>4, <3>2, <3>3
  <2>5. CASE k > a
    <3>1. k - a \in 1 .. b /\ ~(k <= a) /\ ~(k + 1 <= a) /\ (k + 1) - a = (k - a) + 1
      BY <1>3, <2>5
    <3>2. u[k] = t[k - a]
      BY <1>4, <3>1
    <3> QED BY <1>6, <2>2, <3>1, <3>2
  <2> QED BY <1>3, <2>3, <2>4, <2>5
<1>10. both[1] = m + n
  <2>1. 1 \in 1 .. a + b + 1
    BY <1>3
  <2>2. CASE a = 0
    BY <1>1, <1>2, <1>5, <2>1, <2>2
  <2>3. CASE a # 0
    BY <1>1, <1>3, <2>1, <2>3
  <2> QED BY <2>2, <2>3
<1>11. both \in [1 .. Len(u) + 1 -> Nat]
  BY <1>3, <1>7
<1> HIDE DEF both
<1>12. SuffixCosts(cost, u, both)
  BY <1>3, <1>8, <1>9, <1>11 DEF SuffixCosts
<1> QED BY <1>10, <1>12 DEF Due, u

-----------------------------------------------------------------------------
(* What the engine has left.                                                *)

\* h_add asks no less of the aggregation than the engine relies on.
LEMMA AddBounds == HAdd => AggregateBounds(Nat)
<1> SUFFICES ASSUME HAdd, NEW i \in Instance, NEW cost \in [Body(i) \cap Positive -> Nat]
             PROVE  /\ Aggregate(cost) \in Nat
                    /\ \A l \in Body(i) \cap Positive : cost[l] <= Aggregate(cost)
  BY DEF AggregateBounds
<1>1. IsFiniteSet(Body(i))
  BY FiniteAssumption
<1>2. PICK L : L = Body(i) \cap Positive
  OBVIOUS
<1>3. IsFiniteSet(L)
  BY <1>1, <1>2, FS_Subset
<1>4. SumAggregation(cost) \in Nat /\ \A l \in L : cost[l] <= SumAggregation(cost)
  BY <1>2, <1>3, SumAggregationBounds
<1>5. Aggregate(cost) = SumAggregation(cost)
  BY DEF HAdd
<1> QED BY <1>2, <1>4, <1>5

\* Every step of the heuristic is one of the engine or leaves the engine alone.
LEMMA EngineSteps == [FFNext]_allVars => [Next]_vars
<1> SUFFICES ASSUME [FFNext]_allVars PROVE [Next]_vars
  OBVIOUS
<1>1. CASE SolveStep
  BY <1>1 DEF SolveStep, Next
<1>2. CASE \E S \in StartFacts : Reevaluate(S)
  BY <1>2 DEF Reevaluate, Next
<1>3. CASE EndSolve \/ ExtractAtom \/ EndExtraction \/ GetPreferredActionViews \/ GenerateSuccessors
  BY <1>3 DEF EndSolve, ExtractAtom, EndExtraction, GetPreferredActionViews, GenerateSuccessors
<1>4. CASE UNCHANGED allVars
  BY <1>4 DEF allVars
<1> QED BY <1>1, <1>2, <1>3, <1>4 DEF FFNext

LEMMA EngineInvariance ==
    ASSUME AggregateBounds(Nat)
    PROVE  /\ Init => EngineInv
           /\ EngineInv /\ [Next]_vars => EngineInv'
<1>1. Init => Abstract!IInv /\ CostInv
  BY InitCostInv, InitEngine, ProgramAssumptions, Abstract!InitIInv
<1>2. ASSUME Abstract!IInv, CostInv, [Next]_vars PROVE Abstract!IInv' /\ CostInv'
  BY <1>2, NextCostInv, NextEngine, ProgramAssumptions, Abstract!NextIInv
<1>3. ASSUME EngineInv, [Next]_vars PROVE EngineInv'
  <2>1. Abstract!IInv /\ CostInv /\ ExplainedInv
    BY <1>3 DEF EngineInv
  <2>2. Abstract!IInv' /\ CostInv'
    BY <1>2, <1>3, <2>1
  <2>3. ExplainedInv'
    BY <1>3, <2>1, NextExplained
  <2> QED BY <2>2, <2>3 DEF EngineInv
<1> QED BY <1>1, <1>3, InitExplained DEF EngineInv

\* Goals that are facts cost no more than their aggregated cost.
LEMMA GoalsDue ==
    ASSUME HAdd, EngineInv, Goal \subseteq facts
    PROVE  /\ CostsOn(orAnnot, Goal)
           /\ GoalCost \in Nat /\ Sum(orAnnot, Goal) <= GoalCost
<1>1. CostTypes /\ AnnotInv
  BY DEF EngineInv, CostInv
<1>2. \A f \in Goal : orAnnot[f] \in Nat
  BY <1>1 DEF CostTypes, AnnotInv
<1>3. IsFiniteSet(Goal)
  BY FiniteAssumption
<1> DEFINE same == [f \in Goal |-> f]
           cost == [f \in Goal |-> orAnnot[f]]
<1>4. \A f \in Goal : same[f] = f
  OBVIOUS
<1>5. {same[f] : f \in Goal} = Goal /\ [f \in Goal |-> orAnnot[same[f]]] = cost
  BY <1>4
<1>6. \A f \in Goal : orAnnot[same[f]] \in Nat
  BY <1>2, <1>4
<1>7. GoalCost = Sum(cost, Goal)
  <2>1. GoalCost = SumAggregation(cost)
    BY DEF HAdd, GoalCost
  <2>2. DOMAIN cost = Goal
    OBVIOUS
  <2> HIDE DEF cost
  <2> QED BY <2>1, <2>2 DEF SumAggregation, Sum
<1>8. CostsOn(cost, Goal) /\ CostsOn(orAnnot, Goal)
  BY <1>2, <1>3 DEF CostsOn
<1> HIDE DEF same, cost
<1>9. Sum(orAnnot, {same[f] : f \in Goal}) <= Sum([f \in Goal |-> orAnnot[same[f]]], Goal)
  BY <1>3, <1>6, SumImage
<1>10. Sum(cost, Goal) \in Nat
  BY <1>8, SumNat
<1> QED BY <1>5, <1>7, <1>8, <1>9, <1>10

\* The body of a witness is paid for by its head, which costs at least one more.
LEMMA BodyDue ==
    ASSUME HAdd, CostlyRules, EngineInv, NEW f \in facts, f \in DOMAIN andAnnot,
           NEW i, i = andAnnot[f].inst, NEW A, A = {Atom[l] : l \in Body(i)}
    PROVE  /\ i \in Instance /\ HeadOf[i] = f
           /\ A \subseteq facts /\ IsFiniteSet(A)
           /\ CostsOn(orAnnot, A)
           /\ Sum(orAnnot, A) \in Nat /\ orAnnot[f] \in Nat
           /\ Sum(orAnnot, A) + 1 <= orAnnot[f]
<1>1. CostTypes /\ AnnotInv /\ ExplainedInv
  BY DEF EngineInv, CostInv
<1>2. f \in DOMAIN orAnnot \ start /\ orAnnot[f] \in Nat
  BY <1>1 DEF CostTypes, AnnotInv, ExplainedInv
<1>3. i \in Instance /\ HeadOf[i] = f /\ Holds(Body(i), facts)
  BY <1>1, <1>2 DEF AnnotInv
<1>4. Body(i) \subseteq Positive /\ IsFiniteSet(Body(i)) /\ RuleOf[i] \in Rule
  BY <1>3, RelaxationAssumption, FiniteAssumption, TypeAssumption
<1>5. Body(i) \cap Positive = Body(i)
  BY <1>4
<1>6. \A l \in Body(i) : Atom[l] \in facts
  BY <1>3, <1>4 DEF Holds, Sat
<1>7. \A l \in Body(i) : orAnnot[Atom[l]] \in Nat
  BY <1>1, <1>6 DEF CostTypes, AnnotInv
<1> DEFINE L == Body(i)
           cost == [l \in L |-> orAnnot[Atom[l]]]
<1>8. IsFiniteSet(A)
  BY <1>4, FiniteImage
<1>9. CostsOn(orAnnot, A) /\ CostsOn(cost, L)
  BY <1>4, <1>7, <1>8 DEF CostsOn
<1>10. Sum(orAnnot, {Atom[l] : l \in L}) <= Sum([l \in L |-> orAnnot[Atom[l]]], L)
  <2> HIDE DEF L
  <2>1. IsFiniteSet(L) /\ \A l \in L : orAnnot[Atom[l]] \in Nat
    BY <1>4, <1>7 DEF L
  <2> QED BY <2>1, SumImage
<1>11. Aggregate(cost) = Sum(cost, L)
  <2>1. Aggregate(cost) = SumAggregation(cost)
    BY DEF HAdd
  <2>2. DOMAIN cost = L
    OBVIOUS
  <2> HIDE DEF cost, L
  <2> QED BY <2>1, <2>2 DEF SumAggregation, Sum
<1>12. orAnnot[f] = Aggregate(cost) + RuleCost[RuleOf[i]]
  <2>1. orAnnot[f] = WitnessCost(i)
    BY <1>1, <1>2 DEF ExplainedInv
  <2> QED BY <1>5, <2>1 DEF WitnessCost
<1>13. RuleCost[RuleOf[i]] \in Nat /\ RuleCost[RuleOf[i]] >= 1
  BY <1>4, CostAssumption DEF CostlyRules
<1>14. A \subseteq facts
  BY <1>6
<1>15. Sum(orAnnot, A) <= Sum(cost, L)
  BY <1>10
<1> HIDE DEF cost, L
<1>16. Sum(orAnnot, A) \in Nat /\ Sum(cost, L) \in Nat
  BY <1>9, SumNat
<1>17. Sum(orAnnot, A) + 1 <= orAnnot[f]
  BY <1>11, <1>12, <1>13, <1>15, <1>16
<1> QED BY <1>2, <1>3, <1>8, <1>9, <1>14, <1>16, <1>17

-----------------------------------------------------------------------------
(* The steps.                                                               *)

\* Without universal effects a binding has one ground action, whatever its context is.
LEMMA OneGroundAction ==
    ASSUME NoUniversalEffects, NEW i \in Instance
    PROVE  /\ RowOf[i] = <<>>
           /\ <<EffectOf[i], RowOf[i]>> \in GroundEffects(BindingOf[i], <<>>)
<1>1. BindingOf[i] \in Binding /\ EffectOf[i] \in EffectsOf[BindingOf[i]] /\ RowOf[i] \in Rows[EffectOf[i]]
  BY RelaxationAssumption
<1>2. Rows[EffectOf[i]] = {<<>>}
  BY <1>1 DEF NoUniversalEffects
<1>3. SubSeq(<<>> \o <<>>, 1, Len(<<>>)) = <<>>
  <2>1. Len(<<>>) = 0
    OBVIOUS
  <2> QED BY <2>1, SubSeqEmpty
<1>4. RowOf[i] = <<>>
  BY <1>1, <1>2
<1>5. PICK c \in EffectsOf[BindingOf[i]] : c = EffectOf[i] /\ Rows[c] = {<<>>}
  BY <1>1, <1>2
<1> DEFINE grounded(x) == {<<x, SubSeq(<<>> \o t, 1, Len(t))>> : t \in Rows[x]}
<1>6. grounded(c) = {<<c, <<>>>>}
  BY <1>3, <1>5
<1>7. GroundEffects(BindingOf[i], <<>>) = UNION {grounded(x) : x \in EffectsOf[BindingOf[i]]}
  BY DEF GroundEffects
<1>8. <<c, <<>>>> \in grounded(c)
  BY <1>6
<1> HIDE DEF grounded
<1>9. <<c, <<>>>> \in GroundEffects(BindingOf[i], <<>>)
  BY <1>7, <1>8
<1> QED BY <1>4, <1>5, <1>9

LEMMA InitFF == FFInit => FFInv
<1> SUFFICES ASSUME FFInit PROVE FFInv
  OBVIOUS
<1>1. PhaseInv /\ ReachedInv /\ BudgetInv
  BY DEF FFInit, Init, PhaseInv, ReachedInv, BudgetInv, Extracting
<1>2. PreferredInv /\ CacheInv /\ SuccessorsAgree
  BY DEF FFInit, PreferredInv, Extracting, CacheInv, SuccessorsAgree, EmptyMap
<1> QED BY <1>1, <1>2 DEF FFInv

\* The goals that are no facts are the unsatisfied ones.
LEMMA NextGoals ==
    ASSUME unsatGoals = Goal \ facts, [Next]_vars
    PROVE  unsatGoals' = Goal \ facts'
<1>1. CASE Terminate \/ StartIteration \/ (\E r \in Rule, w \in Worker : RunRule(r, w)) \/ Exhausted
  BY <1>1 DEF Terminate, StartIteration, RunRule, Exhausted
<1>2. CASE InsertBucket
  <2>1. PICK B : facts' = facts \cup B /\ unsatGoals' = unsatGoals \ B
    BY <1>2 DEF InsertBucket
  <2> QED BY <2>1
<1>3. ASSUME NEW S \in StartFacts, Solve(S) PROVE unsatGoals' = Goal \ facts'
  BY <1>3 DEF Solve
<1>4. CASE UNCHANGED vars
  BY <1>4 DEF vars
<1> QED BY <1>1, <1>2, <1>3, <1>4 DEF Next, EngineStep

LEMMA SolveStepInv ==
    ASSUME FFInv, SolveStep
    PROVE  FFInv'
<1>1. EngineStep /\ UNCHANGED ffVars /\ PhaseInv /\ PreferredInv /\ CacheInv /\ SuccessorsAgree
  BY DEF FFInv, SolveStep
<1>2. pc # "done" /\ UNCHANGED start
  BY <1>1 DEF EngineStep, Terminate, StartIteration, RunRule, Exhausted, InsertBucket
<1>3. phase' = "solve"
  BY <1>1, <1>2 DEF PhaseInv, ffVars
<1>4. PhaseInv'
  <2>1. unsatGoals' = Goal \ facts'
    BY <1>1, NextGoals DEF PhaseInv, Next
  <2> QED BY <1>3, <2>1 DEF PhaseInv
<1>5. ~Extracting'
  BY <1>3 DEF Extracting
<1>6. ReachedInv' /\ BudgetInv' /\ PreferredInv'
  BY <1>1, <1>5 DEF ReachedInv, BudgetInv, PreferredInv, ffVars
<1>7. CacheInv' /\ SuccessorsAgree'
  BY <1>1, <1>2 DEF CacheInv, SuccessorsAgree, ffVars
<1> QED BY <1>4, <1>6, <1>7 DEF FFInv

\* At first the goals are due.
LEMMA EndSolveInv ==
    ASSUME HAdd, EngineInv, FFInv, EndSolve
    PROVE  FFInv'
<1>1. /\ phase = "solve" /\ pc = "done" /\ UNCHANGED vars /\ UNCHANGED <<cache, successors, preferredViews>>
      /\ PhaseInv /\ PreferredInv /\ CacheInv /\ SuccessorsAgree
  BY DEF FFInv, EndSolve, BeginExtraction
<1>2. UNCHANGED <<start, facts, unsatGoals, pc, orAnnot, andAnnot>>
  BY <1>1 DEF vars, costVars
<1>3. CacheInv' /\ SuccessorsAgree'
  BY <1>1, <1>2 DEF CacheInv, SuccessorsAgree
<1>4. CASE unsatGoals # {}
  <2>1. phase' = "returned" /\ UNCHANGED <<preferred, dirty>>
    BY <1>4 DEF EndSolve
  <2>2. ~Extracting'
    BY <1>2, <1>4, <2>1 DEF Extracting
  <2>3. ReachedInv' /\ BudgetInv' /\ PreferredInv'
    BY <1>1, <2>1, <2>2 DEF ReachedInv, BudgetInv, PreferredInv
  <2>4. PhaseInv'
    BY <1>1, <1>2, <2>1 DEF PhaseInv
  <2> QED BY <1>3, <2>3, <2>4 DEF FFInv
<1>5. CASE unsatGoals = {}
  <2>1. BeginExtraction
    BY <1>5 DEF EndSolve
  <2>2. /\ phase' = "extract" /\ calls' = SetToSeq(Goal) /\ marked' = {} /\ plan' = {}
        /\ preferred' = {} /\ dirty' = TRUE
    BY <2>1 DEF BeginExtraction
  <2>3. Goal \subseteq facts
    BY <1>1, <1>5 DEF PhaseInv
  <2>4. PhaseInv'
    BY <1>1, <1>2, <1>5, <2>2 DEF PhaseInv
  <2>5. PICK n : n = Sum(orAnnot, Goal)
    OBVIOUS
  <2>6. CostsOn(orAnnot, Goal) /\ GoalCost \in Nat /\ n <= GoalCost
    BY <2>3, <2>5, GoalsDue
  <2>7. calls' \in Seq(Goal) /\ n \in Nat /\ Due(orAnnot, calls', n)
    BY <2>2, <2>5, <2>6, ListingDue
  <2>8. ReachedInv'
    <3>1. ASSUME NEW f \in Goal PROVE Reached(f)'
      <4>1. PICK k \in 1 .. Cardinality(Goal) : calls'[k] = f
        BY <2>2, FiniteAssumption, Listing
      <4>2. Len(calls') = Cardinality(Goal)
        BY <2>2, FiniteAssumption, Listing
      <4> QED BY <4>1, <4>2 DEF Reached
    <3>2. calls' \in Seq(facts')
      BY <1>2, <2>3, <2>7
    <3> QED BY <2>2, <3>1, <3>2 DEF ReachedInv
  <2>9. GoalCost' = GoalCost
    BY <1>2 DEF GoalCost
  <2>10. BudgetInv'
    <3>1. IsFiniteSet(plan') /\ Cardinality(plan') = 0
      BY <2>2, FS_EmptySet
    <3>2. Cardinality(plan') + n <= GoalCost'
      BY <2>6, <2>7, <2>9, <3>1
    <3>3. Due(orAnnot', calls', n)
      BY <1>2, <2>7
    <3> QED BY <2>7, <3>1, <3>2, <3>3 DEF BudgetInv
  <2>11. PreferredInv'
    BY <2>2 DEF PreferredInv
  <2> QED BY <1>3, <2>4, <2>8, <2>10, <2>11 DEF FFInv
<1> QED BY <1>4, <1>5

\* A visited atom hands what is due of it on to its supporters and to one more action.
LEMMA ExtractAtomInv ==
    ASSUME HAdd, CostlyRules, NoUniversalEffects, EngineInv, FFInv, ExtractAtom
    PROVE  FFInv'
<1>1. /\ phase = "extract" /\ calls # <<>> /\ phase' = "extract"
      /\ UNCHANGED <<preferredViews, dirty, successors>> /\ UNCHANGED vars
      /\ PhaseInv /\ ReachedInv /\ BudgetInv /\ PreferredInv /\ CacheInv /\ SuccessorsAgree
  BY DEF FFInv, ExtractAtom
<1>2. UNCHANGED <<start, facts, unsatGoals, pc, orAnnot, andAnnot>>
  BY <1>1 DEF vars, costVars
<1>3. Extracting
  BY <1>1 DEF Extracting
<1>4. PhaseInv' /\ SuccessorsAgree'
  BY <1>1, <1>2 DEF PhaseInv, SuccessorsAgree
<1>5. /\ calls \in Seq(facts) /\ marked \subseteq facts
      /\ \A f \in Goal : Reached(f)
      /\ \A f \in marked : f \in DOMAIN andAnnot => Supported(f)
  BY <1>1, <1>3 DEF ReachedInv
<1>6. PICK f : f = Head(calls)
  OBVIOUS
<1>7. f \in facts /\ marked' = marked \cup {f}
  <2>1. Head(calls) \in facts
    BY <1>1, <1>5
  <2>2. marked' = marked \cup {Head(calls)}
    BY DEF ExtractAtom
  <2> QED BY <1>6, <2>1, <2>2
<1>8. /\ Len(calls) \in Nat /\ Len(calls) >= 1 /\ f = calls[1]
      /\ Tail(calls) \in Seq(facts) /\ Len(Tail(calls)) = Len(calls) - 1
      /\ \A k \in 2 .. Len(calls) : k - 1 \in 1 .. Len(Tail(calls)) /\ Tail(calls)[k - 1] = calls[k]
  BY <1>1, <1>5, <1>6
<1>9. IsFiniteSet(plan) /\ Cardinality(plan) \in Nat
  BY <1>1, <1>3, FS_CardinalityType DEF BudgetInv
<1>10. PICK n \in Nat : Due(orAnnot, calls, n) /\ Cardinality(plan) + n <= GoalCost
  BY <1>1, <1>3 DEF BudgetInv
<1>11. PICK m \in Nat : Due(orAnnot, Tail(calls), m) /\ n = orAnnot[f] + m
  <2>1. calls \in Seq(facts) /\ calls # <<>> /\ Due(orAnnot, calls, n)
    BY <1>1, <1>5, <1>10
  <2>2. PICK rest : rest = Tail(calls)
    OBVIOUS
  <2>3. Splits(calls, f, rest)
    BY <1>6, <2>1, <2>2 DEF Splits
  <2>4. BothPaid(orAnnot, f, rest, n)
    BY <2>1, <2>3, TailDue
  <2> QED BY <2>2, <2>4 DEF BothPaid
<1>12. orAnnot[f] \in Nat /\ GoalCost' = GoalCost
  <2>1. orAnnot[f] \in Nat
    BY <1>7 DEF EngineInv, CostInv, CostTypes, AnnotInv
  <2>2. GoalCost' = GoalCost
    BY <1>2 DEF GoalCost
  <2> QED BY <2>1, <2>2
<1>13. GoalCost \in Nat
  <2>1. Goal \subseteq facts
    BY <1>1 DEF PhaseInv
  <2> QED BY <2>1, GoalsDue
<1>14. CASE f \in marked \/ f \notin DOMAIN andAnnot
  <2>1. calls' = Tail(calls) /\ UNCHANGED <<plan, preferred, cache>>
    BY <1>6, <1>14 DEF ExtractAtom
  <2>2. CacheInv'
    BY <1>1, <2>1 DEF CacheInv
  <2>3. PreferredInv'
    BY <1>1, <1>2, <1>3, <2>1 DEF PreferredInv
  <2>4. BudgetInv'
    <3>1. Cardinality(plan) + m <= GoalCost
      BY <1>9, <1>10, <1>11, <1>12, <1>13
    <3>2. Due(orAnnot', calls', m)
      BY <1>2, <1>11, <2>1
    <3> QED BY <1>9, <1>12, <2>1, <3>1, <3>2 DEF BudgetInv
  <2>5. \A g : Reached(g) => Reached(g)'
    <3> SUFFICES ASSUME NEW g, Reached(g) PROVE Reached(g)'
      OBVIOUS
    <3>1. CASE g \in marked
      BY <1>7, <3>1 DEF Reached
    <3>2. CASE \E k \in 1 .. Len(calls) : calls[k] = g
      <4>1. PICK k \in 1 .. Len(calls) : calls[k] = g
        BY <3>2
      <4>2. CASE k = 1
        BY <1>7, <1>8, <4>1, <4>2 DEF Reached
      <4>3. CASE k # 1
        <5>1. k - 1 \in 1 .. Len(calls') /\ calls'[k - 1] = g
          BY <1>8, <2>1, <4>1, <4>3
        <5> QED BY <5>1 DEF Reached
      <4> QED BY <4>2, <4>3
    <3> QED BY <3>1, <3>2 DEF Reached
  <2>6. \A i : InPlan(i)' <=> InPlan(i)
    BY <2>1 DEF InPlan
  <2>7. ReachedInv'
    <3>1. ASSUME NEW g \in marked', g \in DOMAIN andAnnot PROVE Supported(g)'
      <4>1. PICK j : j = andAnnot[g].inst
        OBVIOUS
      <4>2. g \in marked
        BY <1>7, <1>14, <3>1
      <4>3. InPlan(j) /\ \A l \in Body(j) : Reached(Atom[l])
        BY <1>5, <3>1, <4>1, <4>2 DEF Supported
      <4> QED BY <1>2, <2>5, <2>6, <4>1, <4>3, SupportedAgain
    <3>2. calls' \in Seq(facts') /\ marked' \subseteq facts'
      BY <1>2, <1>5, <1>7, <1>8, <2>1
    <3>3. \A g \in Goal : Reached(g)'
      BY <1>5, <2>5
    <3> QED BY <1>1, <1>2, <3>1, <3>2, <3>3 DEF ReachedInv
  <2> QED BY <1>4, <2>2, <2>3, <2>4, <2>7 DEF FFInv
<1>15. CASE f \notin marked /\ f \in DOMAIN andAnnot
  <2>1. PICK i, A : i = andAnnot[f].inst /\ A = {Atom[l] : l \in Body(i)}
    OBVIOUS
  <2>2. PICK action : action = <<BindingOf[i], Ground(BindingOf[i], RowOf[i])>>
    OBVIOUS
  <2>3. PICK s : s = SetToSeq(A)
    OBVIOUS
  <2>4. /\ calls' = s \o Tail(calls)
        /\ cache' = Cached(cache, BindingOf[i], RowOf[i])
        /\ plan' = plan \cup {action}
        /\ preferred' = IF IsApplicable(BindingOf[i], start) THEN preferred \cup {action} ELSE preferred
    BY <1>6, <1>15, <2>1, <2>2, <2>3 DEF ExtractAtom
  <2>5. /\ i \in Instance /\ HeadOf[i] = f
        /\ A \subseteq facts /\ IsFiniteSet(A) /\ CostsOn(orAnnot, A)
        /\ Sum(orAnnot, A) \in Nat /\ Sum(orAnnot, A) + 1 <= orAnnot[f]
    BY <1>7, <1>15, <2>1, BodyDue
  <2>6. /\ RowOf[i] = <<>> /\ BindingOf[i] \in Binding
        /\ <<EffectOf[i], RowOf[i]>> \in GroundEffects(BindingOf[i], <<>>)
    BY <2>5, OneGroundAction, RelaxationAssumption
  <2>7. Ground(BindingOf[i], RowOf[i]) = GroundEffects(BindingOf[i], <<>>)
    BY <1>1, <2>6 DEF Ground, CacheInv
  <2>8. CacheInv'
    BY <1>1, <2>4, <2>6 DEF CacheInv, Cached
  <2>9. PreferredInv'
    <3>1. action[1] = BindingOf[i]
      BY <2>2
    <3>2. preferred = {a \in plan : IsApplicable(a[1], start)}
      BY <1>1, <1>3 DEF PreferredInv
    <3>3. preferred' = {a \in plan' : IsApplicable(a[1], start)}
      BY <2>4, <3>1, <3>2
    <3>4. dirty
      BY <1>1 DEF PreferredInv
    <3> QED BY <1>1, <1>2, <3>3, <3>4 DEF PreferredInv
  <2>10. s \in Seq(A) /\ s \in Seq(facts) /\ Due(orAnnot, s, Sum(orAnnot, A))
    <3>1. s \in Seq(A) /\ Due(orAnnot, s, Sum(orAnnot, A))
      BY <2>3, <2>5, ListingDue
    <3> QED BY <2>5, <3>1
  <2>11. BudgetInv'
    <3>1. PICK p : p = Sum(orAnnot, A)
      OBVIOUS
    <3>2. Due(orAnnot, s \o Tail(calls), p + m)
      BY <1>8, <1>11, <2>5, <2>10, <3>1, BothDue
    <3>3. IsFiniteSet(plan') /\ Cardinality(plan') \in Nat /\ Cardinality(plan') <= Cardinality(plan) + 1
      <4>1. /\ IsFiniteSet(plan \cup {action})
            /\ Cardinality(plan \cup {action}) = IF action \in plan THEN Cardinality(plan) ELSE Cardinality(plan) + 1
        BY <1>9, FS_AddElement
      <4> QED BY <1>9, <2>4, <4>1
    <3>4. p \in Nat /\ p + 1 <= orAnnot[f]
      BY <2>5, <3>1
    <3>5. Cardinality(plan') + (p + m) <= GoalCost /\ p + m \in Nat
      BY <1>9, <1>10, <1>11, <1>12, <1>13, <3>3, <3>4
    <3>6. Due(orAnnot', calls', p + m)
      BY <1>2, <2>4, <3>2
    <3> QED BY <1>12, <3>3, <3>5, <3>6 DEF BudgetInv
  <2>12. \A g : Reached(g) => Reached(g)'
    <3> SUFFICES ASSUME NEW g, Reached(g) PROVE Reached(g)'
      OBVIOUS
    <3>1. CASE g \in marked
      BY <1>7, <3>1 DEF Reached
    <3>2. CASE \E k \in 1 .. Len(calls) : calls[k] = g
      <4>1. PICK k \in 1 .. Len(calls) : calls[k] = g
        BY <3>2
      <4>2. CASE k = 1
        BY <1>7, <1>8, <4>1, <4>2 DEF Reached
      <4>3. CASE k # 1
        <5>1. k - 1 \in 1 .. Len(Tail(calls)) /\ Tail(calls)[k - 1] = g
          BY <1>8, <4>1, <4>3
        <5>2. Len(s) + (k - 1) \in 1 .. Len(calls') /\ calls'[Len(s) + (k - 1)] = g
          BY <1>8, <2>4, <2>10, <5>1
        <5> QED BY <5>2 DEF Reached
      <4> QED BY <4>2, <4>3
    <3> QED BY <3>1, <3>2 DEF Reached
  <2>13. \A g \in A : Reached(g)'
    <3> SUFFICES ASSUME NEW g \in A PROVE Reached(g)'
      OBVIOUS
    <3>1. /\ Cardinality(A) \in Nat /\ s \in [1 .. Cardinality(A) -> A]
          /\ \E k \in 1 .. Cardinality(A) : s[k] = g
      BY <2>3, <2>5, Listing
    <3>2. PICK k \in 1 .. Cardinality(A) : s[k] = g
      BY <3>1
    <3>3. Len(s) = Cardinality(A)
      BY <3>1
    <3>4. k \in 1 .. Len(calls') /\ calls'[k] = g
      BY <1>8, <2>4, <2>10, <3>1, <3>2, <3>3
    <3> QED BY <3>4 DEF Reached
  <2>14. InPlan(i)' /\ \A j : InPlan(j) => InPlan(j)'
    <3>1. InPlan(i)'
      <4>1. action \in plan' /\ action[1] = BindingOf[i] /\ <<EffectOf[i], RowOf[i]>> \in action[2]
        BY <2>2, <2>4, <2>6, <2>7
      <4> QED BY <4>1 DEF InPlan
    <3>2. \A j : InPlan(j) => InPlan(j)'
      BY <2>4 DEF InPlan
    <3> QED BY <3>1, <3>2
  <2>15. ReachedInv'
    <3>1. ASSUME NEW g \in marked', g \in DOMAIN andAnnot PROVE Supported(g)'
      <4>1. CASE g \in marked
        <5>1. PICK j : j = andAnnot[g].inst
          OBVIOUS
        <5>2. InPlan(j) /\ \A l \in Body(j) : Reached(Atom[l])
          BY <1>5, <3>1, <4>1, <5>1 DEF Supported
        <5> QED BY <1>2, <2>12, <2>14, <5>1, <5>2, SupportedAgain
      <4>2. CASE g = f
        <5>1. InPlan(i)' /\ \A l \in Body(i) : Reached(Atom[l])'
          BY <2>1, <2>13, <2>14
        <5> QED BY <1>2, <2>1, <4>2, <5>1, SupportedAgain
      <4> QED BY <1>7, <4>1, <4>2
    <3>2. calls' \in Seq(facts') /\ marked' \subseteq facts'
      BY <1>2, <1>5, <1>7, <1>8, <2>4, <2>10
    <3>3. \A g \in Goal : Reached(g)'
      BY <1>5, <2>12
    <3> QED BY <1>1, <1>2, <3>1, <3>2, <3>3 DEF ReachedInv
  <2> QED BY <1>4, <2>8, <2>9, <2>11, <2>15 DEF FFInv
<1> QED BY <1>14, <1>15

LEMMA EndExtractionInv ==
    ASSUME FFInv, EndExtraction
    PROVE  FFInv'
<1>1. /\ phase = "extract" /\ calls = <<>> /\ phase' = "returned" /\ UNCHANGED vars
      /\ UNCHANGED <<calls, marked, plan, preferred, preferredViews, dirty, cache, successors>>
      /\ PhaseInv /\ ReachedInv /\ BudgetInv /\ PreferredInv /\ CacheInv /\ SuccessorsAgree
  BY DEF FFInv, EndExtraction
<1>2. UNCHANGED <<start, facts, unsatGoals, pc, orAnnot, andAnnot>>
  BY <1>1 DEF vars, costVars
<1>3. Extracting
  BY <1>1 DEF Extracting
<1>4. PhaseInv' /\ PreferredInv' /\ CacheInv' /\ SuccessorsAgree'
  BY <1>1, <1>2, <1>3 DEF PhaseInv, PreferredInv, CacheInv, SuccessorsAgree
<1>5. ReachedInv'
  BY <1>1, <1>2, <1>3 DEF ReachedInv, Supported, Reached, InPlan
<1>6. BudgetInv'
  BY <1>1, <1>2, <1>3 DEF BudgetInv, GoalCost
<1> QED BY <1>4, <1>5, <1>6 DEF FFInv

\* After an evaluation the extraction's results are left alone.
LEMMA ReturnedInv ==
    ASSUME FFInv, phase = "returned",
           UNCHANGED <<phase, calls, marked, plan, preferred>>, UNCHANGED vars,
           ~dirty' => preferredViews' = preferred,
           CacheInv', SuccessorsAgree'
    PROVE  FFInv'
<1>1. UNCHANGED <<start, facts, unsatGoals, pc, orAnnot, andAnnot>>
  BY DEF vars, costVars
<1>2. PhaseInv /\ ReachedInv /\ BudgetInv /\ PreferredInv
  BY DEF FFInv
<1>3. Extracting' <=> Extracting
  BY <1>1 DEF Extracting
<1>4. PhaseInv' /\ PreferredInv'
  BY <1>1, <1>2, <1>3 DEF PhaseInv, PreferredInv
<1>5. ReachedInv'
  BY <1>1, <1>2, <1>3 DEF ReachedInv, Supported, Reached, InPlan
<1>6. BudgetInv'
  BY <1>1, <1>2, <1>3 DEF BudgetInv, GoalCost
<1> QED BY <1>4, <1>5, <1>6 DEF FFInv

\* The cache gives the successor generator what it would ground itself.
LEMMA GenerateSuccessorsInv ==
    ASSUME FFInv, GenerateSuccessors
    PROVE  FFInv'
<1>1. /\ phase = "returned" /\ UNCHANGED <<phase, calls, marked, plan, preferred, preferredViews, dirty>>
      /\ UNCHANGED vars
  BY DEF GenerateSuccessors
<1>2. PreferredInv /\ CacheInv /\ UNCHANGED start
  BY <1>1 DEF FFInv, vars
<1>3. PICK applicable : applicable = {b \in Binding : IsApplicable(b, start)}
  OBVIOUS
<1>4. /\ cache' = [b \in DOMAIN cache \cup applicable |-> Ground(b, <<>>)]
      /\ successors' = [b \in applicable |-> AddedBy(b, cache'[b], start)]
  BY <1>3 DEF GenerateSuccessors
<1>5. \A b : Ground(b, <<>>) = GroundEffects(b, <<>>)
  BY <1>2 DEF Ground, CacheInv
<1>6. CacheInv'
  BY <1>2, <1>3, <1>4, <1>5 DEF CacheInv
<1>7. \A b \in applicable : cache'[b] = GroundEffects(b, <<>>)
  BY <1>4, <1>5
<1>8. SuccessorsAgree'
  BY <1>2, <1>4, <1>7 DEF SuccessorsAgree
<1>9. ~dirty' => preferredViews' = preferred
  BY <1>1, <1>2 DEF PreferredInv
<1> QED BY <1>1, <1>6, <1>8, <1>9, ReturnedInv

LEMMA NextFF ==
    ASSUME HAdd, CostlyRules, NoUniversalEffects, EngineInv, FFInv, [FFNext]_allVars
    PROVE  FFInv'
<1>1. CASE SolveStep
  BY <1>1, SolveStepInv
<1>2. CASE EndSolve
  BY <1>2, EndSolveInv
<1>3. CASE ExtractAtom
  BY <1>3, ExtractAtomInv
<1>4. CASE EndExtraction
  BY <1>4, EndExtractionInv
<1>5. CASE GetPreferredActionViews
  <2>1. /\ phase = "returned" /\ UNCHANGED <<phase, calls, marked, plan, preferred>>
        /\ UNCHANGED vars /\ preferredViews' = preferred /\ UNCHANGED <<cache, successors>>
    BY <1>5 DEF GetPreferredActionViews
  <2>2. CacheInv' /\ SuccessorsAgree'
    BY <2>1 DEF FFInv, CacheInv, SuccessorsAgree, vars
  <2> QED BY <2>1, <2>2, ReturnedInv
<1>6. CASE GenerateSuccessors
  BY <1>6, GenerateSuccessorsInv
<1>7. ASSUME NEW S \in StartFacts, Reevaluate(S) PROVE FFInv'
  <2>1. /\ Solve(S) /\ phase' = "solve" /\ successors' = EmptyMap
        /\ UNCHANGED <<preferred, preferredViews, dirty, cache>>
        /\ PreferredInv /\ CacheInv
    BY <1>7 DEF Reevaluate, FFInv
  <2>2. ~Extracting'
    BY <2>1 DEF Extracting
  <2>3. PhaseInv'
    BY <2>1 DEF PhaseInv, Solve
  <2>4. ReachedInv' /\ BudgetInv' /\ PreferredInv' /\ CacheInv'
    BY <2>1, <2>2 DEF ReachedInv, BudgetInv, PreferredInv, CacheInv
  <2>5. SuccessorsAgree'
    BY <2>1 DEF SuccessorsAgree, EmptyMap
  <2> QED BY <2>3, <2>4, <2>5 DEF FFInv
<1>8. CASE UNCHANGED allVars
  <2>1. /\ UNCHANGED <<phase, calls, marked, plan, preferred, preferredViews, dirty, cache, successors>>
        /\ UNCHANGED <<start, facts, unsatGoals, pc, orAnnot, andAnnot>>
    BY <1>8 DEF allVars, ffVars, vars, costVars
  <2>2. PhaseInv' /\ PreferredInv' /\ CacheInv' /\ SuccessorsAgree'
    BY <2>1 DEF FFInv, PhaseInv, PreferredInv, Extracting, CacheInv, SuccessorsAgree
  <2>3. ReachedInv'
    BY <2>1 DEF FFInv, ReachedInv, Extracting, Supported, Reached, InPlan
  <2>4. BudgetInv'
    BY <2>1 DEF FFInv, BudgetInv, Extracting, GoalCost
  <2> QED BY <2>2, <2>3, <2>4 DEF FFInv
<1> QED BY <1>1, <1>2, <1>3, <1>4, <1>5, <1>6, <1>7, <1>8 DEF FFNext

-----------------------------------------------------------------------------
(* The theorems.                                                            *)

LEMMA FFInvariance ==
    HAdd /\ CostlyRules /\ NoUniversalEffects /\ FFSpec => [](EngineInv /\ FFInv)
<1> SUFFICES ASSUME HAdd, CostlyRules, NoUniversalEffects PROVE FFSpec => [](EngineInv /\ FFInv)
  OBVIOUS
<1>1. FFInit => EngineInv /\ FFInv
  BY AddBounds, EngineInvariance, InitFF DEF FFInit
<1>2. EngineInv /\ FFInv /\ [FFNext]_allVars => (EngineInv /\ FFInv)'
  BY AddBounds, EngineSteps, EngineInvariance, NextFF
<1> QED BY <1>1, <1>2, PTL DEF FFSpec

\* The actions of the plan reach what has been visited: an atom whose witness rests on
\* atoms within reach is within reach, and witnesses do not rest on each other in a circle.
LEMMA PlanReaches ==
    ASSUME EngineInv, FFInv, Extracting, phase = "returned",
           NEW F \in SUBSET Fact, ClosedUnderPlan(F), NEW f \in marked
    PROVE  f \in F
<1>1. ReachedInv /\ calls = <<>> /\ marked \subseteq facts
  BY DEF FFInv, ReachedInv
<1>2. WitnessesFounded
  BY FoundedWitnesses DEF EngineInv
<1> DEFINE C == marked \ F
           supporters(g) == {Atom[l] : l \in Body(andAnnot[g].inst) \cap Positive}
<1>3. start \subseteq F
  BY DEF ClosedUnderPlan
<1>4. C \subseteq facts \ start
  BY <1>1, <1>3
<1>5. ASSUME C # {} PROVE FALSE
  <2>1. PICK g \in C : supporters(g) \cap C = {}
    <3>1. \A D \in SUBSET (facts \ start) : D = {} \/ \E g \in D : supporters(g) \cap D = {}
      BY <1>2 DEF WitnessesFounded
    <3> HIDE DEF C, supporters
    <3> QED BY <1>4, <1>5, <3>1
  <2>2. g \in DOMAIN andAnnot /\ HeadOf[andAnnot[g].inst] = g
    BY <1>2, <1>4, <2>1 DEF WitnessesFounded
  <2>3. PICK i : i = andAnnot[g].inst
    OBVIOUS
  <2>4. InPlan(i) /\ \A l \in Body(i) : Reached(Atom[l])
    BY <1>1, <2>1, <2>2, <2>3 DEF ReachedInv, Supported
  <2>5. i \in Instance
    BY <1>4, <2>1, <2>3 DEF EngineInv, CostInv, AnnotInv
  <2>6. \A l \in Body(i) : l \in Positive /\ Atom[l] \in F
    <3> SUFFICES ASSUME NEW l \in Body(i) PROVE l \in Positive /\ Atom[l] \in F
      OBVIOUS
    <3>1. l \in Positive
      BY <2>5, RelaxationAssumption
    <3>2. Atom[l] \in marked
      BY <1>1, <2>4 DEF Reached
    <3>3. Atom[l] \in supporters(g)
      BY <2>3, <3>1
    <3> QED BY <2>1, <3>1, <3>2, <3>3
  <2>7. Holds(Body(i), F)
    BY <2>6 DEF Holds, Sat
  <2>8. g \in F
    BY <2>2, <2>3, <2>4, <2>5, <2>7 DEF ClosedUnderPlan
  <2> QED BY <2>1, <2>8
<1> QED BY <1>5

\* What the extraction returns after an evaluation with a finite value is a relaxed plan for
\* the evaluated state with no more actions than h_add, and its preferred actions are the
\* applicable ones of it, whatever the evaluations before have left in the workspace and in
\* the cache (extract_relaxed_plan_and_preferred_actions).
THEOREM RelaxedPlansRight ==
    HAdd /\ CostlyRules /\ NoUniversalEffects /\ FFSpec => []RelaxedPlanRight
<1> SUFFICES ASSUME HAdd, CostlyRules, NoUniversalEffects PROVE FFSpec => []RelaxedPlanRight
  OBVIOUS
<1>1. ASSUME EngineInv, FFInv PROVE RelaxedPlanRight
  <2> SUFFICES ASSUME phase = "returned", unsatGoals = {}
               PROVE  /\ Goal \subseteq RelaxedReach
                      /\ Cardinality(plan) <= GoalCost
                      /\ preferred = {a \in plan : IsApplicable(a[1], start)}
                      /\ ~dirty => preferredViews = preferred
    BY DEF RelaxedPlanRight, GoalCost
  <2>1. Extracting /\ ReachedInv /\ BudgetInv /\ PreferredInv
    BY <1>1 DEF FFInv, Extracting
  <2>2. ASSUME NEW f \in Goal PROVE f \in RelaxedReach
    <3>1. f \in marked
      BY <2>1 DEF ReachedInv, Reached
    <3>2. f \in Fact
      BY CostAssumption
    <3> QED BY <1>1, <2>1, <3>1, <3>2, PlanReaches DEF RelaxedReach
  <2>3. Cardinality(plan) <= GoalCost
    <3>1. PICK n \in Nat : Cardinality(plan) + n <= GoalCost
      BY <2>1 DEF BudgetInv
    <3>2. IsFiniteSet(plan) /\ Cardinality(plan) \in Nat
      BY <2>1, FS_CardinalityType DEF BudgetInv
    <3>3. GoalCost \in Nat
      <4>1. Goal \subseteq facts
        BY <1>1 DEF FFInv, PhaseInv
      <4> QED BY <1>1, <4>1, GoalsDue
    <3> QED BY <3>1, <3>2, <3>3
  <2> QED BY <2>1, <2>2, <2>3 DEF PreferredInv
<1> QED BY <1>1, FFInvariance, PTL

\* Without universal effects the ground actions in the shared cache are those the successor
\* generator would ground itself, so expanding an applicable binding does what the binding
\* does (get_labeled_successor_nodes): the hypothesis is what the ground action of a
\* universal effect, grounded for one witness of it, breaks.
THEOREM SuccessorsAgreeWithoutUniversals ==
    HAdd /\ CostlyRules /\ NoUniversalEffects /\ FFSpec => []SuccessorsAgree
<1>1. FFInv => SuccessorsAgree
  BY DEF FFInv
<1> QED BY <1>1, FFInvariance, PTL
=============================================================================
