------------------------ MODULE BottomUpCostsProofs ------------------------
(***************************************************************************)
(* The engine with costs is an engine, its costs are optimal and its        *)
(* witnesses founded, for every program, every aggregation that does not    *)
(* fall below its arguments, and every number of workers.                   *)
(***************************************************************************)
EXTENDS BottomUpCosts, WellFoundedInduction, FiniteSetTheorems, TLAPS

\* The engine this one implements, with what is proved of it.
Abstract == INSTANCE BottomUpProofs WITH
    waiting <- Waiting,
    pending <- UNION {pending[v] : v \in Worker},
    heads <- [r \in Rule |-> AllHeads(r)]

-----------------------------------------------------------------------------
(* The inductive invariant.                                                 *)

\* The facts that rules of stratum s derive.
HeadsOf(s) == {f \in Fact : \E i \in Instance : HeadOf[i] = f /\ StratumOf[RuleOf[i]] = s}

Witness == [inst : Instance, cost : Nat]

Ran(r) == pc = "run" /\ r \in active \ todo

CostTypes ==
    /\ current \in Nat
    /\ buckets \subseteq Nat \X Fact
    /\ DOMAIN orAnnot \subseteq Fact
    /\ \A f \in DOMAIN orAnnot : orAnnot[f] \in Nat
    /\ pending \in [Worker -> SUBSET Instance]
    /\ heads \in [Rule -> [Worker -> SUBSET Fact]]
    /\ local \in [Rule -> [Worker -> UNION {[D -> Witness] : D \in SUBSET Fact}]]

\* Start facts cost nothing; every other annotated fact has an applicable witness
\* that explains its cost.
AnnotInv ==
    /\ \A f \in start : f \in DOMAIN orAnnot /\ orAnnot[f] = 0
    /\ facts \subseteq DOMAIN orAnnot
    /\ \A f \in DOMAIN orAnnot \ start :
        /\ f \in DOMAIN andAnnot
        /\ andAnnot[f].inst \in Instance
        /\ HeadOf[andAnnot[f].inst] = f
        /\ StratumOf[RuleOf[andAnnot[f].inst]] <= stratum
        /\ Holds(Body(andAnnot[f].inst), facts)
        /\ andAnnot[f].cost = orAnnot[f]

\* The buckets above the current cost hold what is annotated but no fact, each fact
\* once and at its cost; what this stratum has made a fact costs no more than that.
BucketInv ==
    /\ \A b \in buckets : b[1] = current => b[2] \in facts
    /\ \A b \in buckets : b[1] > current =>
        b[2] \notin facts /\ b[2] \in DOMAIN orAnnot /\ orAnnot[b[2]] = b[1]
    /\ pc # "done" => \A f \in HeadsOf(stratum) \cap DOMAIN orAnnot :
        IF f \in facts THEN orAnnot[f] <= current
        ELSE orAnnot[f] > current /\ <<orAnnot[f], f>> \in buckets

\* What a rule has not seen yet is a fact of this stratum, and costs no less than what
\* is inserted at the moment if the rule listens to it.
SeenInv ==
    pc # "done" => \A r \in RulesOfStratum(stratum) :
        /\ r \in fresh => current = 0
        /\ r \notin fresh => \A f \in facts \ snapshot[r] :
            /\ f \in HeadsOf(stratum)
            /\ PredOf[f] \in BodyPredicates(r) => orAnnot[f] >= current

\* A clique a rule has seen waits, unless its head is a fact or it was applicable.
KeptInv ==
    pc # "done" => \A i \in Instance :
        /\ StratumOf[RuleOf[i]] = stratum
        /\ RuleOf[i] \notin fresh
        /\ RuleOf[i] \notin NullaryRule
        /\ Consistent(i, snapshot[RuleOf[i]])
        => \/ HeadOf[i] \in facts
           \/ Holds(Body(i), snapshot[RuleOf[i]])
           \/ \E v \in Worker : i \in pending[v]

\* A binding its rule has seen applicable has been considered for its head's cost, or
\* will be at the merge.
ConsideredInv ==
    pc # "done" => \A i \in Instance :
        LET r == RuleOf[i] f == HeadOf[i]
        IN  /\ StratumOf[r] = stratum
            /\ r \notin fresh
            /\ Holds(Body(i), snapshot[r])
            => \/ f \in DOMAIN orAnnot /\ orAnnot[f] <= WitnessCost(i)
               \/ /\ Ran(r)
                  /\ \E v \in Worker : /\ f \in DOMAIN local[r][v]
                                       /\ local[r][v][f].cost <= WitnessCost(i)

\* The witnesses of a task are bindings that have fired for a head that is no fact, at
\* a cost that is still to come.
LocalInv ==
    \A r \in Rule : Ran(r) => \A v \in Worker : \A f \in DOMAIN local[r][v] :
        LET x == local[r][v][f]
        IN  /\ x.inst \in InstancesOf(r)
            /\ HeadOf[x.inst] = f
            /\ Holds(Body(x.inst), facts)
            /\ x.cost = WitnessCost(x.inst)
            /\ x.cost >= current
            /\ f \notin facts
            /\ f \in heads[r][v]

\* Of the strata below the costs are final.
OptimalBelow ==
    \A i \in Instance :
        /\ StratumOf[RuleOf[i]] < stratum \/ pc = "done"
        /\ Holds(Body(i), facts)
        /\ HeadOf[i] \in facts
        => orAnnot[HeadOf[i]] <= WitnessCost(i)

\* Facts can be ranked so that witnesses rest on facts of lower rank.
RankedInv ==
    \E n \in Nat : \E rank \in [Fact -> Nat] :
        /\ \A f \in facts : rank[f] <= n
        /\ \A f \in facts \ start : \A l \in Body(andAnnot[f].inst) \cap Positive :
            Atom[l] \in start \/ rank[Atom[l]] < rank[f]

CostInv ==
    /\ CostTypes
    /\ AnnotInv
    /\ BucketInv
    /\ SeenInv
    /\ KeptInv
    /\ ConsideredInv
    /\ LocalInv
    /\ OptimalBelow
    /\ RankedInv

-----------------------------------------------------------------------------
(* What is known of the engine.                                             *)

LEMMA ProgramAssumptions ==
    /\ Abstract!TypeAssumption
    /\ Abstract!ProjectionAssumption
    /\ Abstract!StratificationAssumption
    /\ Abstract!InputAssumption
<1>1. Abstract!TypeAssumption
  BY TypeAssumption DEF Abstract!TypeAssumption
<1>2. Abstract!ProjectionAssumption
  BY ProjectionAssumption DEF Abstract!ProjectionAssumption
<1>3. Abstract!StratificationAssumption
  BY StratificationAssumption DEF Abstract!StratificationAssumption, Abstract!Body, Body
<1>4. Abstract!InputAssumption
  BY CostAssumption DEF Abstract!InputAssumption
<1> QED BY <1>1, <1>2, <1>3, <1>4

\* The instances speak of the same program.
LEMMA SameProgram ==
    /\ \A i : Abstract!Body(i) = Body(i) /\ Engine!Body(i) = Body(i)
    /\ \A L, F : Abstract!Holds(L, F) = Holds(L, F) /\ Engine!Holds(L, F) = Holds(L, F)
    /\ \A r : Abstract!InstancesOf(r) = InstancesOf(r) /\ Engine!InstancesOf(r) = InstancesOf(r)
    /\ \A i, F : Abstract!Consistent(i, F) = Consistent(i, F) /\ Engine!Consistent(i, F) = Consistent(i, F)
    /\ \A r : Abstract!BodyPredicates(r) = BodyPredicates(r)
    /\ \A s : Abstract!RulesOfStratum(s) = RulesOfStratum(s)
    /\ \A s, P : Abstract!Listeners(s, P) = Listeners(s, P)
<1>1. \A i : Abstract!Body(i) = Body(i) /\ Engine!Body(i) = Body(i)
  BY DEF Abstract!Body, Engine!Body, Body
<1>2. \A L, F : Abstract!Holds(L, F) = Holds(L, F) /\ Engine!Holds(L, F) = Holds(L, F)
  BY DEF Abstract!Holds, Engine!Holds, Holds, Abstract!Sat, Engine!Sat, Sat
<1>3. \A r : Abstract!InstancesOf(r) = InstancesOf(r) /\ Engine!InstancesOf(r) = InstancesOf(r)
  BY DEF Abstract!InstancesOf, Engine!InstancesOf, InstancesOf
<1>4. \A i, F : Abstract!Consistent(i, F) = Consistent(i, F) /\ Engine!Consistent(i, F) = Consistent(i, F)
  BY <1>2 DEF Abstract!Consistent, Engine!Consistent, Consistent
<1>5. \A r : Abstract!BodyPredicates(r) = BodyPredicates(r)
  BY <1>1, <1>3 DEF Abstract!BodyPredicates, BodyPredicates
<1>6. \A s : Abstract!RulesOfStratum(s) = RulesOfStratum(s)
  BY DEF Abstract!RulesOfStratum, RulesOfStratum
<1>7. \A s, P : Abstract!Listeners(s, P) = Listeners(s, P)
  BY <1>5, <1>6 DEF Abstract!Listeners, Listeners
<1> QED BY <1>1, <1>2, <1>3, <1>4, <1>5, <1>6, <1>7

\* The pending bindings of all workers.
Pending == UNION {pending[v] : v \in Worker}

LEMMA SameEngine ==
    ASSUME NEW r
    PROVE  /\ Engine!Fired(r) = Abstract!Fired(r)
           /\ Engine!Kept(r) = Abstract!Kept(r)
           /\ \A i : Engine!Unsatisfied(i) = Abstract!Unsatisfied(i)
           /\ Engine!GoalProven = Abstract!GoalProven
<1>1. \A i : Engine!Unsatisfied(i) = Abstract!Unsatisfied(i)
  BY DEF Engine!Unsatisfied, Engine!Unchecked, Engine!Sat,
         Abstract!Unsatisfied, Abstract!Unchecked, Abstract!Sat
<1>2. Engine!Candidates(r) = Abstract!Candidates(r)
  BY SameProgram DEF Engine!Candidates, Engine!NewCliques, Abstract!Candidates, Abstract!NewCliques
<1>3. Engine!Fired(r) = Abstract!Fired(r)
  BY <1>1, <1>2, SameProgram DEF Engine!Fired, Abstract!Fired
<1>4. Engine!Kept(r) = Abstract!Kept(r)
  BY <1>2, <1>3 DEF Engine!Kept, Abstract!Kept
<1> QED BY <1>1, <1>3, <1>4 DEF Engine!GoalProven, Abstract!GoalProven

\* The engine's invariant in the terms of this module.
LEMMA EngineFacts ==
    ASSUME Abstract!IInv
    PROVE  /\ start \subseteq facts /\ facts \subseteq Fact
           /\ stratum \in 1 .. NumStrata
           /\ pc \in {"check", "run", "done"}
           /\ active \subseteq RulesOfStratum(stratum) /\ todo \subseteq active
           /\ fresh \subseteq Rule
           /\ snapshot \in [Rule -> SUBSET Fact]
           /\ unsat \in [Instance -> SUBSET Literal]
           /\ pc # "done" => \A r \in RulesOfStratum(stratum) :
                /\ r \notin fresh => snapshot[r] \subseteq facts
                /\ Ran(r) => snapshot[r] = facts
                /\ r \notin (IF pc = "check" THEN active ELSE todo) =>
                    r \notin fresh /\ \A f \in facts \ snapshot[r] : PredOf[f] \notin BodyPredicates(r)
           /\ \A i \in Pending :
                /\ i \in Instance /\ RuleOf[i] \notin fresh
                /\ ~Holds(Body(i), snapshot[RuleOf[i]])
           /\ pc # "done" => \A r \in Rule : Ran(r) => \A f \in AllHeads(r) :
                \E i \in InstancesOf(r) : HeadOf[i] = f /\ Holds(Body(i), facts)
           /\ pc # "done" => Waiting \subseteq HeadsOf(stratum)
           /\ \A r \in Rule : StratumOf[r] > stratum => r \in fresh
<1>1. /\ Abstract!TypeOK /\ Abstract!SchedulerInv /\ Abstract!SnapshotInv /\ Abstract!PendingInv
      /\ Abstract!DerivableInv
  BY DEF Abstract!IInv
<1>2. /\ start \subseteq facts /\ facts \subseteq Fact
      /\ stratum \in 1 .. NumStrata
      /\ pc \in {"check", "run", "done"}
      /\ fresh \subseteq Rule
      /\ snapshot \in [Rule -> SUBSET Fact]
      /\ unsat \in [Instance -> SUBSET Literal]
      /\ Pending \subseteq Instance
  BY <1>1 DEF Abstract!TypeOK, Abstract!SchedulerInv, Pending
<1>3. active \subseteq RulesOfStratum(stratum) /\ todo \subseteq active
  BY <1>1, SameProgram DEF Abstract!SchedulerInv
<1>4. pc # "done" => \A r \in RulesOfStratum(stratum) :
        /\ r \notin fresh => snapshot[r] \subseteq facts
        /\ Ran(r) => snapshot[r] = facts
        /\ r \notin (IF pc = "check" THEN active ELSE todo) =>
            r \notin fresh /\ \A f \in facts \ snapshot[r] : PredOf[f] \notin BodyPredicates(r)
  BY <1>1, SameProgram DEF Abstract!SnapshotInv, Abstract!Ran, Abstract!Scheduled, Ran
<1>5. ASSUME NEW i \in Pending
      PROVE  i \in Instance /\ RuleOf[i] \notin fresh /\ ~Holds(Body(i), snapshot[RuleOf[i]])
  <2>1. /\ RuleOf[i] \notin fresh /\ unsat[i] \subseteq Late[i]
        /\ ~Holds(unsat[i], snapshot[RuleOf[i]])
    BY <1>1, SameProgram DEF Abstract!PendingInv, Pending
  <2> QED BY <1>2, <2>1 DEF Holds, Body
<1>6. ASSUME pc # "done", NEW r \in Rule, Ran(r), NEW f \in AllHeads(r)
      PROVE  \E i \in InstancesOf(r) : HeadOf[i] = f /\ Holds(Body(i), facts)
  <2>1. Abstract!Ran(r)
    BY <1>6 DEF Ran, Abstract!Ran
  <2>2. [q \in Rule |-> AllHeads(q)][r] = AllHeads(r)
    OBVIOUS
  <2> QED BY <1>1, <1>6, <2>1, <2>2, SameProgram DEF Abstract!DerivableInv
<1>7. ASSUME pc # "done", NEW f \in Waiting PROVE f \in HeadsOf(stratum)
  <2>1. \E i \in Instance : HeadOf[i] = f /\ StratumOf[RuleOf[i]] = stratum
    BY <1>1, <1>7 DEF Abstract!DerivableInv
  <2> QED BY <2>1, TypeAssumption DEF HeadsOf
<1>8. \A r \in Rule : StratumOf[r] > stratum => r \in fresh
  BY <1>1 DEF Abstract!SchedulerInv
<1> QED BY <1>2, <1>3, <1>4, <1>5, <1>6, <1>7, <1>8

\* Every nonempty set of naturals has a least element.
LEMMA Least ==
    ASSUME NEW T \in SUBSET Nat, T # {}
    PROVE  \E m \in T : \A k \in T : m <= k
<1>1. IsWellFoundedOn(OpToRel(<, Nat), Nat)
  BY NatLessThanWellFounded
<1>2. \E x \in T : \A y \in T : ~(<<y, x>> \in OpToRel(<, Nat))
  BY <1>1, WFMin
<1>3. PICK x \in T : \A y \in T : ~(<<y, x>> \in OpToRel(<, Nat))
  BY <1>2
<1>4. \A y \in T : ~(y < x)
  BY <1>3 DEF OpToRel
<1> QED BY <1>4

\* Every finite nonempty set of naturals has a maximum: a smallest counterexample would
\* not be one without any of its elements.
LEMMA Maximum ==
    ASSUME NEW S \in SUBSET Nat, IsFiniteSet(S), S # {}
    PROVE  Max(S) \in S /\ \A y \in S : y <= Max(S)
<1> DEFINE Good(T) == \E x \in T : \A y \in T : x >= y
           bad == {k \in Nat : \E T \in SUBSET Nat :
                        IsFiniteSet(T) /\ T # {} /\ Cardinality(T) = k /\ ~Good(T)}
<1>1. ASSUME bad # {} PROVE FALSE
  <2>1. PICK k \in bad : \A j \in bad : k <= j
    <3>1. bad \in SUBSET Nat
      OBVIOUS
    <3> QED BY <1>1, <3>1, Least
  <2>2. PICK T \in SUBSET Nat : IsFiniteSet(T) /\ T # {} /\ Cardinality(T) = k /\ ~Good(T)
    BY <2>1
  <2>3. PICK x \in T : TRUE
    BY <2>2
  <2>4. T \ {x} \in SUBSET Nat /\ IsFiniteSet(T \ {x}) /\ Cardinality(T \ {x}) = k - 1 /\ k \in Nat
    BY <2>2, FS_RemoveElement
  <2>5. k - 1 \in Nat
    BY <2>4, FS_CardinalityType
  <2>6. k - 1 \notin bad
    BY <2>1, <2>4, <2>5
  <2>7. T \ {x} = {} \/ Good(T \ {x})
    BY <2>4, <2>5, <2>6
  <2>8. CASE T \ {x} = {}
    <3>1. \A y \in T : y = x
      BY <2>8
    <3>2. x \in Nat /\ \A y \in T : x >= y
      BY <2>2, <3>1
    <3> QED BY <2>2, <3>2
  <2>9. CASE Good(T \ {x})
    <3>1. PICK m \in T \ {x} : \A y \in T \ {x} : m >= y
      BY <2>9
    <3>2. m \in Nat /\ x \in Nat /\ \A y \in T : y \in Nat
      BY <2>2
    <3>3. CASE m >= x
      <4>1. \A y \in T : m >= y
        BY <3>1, <3>3
      <4> QED BY <2>2, <4>1
    <3>4. CASE x > m
      <4>1. \A y \in T : x >= y
        BY <3>1, <3>2, <3>4
      <4> QED BY <2>2, <4>1
    <3> QED BY <3>2, <3>3, <3>4
  <2> QED BY <2>7, <2>8, <2>9
<1>2. Cardinality(S) \in Nat
  BY FS_CardinalityType
<1>3. Good(S)
  BY <1>1, <1>2
<1>4. PICK x \in S : \A y \in S : x >= y
  BY <1>3
<1>5. Max(S) \in S /\ \A y \in S : Max(S) >= y
  BY <1>4 DEF Max
<1> QED BY <1>5

LEMMA StratumNat ==
    ASSUME Abstract!IInv
    PROVE  stratum \in Nat /\ NumStrata \in Nat /\ \A r \in Rule : StratumOf[r] \in Nat
  BY EngineFacts, TypeAssumption

\* A fact is derived in one stratum only.
LEMMA OneStratum ==
    ASSUME NEW s, NEW f \in HeadsOf(s), NEW i \in Instance, HeadOf[i] = f
    PROVE  StratumOf[RuleOf[i]] = s
  BY HeadStratumAssumption DEF HeadsOf

\* What a stratum derives takes no applicable binding of it or of a lower one away.
LEMMA Keeps ==
    ASSUME NEW F, NEW B, NEW s \in Nat, B \subseteq HeadsOf(s),
           NEW i \in Instance, StratumOf[RuleOf[i]] <= s, Holds(Body(i), F)
    PROVE  Holds(Body(i), F \cup B)
<1>1. \A f \in B : \E j \in Instance : HeadOf[j] = f /\ StratumOf[RuleOf[j]] = s
  BY DEF HeadsOf
<1>2. Abstract!Holds(Body(i), F) /\ Body(i) \subseteq Abstract!Body(i)
  BY SameProgram
<1>3. Abstract!Holds(Body(i), F \cup B)
  BY <1>1, <1>2, ProgramAssumptions, Abstract!InsertKeeps
<1> QED BY <1>3, SameProgram

\* What a stratum derives is not read below.
LEMMA Unread ==
    ASSUME NEW F, NEW B, NEW s \in Nat, B \subseteq HeadsOf(s),
           NEW i \in Instance, StratumOf[RuleOf[i]] < s, Holds(Body(i), F \cup B)
    PROVE  Holds(Body(i), F)
<1>1. \A f \in B : \E j \in Instance : HeadOf[j] = f /\ StratumOf[RuleOf[j]] = s
  BY DEF HeadsOf
<1>2. Abstract!Holds(Abstract!Body(i), F \cup B)
  BY SameProgram
<1>3. Abstract!Holds(Abstract!Body(i), F)
  BY <1>1, <1>2, ProgramAssumptions, Abstract!InsertUnread
<1> QED BY <1>3, SameProgram

\* An applicable binding is a clique.
LEMMA Clique ==
    ASSUME NEW F, NEW i \in Instance, Holds(Body(i), F)
    PROVE  Consistent(i, F)
<1>1. Abstract!Holds(Abstract!Body(i), F)
  BY SameProgram
<1>2. Abstract!Consistent(i, F)
  BY <1>1, ProgramAssumptions, Abstract!Overapproximation
<1> QED BY <1>2, SameProgram

\* A binding that fires is applicable.
LEMMA FiresApplicable ==
    ASSUME Abstract!IInv, NEW r \in Rule, NEW i \in Engine!Fired(r)
    PROVE  i \in InstancesOf(r) /\ Holds(Body(i), facts)
<1>1. Abstract!TypeOK /\ Abstract!PendingInv /\ i \in Abstract!Fired(r)
  BY SameEngine DEF Abstract!IInv
<1>2. i \in Abstract!InstancesOf(r) /\ Abstract!Holds(Abstract!Body(i), facts)
  BY <1>1, ProgramAssumptions, Abstract!FiredApplicable
<1> QED BY <1>2, SameProgram

\* What the merge collects is derived in the current stratum.
LEMMA MergedOfStratum ==
    ASSUME Abstract!IInv, pc = "run", todo = {}
    PROVE  MergedHeads \subseteq HeadsOf(stratum)
<1>1. ASSUME NEW r \in active, NEW f \in AllHeads(r) PROVE f \in HeadsOf(stratum)
  <2>1. r \in Rule /\ StratumOf[r] = stratum /\ Ran(r)
    BY EngineFacts DEF RulesOfStratum, Ran
  <2>2. PICK i \in InstancesOf(r) : HeadOf[i] = f
    BY <2>1, EngineFacts
  <2> QED BY <2>1, <2>2, TypeAssumption DEF HeadsOf, InstancesOf
<1> QED BY <1>1 DEF MergedHeads

-----------------------------------------------------------------------------
(* Costs of bindings.                                                       *)

\* Under AggregateBounds a binding whose body holds costs no less than its rule and any
\* of its atoms together.
LEMMA BodyCost ==
    ASSUME AggregateBounds(Nat), CostTypes, facts \subseteq DOMAIN orAnnot,
           NEW i \in Instance, Holds(Body(i), facts)
    PROVE  /\ WitnessCost(i) \in Nat
           /\ WitnessCost(i) >= RuleCost[RuleOf[i]]
           /\ \A l \in Body(i) \cap Positive :
                Atom[l] \in facts /\ WitnessCost(i) >= orAnnot[Atom[l]] + RuleCost[RuleOf[i]]
<1> DEFINE L == Body(i) \cap Positive
           cost == [l \in L |-> orAnnot[Atom[l]]]
<1>1. \A l \in L : Atom[l] \in facts
  BY DEF Holds, Sat
<1>2. cost \in [L -> Nat]
  BY <1>1 DEF CostTypes
<1>3. Aggregate(cost) \in Nat /\ \A l \in L : cost[l] <= Aggregate(cost)
  BY <1>2 DEF AggregateBounds
<1>4. RuleCost[RuleOf[i]] \in Nat
  BY CostAssumption, TypeAssumption
<1>5. WitnessCost(i) = Aggregate(cost) + RuleCost[RuleOf[i]]
  BY DEF WitnessCost
<1>6. \A l \in L : cost[l] = orAnnot[Atom[l]] /\ cost[l] \in Nat
  BY <1>2
<1> HIDE DEF cost
<1> QED BY <1>1, <1>3, <1>4, <1>5, <1>6

\* The cost of a binding stays as long as the facts of its body keep theirs.
LEMMA SameCost ==
    ASSUME NEW F, NEW i \in Instance, Holds(Body(i), F),
           \A f \in F : orAnnot'[f] = orAnnot[f]
    PROVE  WitnessCost(i)' = WitnessCost(i)
<1>1. \A l \in Body(i) \cap Positive : orAnnot'[Atom[l]] = orAnnot[Atom[l]]
  BY DEF Holds, Sat
<1>2. [l \in Body(i) \cap Positive |-> orAnnot'[Atom[l]]] = [l \in Body(i) \cap Positive |-> orAnnot[Atom[l]]]
  BY <1>1
<1> QED BY <1>2 DEF WitnessCost

\* A binding that has become applicable since its rule last ran contains a fact of the
\* bucket inserted at the moment.
LEMMA NewCost ==
    ASSUME AggregateBounds(Nat), Abstract!IInv, CostInv, pc # "done",
           NEW r \in RulesOfStratum(stratum), NEW i \in InstancesOf(r), Holds(Body(i), facts),
           r \in fresh \/ ~Holds(Body(i), snapshot[r])
    PROVE  WitnessCost(i) >= current + RuleCost[r]
<1>1. i \in Instance /\ RuleOf[i] = r /\ r \in Rule
  BY DEF InstancesOf, RulesOfStratum
<1>2. CostTypes /\ AnnotInv /\ SeenInv
  BY DEF CostInv
<1>3. current \in Nat /\ RuleCost[r] \in Nat /\ WitnessCost(i) \in Nat /\ WitnessCost(i) >= RuleCost[r]
  BY <1>1, <1>2, BodyCost, CostAssumption DEF CostTypes, AnnotInv
<1>4. CASE r \in fresh
  BY <1>2, <1>3, <1>4 DEF SeenInv
<1>5. CASE r \notin fresh
  <2>1. snapshot[r] \subseteq facts
    BY <1>5, EngineFacts
  <2>2. PICK l \in Body(i) : ~Sat(l, snapshot[r]) /\ Sat(l, facts)
    BY <1>5 DEF Holds
  <2>3. l \in Positive /\ Atom[l] \in facts \ snapshot[r]
    BY <2>1, <2>2 DEF Sat
  <2>4. PredOf[Atom[l]] \in BodyPredicates(r)
    BY <1>1, <2>3 DEF BodyPredicates
  <2>5. orAnnot[Atom[l]] >= current /\ orAnnot[Atom[l]] \in Nat
    BY <1>2, <1>5, <2>3, <2>4 DEF SeenInv, CostTypes, AnnotInv
  <2>6. WitnessCost(i) >= orAnnot[Atom[l]] + RuleCost[r]
    BY <1>1, <1>2, <2>3, BodyCost DEF AnnotInv
  <2> QED BY <1>3, <2>5, <2>6
<1> QED BY <1>4, <1>5

\* Optimal costs follow from the invariant: what has been considered is no cheaper, and
\* what has not costs no less than what is inserted at the moment.
LEMMA Optimal ==
    ASSUME AggregateBounds(Nat), Abstract!IInv, CostInv, NEW i \in Instance,
           Holds(Body(i), facts), HeadOf[i] \in facts
    PROVE  orAnnot[HeadOf[i]] <= WitnessCost(i)
<1> DEFINE r == RuleOf[i]
           f == HeadOf[i]
<1>1. /\ CostTypes /\ AnnotInv /\ BucketInv /\ SeenInv /\ ConsideredInv /\ LocalInv /\ OptimalBelow
      /\ f \in DOMAIN orAnnot /\ orAnnot[f] \in Nat /\ current \in Nat
  BY DEF CostInv, CostTypes, AnnotInv
<1>2. /\ r \in Rule /\ StratumOf[r] \in Nat /\ stratum \in Nat /\ f \in Fact /\ RuleCost[r] \in Nat
      /\ i \in InstancesOf(r)
  BY TypeAssumption, CostAssumption, StratumNat DEF InstancesOf
<1>3. WitnessCost(i) \in Nat
  BY <1>1, BodyCost DEF AnnotInv
<1>4. CASE StratumOf[r] < stratum \/ pc = "done"
  BY <1>1, <1>4 DEF OptimalBelow
<1>5. CASE StratumOf[r] > stratum
  <2>1. f \in start
    <3>1. ASSUME f \notin start PROVE FALSE
      <4>1. /\ andAnnot[f].inst \in Instance /\ HeadOf[andAnnot[f].inst] = f
            /\ StratumOf[RuleOf[andAnnot[f].inst]] <= stratum
        BY <1>1, <3>1 DEF AnnotInv
      <4>2. StratumOf[RuleOf[andAnnot[f].inst]] = StratumOf[r]
        BY <4>1, HeadStratumAssumption
      <4> QED BY <1>2, <1>5, <4>1, <4>2
    <3> QED BY <3>1
  <2> QED BY <1>1, <1>3, <2>1 DEF AnnotInv
<1>6. CASE StratumOf[r] = stratum /\ pc # "done"
  <2>1. f \in HeadsOf(stratum) /\ r \in RulesOfStratum(stratum)
    BY <1>2, <1>6 DEF HeadsOf, RulesOfStratum
  <2>2. orAnnot[f] <= current
    BY <1>1, <1>6, <2>1 DEF BucketInv
  <2>3. CASE r \in fresh \/ ~Holds(Body(i), snapshot[r])
    <3>1. WitnessCost(i) >= current + RuleCost[r]
      BY <1>2, <1>6, <2>1, <2>3, NewCost
    <3> QED BY <1>1, <1>2, <1>3, <2>2, <3>1
  <2>4. CASE r \notin fresh /\ Holds(Body(i), snapshot[r])
    <3>1. ~\E v \in Worker : Ran(r) /\ f \in DOMAIN local[r][v]
      BY <1>1, <1>2 DEF LocalInv
    <3> QED BY <1>1, <1>6, <2>4, <3>1 DEF ConsideredInv
  <2> QED BY <2>3, <2>4
<1> QED BY <1>2, <1>4, <1>5, <1>6

-----------------------------------------------------------------------------
(* The task of a rule.                                                      *)

\* What a task changes and leaves alone.
LEMMA TaskFacts ==
    ASSUME Abstract!IInv, CostTypes, NEW r \in Rule, NEW w \in Worker, RunRule(r, w)
    PROVE  /\ pc = "run" /\ pc' = "run" /\ r \in RulesOfStratum(stratum) /\ r \in todo
           /\ UNCHANGED <<start, facts, stratum, active, orAnnot, andAnnot, buckets, current>>
           /\ todo' = todo \ {r} /\ fresh' = fresh \ {r}
           /\ ~Ran(r) /\ \A q \in Rule : Ran(q)' <=> Ran(q) \/ q = r
           /\ \A q \in Rule : snapshot'[q] = IF q = r THEN facts ELSE snapshot[q]
           /\ \A q \in Rule : q # r => heads'[q] = heads[q] /\ local'[q] = local[q]
           /\ \A v \in Worker : heads'[r][v] = {HeadOf[i] : i \in FiredBy(r, w, v)}
           /\ \A v \in Worker : pending'[v] = (pending[v] \ InstancesOf(r)) \cup KeptBy(r, w, v)
           /\ \A i : WitnessCost(i)' = WitnessCost(i)
<1>1. /\ r \in RulesOfStratum(stratum) /\ r \in active /\ snapshot \in [Rule -> SUBSET Fact]
  BY EngineFacts DEF RunRule
<1>2. heads \in [Rule -> [Worker -> SUBSET Fact]] /\ DOMAIN local = Rule
  BY DEF CostTypes
<1>3. \A i : WitnessCost(i)' = WitnessCost(i)
  BY DEF RunRule, WitnessCost
<1>4. \A q \in Rule : q # r => local'[q] = local[q]
  BY <1>2 DEF RunRule
<1>5. /\ \A q \in Rule : q # r => heads'[q] = heads[q]
      /\ \A v \in Worker : heads'[r][v] = {HeadOf[i] : i \in FiredBy(r, w, v)}
  BY <1>2 DEF RunRule
<1>6. \A q \in Rule : snapshot'[q] = IF q = r THEN facts ELSE snapshot[q]
  BY <1>1 DEF RunRule
<1> QED BY <1>1, <1>3, <1>4, <1>5, <1>6 DEF RunRule, Ran

\* What the task of r leaves in worker v for the head f.
LeavesWitness(r, w, v, f) ==
    \E i \in LocalWitnesses(r, FiredBy(r, w, v), f) :
        local'[r][v][f] = [inst |-> i, cost |-> WitnessCost(i)]

\* The witnesses a task leaves behind.
LEMMA TaskWitnesses ==
    ASSUME CostTypes, NEW r \in Rule, NEW w \in Worker, RunRule(r, w), NEW v \in Worker
    PROVE  /\ DOMAIN local'[r][v] = {f \in Fact : LocalWitnesses(r, FiredBy(r, w, v), f) # {}}
           /\ \A f \in DOMAIN local'[r][v] : LeavesWitness(r, w, v, f)
           /\ local'[r][v] = [f \in DOMAIN local'[r][v] |-> local'[r][v][f]]
<1> DEFINE found(u, f) == LocalWitnesses(r, FiredBy(r, w, u), f)
           keys == {k \in Worker \X Fact : found(k[1], k[2]) # {}}
           mine == {k[2] : k \in {k \in keys : k[1] = v}}
<1>1. PICK wit \in [keys -> Instance] :
        /\ \A k \in keys : wit[k] \in found(k[1], k[2])
        /\ local' = [local EXCEPT ![r] = [u \in Worker |->
             [f \in {k[2] : k \in {k \in keys : k[1] = u}} |->
                [inst |-> wit[<<u, f>>], cost |-> WitnessCost(wit[<<u, f>>])]]]]
  BY DEF RunRule
<1>2. DOMAIN local = Rule
  BY DEF CostTypes
<1>3. local'[r][v] = [f \in mine |-> [inst |-> wit[<<v, f>>], cost |-> WitnessCost(wit[<<v, f>>])]]
  BY <1>1, <1>2
<1>4. mine = {f \in Fact : found(v, f) # {}}
  <2>1. \A f \in Fact : found(v, f) # {} => <<v, f>> \in keys
    OBVIOUS
  <2>2. \A k \in keys : k[1] = v => k[2] \in Fact /\ found(v, k[2]) # {}
    OBVIOUS
  <2> HIDE DEF found, keys
  <2>3. \A f \in Fact : found(v, f) # {} => f \in mine
    <3>1. \A f \in Fact : <<v, f>>[1] = v /\ <<v, f>>[2] = f
      OBVIOUS
    <3> QED BY <2>1, <3>1
  <2>4. \A f \in mine : f \in Fact /\ found(v, f) # {}
    BY <2>2
  <2> HIDE DEF mine
  <2> QED BY <2>3, <2>4
<1>5. \A f \in mine : <<v, f>> \in keys
  BY <1>4
<1>6. \A f \in mine : wit[<<v, f>>] \in found(v, f)
  BY <1>1, <1>5
<1> HIDE DEF mine, found, keys
<1>7. DOMAIN local'[r][v] = mine
  BY <1>3
<1>8. \A f \in mine : local'[r][v][f] = [inst |-> wit[<<v, f>>], cost |-> WitnessCost(wit[<<v, f>>])]
  BY <1>3
<1>9. local'[r][v] = [f \in DOMAIN local'[r][v] |-> local'[r][v][f]]
  BY <1>3
<1>10. \A f \in DOMAIN local'[r][v] : LeavesWitness(r, w, v, f)
  BY <1>6, <1>7, <1>8 DEF found, LeavesWitness
<1> QED BY <1>4, <1>7, <1>9, <1>10 DEF found

\* A binding that fires at a better cost than its head's is not cheaper than anything
\* this iteration can produce.
LEMMA FiredCost ==
    ASSUME AggregateBounds(Nat), Abstract!IInv, CostInv, NEW r \in RulesOfStratum(stratum),
           pc = "run", r \in todo, NEW i \in InstancesOf(r), Holds(Body(i), facts),
           Improves(WitnessCost(i), HeadOf[i])
    PROVE  WitnessCost(i) >= current + RuleCost[r]
<1>1. i \in Instance /\ RuleOf[i] = r /\ r \in Rule /\ StratumOf[r] = stratum /\ ~Ran(r)
  BY DEF InstancesOf, RulesOfStratum, Ran
<1>2. CASE r \in fresh \/ ~Holds(Body(i), snapshot[r])
  BY <1>2, NewCost
<1>3. CASE r \notin fresh /\ Holds(Body(i), snapshot[r])
  <2>1. HeadOf[i] \in DOMAIN orAnnot /\ orAnnot[HeadOf[i]] <= WitnessCost(i)
    BY <1>1, <1>3 DEF CostInv, ConsideredInv
  <2>2. WitnessCost(i) \in Nat /\ orAnnot[HeadOf[i]] \in Nat
    BY <1>1, <2>1, BodyCost DEF CostInv, CostTypes, AnnotInv
  <2> QED BY <2>1, <2>2 DEF Improves
<1> QED BY <1>2, <1>3

\* Some worker handles every binding that fires or is kept.
LEMMA Handled ==
    ASSUME NEW r, NEW w \in Worker
    PROVE  /\ \A i \in Engine!Fired(r) : \E v \in Worker : i \in FiredBy(r, w, v)
           /\ \A i \in Engine!Kept(r) : \E v \in Worker : i \in KeptBy(r, w, v)
           /\ \A v \in Worker : FiredBy(r, w, v) \subseteq Engine!Fired(r)
           /\ \A v \in Worker : KeptBy(r, w, v) \subseteq Engine!Kept(r)
  BY DEF FiredBy, KeptBy, HandledBy

\* What a task keeps are bindings of its rule.
LEMMA KeptInstances ==
    ASSUME Abstract!IInv, NEW r
    PROVE  Engine!Kept(r) \subseteq InstancesOf(r)
  BY SameProgram DEF Engine!Kept, Engine!Candidates, Engine!NewCliques

\* An applicable binding with a new head fires, or its rule has seen it applicable.
LEMMA Fires ==
    ASSUME Abstract!IInv, KeptInv, pc = "run", NEW r \in RulesOfStratum(stratum),
           NEW i \in InstancesOf(r), Holds(Body(i), facts),
           r \in NullaryRule \/ HeadOf[i] \notin facts
    PROVE  i \in Engine!Fired(r) \/ (r \notin fresh /\ Holds(Body(i), snapshot[r]))
<1>1. i \in Instance /\ RuleOf[i] = r /\ StratumOf[r] = stratum
  BY DEF InstancesOf, RulesOfStratum
<1>2. CASE r \in NullaryRule
  BY <1>2, SameProgram DEF Engine!Fired
<1>3. CASE r \notin NullaryRule
  <2>1. Consistent(i, facts)
    BY <1>1, Clique
  <2>2. CASE i \in Engine!Candidates(r)
    <3>1. Abstract!IInv => (i \in Pending => unsat[i] \subseteq Late[i])
      BY SameProgram DEF Abstract!IInv, Abstract!PendingInv, Pending
    <3>2. \A l \in Engine!Unchecked(i) : l \in Body(i)
      BY <3>1 DEF Engine!Unchecked, Body, Pending
    <3>3. \A l \in Engine!Unchecked(i) : Engine!Sat(l, facts)
      BY <3>2 DEF Holds, Sat, Engine!Sat
    <3>4. Engine!Unsatisfied(i) = {}
      BY <3>3 DEF Engine!Unsatisfied
    <3> QED BY <1>3, <2>2, <3>4 DEF Engine!Fired
  <2>3. CASE i \notin Engine!Candidates(r)
    <3>1. i \notin Pending /\ r \notin fresh /\ Consistent(i, snapshot[r])
      BY <1>3, <2>1, <2>3, SameProgram DEF Engine!Candidates, Engine!NewCliques, Pending
    <3> QED BY <1>1, <1>3, <3>1 DEF KeptInv, Pending
  <2> QED BY <2>2, <2>3
<1> QED BY <1>2, <1>3

LEMMA TaskTypes ==
    ASSUME AggregateBounds(Nat), Abstract!IInv, CostInv,
           NEW r \in Rule, NEW w \in Worker, RunRule(r, w)
    PROVE  CostTypes'
<1>1. CostTypes /\ facts \subseteq DOMAIN orAnnot
  BY DEF CostInv, AnnotInv
<1>2. \A v \in Worker : FiredBy(r, w, v) \subseteq Instance /\ KeptBy(r, w, v) \subseteq Instance
  BY Handled, FiresApplicable, KeptInstances DEF InstancesOf
<1>3. heads' \in [Rule -> [Worker -> SUBSET Fact]]
  <2>1. [v \in Worker |-> {HeadOf[i] : i \in FiredBy(r, w, v)}] \in [Worker -> SUBSET Fact]
    BY <1>2, TypeAssumption
  <2>2. heads' = [heads EXCEPT ![r] = [v \in Worker |-> {HeadOf[i] : i \in FiredBy(r, w, v)}]]
    BY DEF RunRule
  <2> QED BY <1>1, <2>1, <2>2 DEF CostTypes
<1>4. pending' \in [Worker -> SUBSET Instance]
  <2>1. pending' = [v \in Worker |-> (pending[v] \ InstancesOf(r)) \cup KeptBy(r, w, v)]
    BY DEF RunRule
  <2> QED BY <1>1, <1>2, <2>1 DEF CostTypes
<1>5. local' \in [Rule -> [Worker -> UNION {[D -> Witness] : D \in SUBSET Fact}]]
  <2>1. ASSUME NEW v \in Worker PROVE local'[r][v] \in UNION {[D -> Witness] : D \in SUBSET Fact}
    <3>0. DOMAIN local'[r][v] = {f \in Fact : LocalWitnesses(r, FiredBy(r, w, v), f) # {}}
      BY <1>1, TaskWitnesses
    <3>1. DOMAIN local'[r][v] \in SUBSET Fact
      BY <3>0
    <3>2. ASSUME NEW f \in DOMAIN local'[r][v] PROVE local'[r][v][f] \in Witness
      <4>1. PICK i \in LocalWitnesses(r, FiredBy(r, w, v), f) :
              local'[r][v][f] = [inst |-> i, cost |-> WitnessCost(i)]
        <5>1. LeavesWitness(r, w, v, f)
          BY <1>1, TaskWitnesses
        <5> QED BY <5>1 DEF LeavesWitness
      <4>2. i \in FiredBy(r, w, v)
        BY DEF LocalWitnesses
      <4>3. i \in Instance /\ Holds(Body(i), facts)
        BY <1>2, <4>2, Handled, FiresApplicable
      <4>4. WitnessCost(i) \in Nat
        BY <1>1, <4>3, BodyCost
      <4> QED BY <4>1, <4>3, <4>4 DEF Witness
    <3>3. local'[r][v] = [f \in DOMAIN local'[r][v] |-> local'[r][v][f]]
      BY <1>1, TaskWitnesses
    <3>4. local'[r][v] \in [DOMAIN local'[r][v] -> Witness]
      BY <3>2, <3>3
    <3> QED BY <3>1, <3>4
  <2>2. /\ local' = [local EXCEPT ![r] = local'[r]]
        /\ local'[r] = [v \in Worker |-> local'[r][v]]
    <3>1. PICK m : local' = [local EXCEPT ![r] = m] /\ m = [v \in Worker |-> m[v]]
      <4> DEFINE keys == {k \in Worker \X Fact : LocalWitnesses(r, FiredBy(r, w, k[1]), k[2]) # {}}
                 m(wit) == [v \in Worker |->
                     [f \in {k[2] : k \in {k \in keys : k[1] = v}} |->
                        [inst |-> wit[<<v, f>>], cost |-> WitnessCost(wit[<<v, f>>])]]]
      <4>1. \E wit : local' = [local EXCEPT ![r] = m(wit)]
        BY DEF RunRule
      <4>2. PICK wit : local' = [local EXCEPT ![r] = m(wit)]
        BY <4>1
      <4>3. m(wit) = [v \in Worker |-> m(wit)[v]]
        OBVIOUS
      <4> HIDE DEF m
      <4> QED BY <4>2, <4>3
    <3>2. local'[r] = m
      BY <1>1, <3>1 DEF CostTypes
    <3> QED BY <3>1, <3>2
  <2>3. local'[r] \in [Worker -> UNION {[D -> Witness] : D \in SUBSET Fact}]
    BY <2>1, <2>2
  <2> QED BY <1>1, <2>2, <2>3 DEF CostTypes
<1> QED BY <1>1, <1>3, <1>4, <1>5, TaskFacts DEF CostTypes

LEMMA TaskSeen ==
    ASSUME Abstract!IInv, CostInv, NEW r \in Rule, NEW w \in Worker, RunRule(r, w)
    PROVE  SeenInv'
<1>1. CostTypes /\ SeenInv /\ pc = "run" /\ RulesOfStratum(stratum) \subseteq Rule
  BY TaskFacts DEF CostInv, RulesOfStratum
<1> SUFFICES ASSUME NEW q \in RulesOfStratum(stratum)
             PROVE  /\ q \in fresh' => current = 0
                    /\ q \notin fresh' => \A f \in facts \ snapshot'[q] :
                        /\ f \in HeadsOf(stratum)
                        /\ PredOf[f] \in BodyPredicates(q) => orAnnot[f] >= current
  BY <1>1, TaskFacts DEF SeenInv
<1>2. CASE q = r
  BY <1>1, <1>2, TaskFacts
<1>3. CASE q # r
  BY <1>1, <1>3, TaskFacts DEF SeenInv
<1> QED BY <1>2, <1>3

LEMMA TaskKept ==
    ASSUME Abstract!IInv, CostInv, NEW r \in Rule, NEW w \in Worker, RunRule(r, w)
    PROVE  KeptInv'
<1>1. CostTypes /\ KeptInv /\ SeenInv /\ pc = "run"
  BY TaskFacts DEF CostInv
<1>2. /\ r \in RulesOfStratum(stratum) /\ stratum \in Nat
      /\ \A q \in Rule : snapshot'[q] = IF q = r THEN facts ELSE snapshot[q]
      /\ fresh' = fresh \ {r}
      /\ UNCHANGED <<facts, stratum, pc>>
      /\ \A v \in Worker : pending'[v] = (pending[v] \ InstancesOf(r)) \cup KeptBy(r, w, v)
  BY <1>1, TaskFacts, StratumNat
<1> SUFFICES ASSUME NEW i \in Instance, StratumOf[RuleOf[i]] = stratum,
                    RuleOf[i] \notin fresh', RuleOf[i] \notin NullaryRule,
                    Consistent(i, snapshot'[RuleOf[i]]), HeadOf[i] \notin facts
             PROVE  Holds(Body(i), snapshot'[RuleOf[i]]) \/ \E v \in Worker : i \in pending'[v]
  BY <1>2 DEF KeptInv
<1>3. RuleOf[i] \in Rule
  BY TypeAssumption
<1>4. CASE RuleOf[i] # r
  <2>1. \A v \in Worker : i \in pending[v] => i \in pending'[v]
    BY <1>2, <1>4 DEF InstancesOf
  <2> QED BY <1>1, <1>2, <1>3, <1>4, <2>1 DEF KeptInv
<1>5. CASE RuleOf[i] = r
  <2>1. i \in InstancesOf(r) /\ Consistent(i, facts)
    BY <1>2, <1>3, <1>5 DEF InstancesOf
  <2>2. CASE i \in Engine!Candidates(r)
    <3>1. CASE i \in Engine!Fired(r)
      BY <1>2, <1>3, <1>5, <3>1, FiresApplicable
    <3>2. CASE i \notin Engine!Fired(r)
      <4>1. i \in Engine!Kept(r)
        BY <1>5, <2>2, <3>2 DEF Engine!Kept
      <4> QED BY <1>2, <4>1, Handled
    <3> QED BY <3>1, <3>2
  <2>3. CASE i \notin Engine!Candidates(r)
    <3>1. i \notin Pending /\ r \notin fresh /\ Consistent(i, snapshot[r])
      BY <2>1, <2>3, SameProgram DEF Engine!Candidates, Engine!NewCliques, Pending
    <3>2. Holds(Body(i), snapshot[r])
      BY <1>1, <1>5, <3>1 DEF KeptInv, Pending
    <3>3. snapshot[r] \subseteq facts /\ facts \ snapshot[r] \subseteq HeadsOf(stratum)
      BY <1>1, <1>2, <3>1, EngineFacts DEF SeenInv
    <3>4. PICK B : B = facts \ snapshot[r] /\ snapshot[r] \cup B = facts
      BY <3>3
    <3>5. B \subseteq HeadsOf(stratum) /\ StratumOf[RuleOf[i]] <= stratum
      BY <1>2, <3>3, <3>4
    <3>6. Holds(Body(i), snapshot[r] \cup B)
      BY <1>2, <3>2, <3>5, Keeps
    <3>7. Holds(Body(i), facts)
      BY <3>4, <3>6
    <3> QED BY <1>2, <1>3, <1>5, <3>7
  <2> QED BY <2>2, <2>3
<1> QED BY <1>4, <1>5

\* The bindings of head f that fire in a worker leave a witness that is no more expensive
\* than any of them whose cost improves on f's.
LEMMA BestWitness ==
    ASSUME AggregateBounds(Nat), Abstract!IInv, CostInv, pc = "run",
           NEW r \in RulesOfStratum(stratum), r \in todo,
           NEW I, I \subseteq Engine!Fired(r), NEW i \in I, Improves(WitnessCost(i), HeadOf[i])
    PROVE  /\ LocalWitnesses(r, I, HeadOf[i]) # {}
           /\ \A j \in LocalWitnesses(r, I, HeadOf[i]) : WitnessCost(j) <= WitnessCost(i)
<1> DEFINE f == HeadOf[i]
           same == {j \in I : HeadOf[j] = f}
           costs == {WitnessCost(j) : j \in same}
           bound == current + RuleCost[r]
<1>1. CostTypes /\ AnnotInv /\ r \in Rule
  BY DEF CostInv, RulesOfStratum
<1>2. \A j \in I : j \in InstancesOf(r) /\ j \in Instance /\ Holds(Body(j), facts)
  BY <1>1, FiresApplicable DEF InstancesOf
<1>3. \A j \in I : WitnessCost(j) \in Nat
  BY <1>1, <1>2, BodyCost DEF AnnotInv
<1>4. bound \in Nat /\ bound <= WitnessCost(i)
  BY <1>1, <1>2, <1>3, FiredCost, CostAssumption DEF CostTypes
<1>5. f \in DOMAIN orAnnot => orAnnot[f] \in Nat
  BY <1>1 DEF CostTypes
<1>6. Improves(bound, f)
  BY <1>3, <1>4, <1>5 DEF Improves
<1>7. ASSUME NEW j \in LocalWitnesses(r, I, f) PROVE WitnessCost(j) <= WitnessCost(i)
  <2>1. j \in same /\ i \in same /\ (WitnessCost(i) < WitnessCost(j) => WitnessCost(j) <= bound)
    BY DEF LocalWitnesses
  <2> QED BY <1>3, <1>4, <2>1
<1>8. LocalWitnesses(r, I, f) # {}
  <2>1. costs \in SUBSET Nat /\ costs # {}
    BY <1>3
  <2>2. PICK c \in costs : \A d \in costs : c <= d
    BY <2>1, Least
  <2>3. PICK j \in same : WitnessCost(j) = c
    BY <2>2
  <2>4. c \in Nat /\ c <= WitnessCost(i)
    BY <2>1, <2>2
  <2>5. Improves(WitnessCost(j), f)
    BY <1>3, <1>5, <2>3, <2>4 DEF Improves
  <2>6. \A k \in same : ~(WitnessCost(k) < WitnessCost(j))
    BY <1>3, <2>2, <2>3, <2>4
  <2>7. j \in LocalWitnesses(r, I, f)
    BY <1>6, <2>3, <2>5, <2>6 DEF LocalWitnesses
  <2> QED BY <2>7
<1> QED BY <1>7, <1>8

LEMMA TaskConsidered ==
    ASSUME AggregateBounds(Nat), Abstract!IInv, CostInv,
           NEW r \in Rule, NEW w \in Worker, RunRule(r, w)
    PROVE  ConsideredInv'
<1>1. /\ CostTypes /\ AnnotInv /\ KeptInv /\ ConsideredInv /\ pc = "run" /\ pc' = "run" /\ r \in todo
      /\ r \in RulesOfStratum(stratum) /\ ~Ran(r)
      /\ UNCHANGED <<facts, stratum, orAnnot>>
      /\ fresh' = fresh \ {r} /\ (\A q \in Rule : Ran(q)' <=> Ran(q) \/ q = r)
      /\ \A q \in Rule : snapshot'[q] = IF q = r THEN facts ELSE snapshot[q]
      /\ \A q \in Rule : q # r => local'[q] = local[q]
      /\ \A i : WitnessCost(i)' = WitnessCost(i)
  BY TaskFacts DEF CostInv
<1> SUFFICES ASSUME NEW i \in Instance, StratumOf[RuleOf[i]] = stratum,
                    RuleOf[i] \notin fresh', Holds(Body(i), snapshot'[RuleOf[i]])
             PROVE  \/ HeadOf[i] \in DOMAIN orAnnot /\ orAnnot[HeadOf[i]] <= WitnessCost(i)
                    \/ /\ Ran(RuleOf[i])'
                       /\ \E v \in Worker : /\ HeadOf[i] \in DOMAIN local'[RuleOf[i]][v]
                                            /\ local'[RuleOf[i]][v][HeadOf[i]].cost <= WitnessCost(i)
  BY <1>1 DEF ConsideredInv
<1>2. RuleOf[i] \in Rule /\ HeadOf[i] \in Fact
  BY TypeAssumption
<1>3. CASE RuleOf[i] # r
  BY <1>1, <1>2, <1>3 DEF ConsideredInv
<1>4. CASE RuleOf[i] = r
  <2>1. i \in InstancesOf(r) /\ Holds(Body(i), facts)
    BY <1>1, <1>2, <1>4 DEF InstancesOf
  <2>2. WitnessCost(i) \in Nat
    BY <1>1, <2>1, BodyCost DEF AnnotInv
  <2>3. HeadOf[i] \in DOMAIN orAnnot => orAnnot[HeadOf[i]] \in Nat
    BY <1>1 DEF CostTypes
  <2>4. CASE ~Improves(WitnessCost(i), HeadOf[i])
    BY <2>2, <2>3, <2>4 DEF Improves
  <2>5. CASE Improves(WitnessCost(i), HeadOf[i])
    <3>1. HeadOf[i] \notin facts
      <4>1. HeadOf[i] \in facts => HeadOf[i] \in DOMAIN orAnnot /\ orAnnot[HeadOf[i]] <= WitnessCost(i)
        BY <1>1, <2>1, Optimal DEF AnnotInv
      <4> QED BY <2>2, <2>3, <2>5, <4>1 DEF Improves
    <3>2. ~(r \notin fresh /\ Holds(Body(i), snapshot[r]))
      BY <1>1, <1>4, <2>2, <2>3, <2>5 DEF ConsideredInv, Improves
    <3>3. i \in Engine!Fired(r)
      BY <1>1, <2>1, <3>1, <3>2, Fires
    <3>4. PICK v \in Worker : i \in FiredBy(r, w, v)
      BY <3>3, Handled
    <3>5. FiredBy(r, w, v) \subseteq Engine!Fired(r)
      BY Handled
    <3>6. /\ LocalWitnesses(r, FiredBy(r, w, v), HeadOf[i]) # {}
          /\ \A j \in LocalWitnesses(r, FiredBy(r, w, v), HeadOf[i]) : WitnessCost(j) <= WitnessCost(i)
      BY <1>1, <2>5, <3>4, <3>5, BestWitness
    <3>0. CostTypes
      BY <1>1
    <3>a. \A f \in DOMAIN local'[r][v] : LeavesWitness(r, w, v, f)
      BY <3>0, TaskWitnesses
    <3>b. DOMAIN local'[r][v] = {f \in Fact : LocalWitnesses(r, FiredBy(r, w, v), f) # {}}
      BY <3>0, TaskWitnesses
    <3>7. HeadOf[i] \in DOMAIN local'[r][v]
      BY <1>2, <3>6, <3>b
    <3>f. PICK f : f = HeadOf[i]
      OBVIOUS
    <3>8. PICK j \in LocalWitnesses(r, FiredBy(r, w, v), f) :
            local'[r][v][f] = [inst |-> j, cost |-> WitnessCost(j)]
      <4>1. LeavesWitness(r, w, v, f)
        BY <3>f, <3>7, <3>a
      <4> QED BY <4>1 DEF LeavesWitness
    <3>9. local'[r][v][HeadOf[i]].cost <= WitnessCost(i)
      BY <3>f, <3>6, <3>8
    <3> QED BY <1>1, <1>4, <3>7, <3>9
  <2> QED BY <2>4, <2>5
<1> QED BY <1>3, <1>4

LEMMA TaskLocal ==
    ASSUME AggregateBounds(Nat), Abstract!IInv, CostInv,
           NEW r \in Rule, NEW w \in Worker, RunRule(r, w)
    PROVE  LocalInv'
<1>1. /\ CostTypes /\ AnnotInv /\ BucketInv /\ LocalInv /\ pc = "run" /\ r \in todo
      /\ r \in RulesOfStratum(stratum)
      /\ UNCHANGED <<facts, current>> /\ (\A q \in Rule : Ran(q)' <=> Ran(q) \/ q = r)
      /\ \A q \in Rule : q # r => heads'[q] = heads[q] /\ local'[q] = local[q]
      /\ \A v \in Worker : heads'[r][v] = {HeadOf[i] : i \in FiredBy(r, w, v)}
      /\ \A i : WitnessCost(i)' = WitnessCost(i)
  BY TaskFacts DEF CostInv
<1> DEFINE Good(q, v, f) ==
        /\ local'[q][v][f].inst \in InstancesOf(q)
        /\ HeadOf[local'[q][v][f].inst] = f
        /\ Holds(Body(local'[q][v][f].inst), facts)
        /\ local'[q][v][f].cost = WitnessCost(local'[q][v][f].inst)
        /\ local'[q][v][f].cost >= current
        /\ f \notin facts
        /\ f \in heads'[q][v]
<1>2. ASSUME NEW q \in Rule, Ran(q)', NEW v \in Worker, NEW f \in DOMAIN local'[q][v]
      PROVE  Good(q, v, f)
  <2>1. CASE q # r
    BY <1>1, <1>2, <2>1 DEF LocalInv
  <2>2. CASE q = r
    <3>0. CostTypes
      BY <1>1
    <3>a. \A e \in DOMAIN local'[r][v] : LeavesWitness(r, w, v, e)
      BY <3>0, TaskWitnesses
    <3>1. PICK i \in LocalWitnesses(r, FiredBy(r, w, v), f) :
            local'[r][v][f] = [inst |-> i, cost |-> WitnessCost(i)]
      <4>1. LeavesWitness(r, w, v, f)
        BY <1>2, <2>2, <3>a
      <4> QED BY <4>1 DEF LeavesWitness
    <3>2. /\ i \in FiredBy(r, w, v) /\ HeadOf[i] = f
          /\ Improves(current + RuleCost[r], f) /\ Improves(WitnessCost(i), f)
      BY DEF LocalWitnesses
    <3>3. i \in InstancesOf(r) /\ i \in Instance /\ Holds(Body(i), facts)
      BY <3>2, Handled, FiresApplicable DEF InstancesOf
    <3>4. WitnessCost(i) \in Nat /\ current \in Nat /\ RuleCost[r] \in Nat
      BY <1>1, <3>3, BodyCost, CostAssumption DEF AnnotInv, CostTypes
    <3>5. WitnessCost(i) >= current
      BY <1>1, <3>2, <3>3, <3>4, FiredCost
    <3>6. f \notin facts
      <4>1. f \in facts => f \in DOMAIN orAnnot /\ orAnnot[f] \in Nat
        BY <1>1 DEF AnnotInv, CostTypes
      <4>2. f \in facts => orAnnot[f] <= WitnessCost(i)
        BY <3>2, <3>3, Optimal
      <4> QED BY <3>2, <3>4, <4>1, <4>2 DEF Improves
    <3>7. f \in heads'[r][v]
      BY <1>1, <3>2
    <3> QED BY <2>2, <3>1, <3>2, <3>3, <3>5, <3>6, <3>7
  <2> QED BY <2>1, <2>2
<1>3. \A q \in Rule : Ran(q)' => \A v \in Worker : \A f \in DOMAIN local'[q][v] :
        Good(q, v, f)
  BY <1>2
<1> QED BY <1>1, <1>3 DEF LocalInv

LEMMA TaskCostInv ==
    ASSUME AggregateBounds(Nat), Abstract!IInv, CostInv,
           NEW r \in Rule, NEW w \in Worker, RunRule(r, w)
    PROVE  CostInv'
<1>1. /\ CostTypes /\ pc = "run" /\ pc' = "run"
      /\ UNCHANGED <<start, facts, stratum, orAnnot, andAnnot, buckets, current>>
      /\ \A i : WitnessCost(i)' = WitnessCost(i)
  BY TaskFacts DEF CostInv
<1>2. AnnotInv'
  BY <1>1 DEF CostInv, AnnotInv
<1>3. BucketInv'
  BY <1>1 DEF CostInv, BucketInv
<1>4. OptimalBelow'
  BY <1>1 DEF CostInv, OptimalBelow
<1>5. RankedInv'
  BY <1>1 DEF CostInv, RankedInv
<1>6. CostTypes' /\ SeenInv' /\ KeptInv' /\ ConsideredInv' /\ LocalInv'
  BY TaskTypes, TaskSeen, TaskKept, TaskConsidered, TaskLocal
<1> QED BY <1>2, <1>3, <1>4, <1>5, <1>6 DEF CostInv

-----------------------------------------------------------------------------
(* The merge.                                                               *)

\* The witnesses the workers have found for f, of which the merge takes a cheapest one.
Offered(f) ==
    UNION {{local[r][v][f] : v \in {u \in Worker : f \in DOMAIN local[r][u]}} : r \in active}

LEMMA OfferFacts ==
    ASSUME Abstract!IInv, CostInv, pc = "run", todo = {}, NEW f, NEW x \in Offered(f)
    PROVE  /\ f \in MergedHeads /\ f \in Fact /\ f \notin facts
           /\ x.cost \in Nat /\ x.cost >= current
           /\ x.inst \in Instance /\ HeadOf[x.inst] = f /\ StratumOf[RuleOf[x.inst]] = stratum
           /\ Holds(Body(x.inst), facts)
<1>1. PICK r \in active, v \in Worker : f \in DOMAIN local[r][v] /\ x = local[r][v][f]
  BY DEF Offered
<1>2. r \in Rule /\ StratumOf[r] = stratum /\ Ran(r)
  BY EngineFacts DEF RulesOfStratum, Ran
<1>3. local[r][v] \in UNION {[D -> Witness] : D \in SUBSET Fact}
  BY <1>2 DEF CostInv, CostTypes
<1>4. PICK D \in SUBSET Fact : local[r][v] \in [D -> Witness]
  BY <1>3
<1>5. f \in Fact /\ x \in Witness
  BY <1>1, <1>4
<1>6. /\ x.inst \in InstancesOf(r) /\ HeadOf[x.inst] = f /\ Holds(Body(x.inst), facts)
      /\ x.cost >= current /\ f \notin facts /\ f \in heads[r][v]
  BY <1>1, <1>2 DEF CostInv, LocalInv
<1>7. f \in MergedHeads
  BY <1>6 DEF MergedHeads, AllHeads
<1> QED BY <1>2, <1>5, <1>6, <1>7 DEF Witness, InstancesOf

\* What is offered for f improves f's cost or is no better than it.
LEMMA OfferTaken ==
    ASSUME Abstract!IInv, CostInv, pc = "run", todo = {}, NEW f, NEW x \in Offered(f)
    PROVE  /\ Improvements(f) # {} \/ (f \in DOMAIN orAnnot /\ orAnnot[f] <= x.cost)
           /\ \A y \in Improvements(f) : y.cost <= x.cost
<1> DEFINE costs == {y.cost : y \in Offered(f)}
<1>1. costs \in SUBSET Nat /\ costs # {}
  BY OfferFacts
<1>2. PICK c \in costs : \A d \in costs : c <= d
  BY <1>1, Least
<1>3. PICK y \in Offered(f) : y.cost = c
  BY <1>2
<1>4. \A z \in Offered(f) : y.cost <= z.cost
  BY <1>2, <1>3
<1>5. Improvements(f) = {z \in Offered(f) : Improves(z.cost, f) /\ \A u \in Offered(f) : z.cost <= u.cost}
  BY DEF Improvements, Offered
<1>6. CASE Improves(y.cost, f)
  BY <1>4, <1>5, <1>6
<1>7. CASE ~Improves(y.cost, f)
  <2>1. f \in DOMAIN orAnnot /\ orAnnot[f] \in Nat /\ ~(y.cost < orAnnot[f])
    BY <1>7 DEF Improves, CostInv, CostTypes
  <2>2. y.cost \in Nat /\ x.cost \in Nat /\ y.cost <= x.cost
    BY <1>4, OfferFacts
  <2>3. orAnnot[f] <= x.cost
    BY <2>1, <2>2
  <2> QED BY <1>5, <2>1, <2>3
<1> QED BY <1>5, <1>6, <1>7

\* What the merge takes over.
LEMMA ImprovedFacts ==
    ASSUME Abstract!IInv, CostInv, pc = "run", todo = {}, NEW f \in Improved
    PROVE  /\ f \in MergedHeads /\ f \in Fact /\ f \notin facts
           /\ \A x \in Improvements(f) : x \in Offered(f) /\ Improves(x.cost, f)
<1>1. f \in MergedHeads /\ Improvements(f) # {}
  BY DEF Improved
<1>2. \A x \in Improvements(f) : x \in Offered(f) /\ Improves(x.cost, f)
  BY DEF Improvements, Offered
<1> QED BY <1>1, <1>2, OfferFacts

\* The annotations after the merge.
LEMMA AnnotateCosts ==
    ASSUME AggregateBounds(Nat), Abstract!IInv, CostInv, pc = "run", todo = {}, Annotate
    PROVE  /\ DOMAIN orAnnot \subseteq DOMAIN orAnnot' /\ DOMAIN orAnnot' \subseteq Fact
           /\ \A f \in DOMAIN orAnnot' : orAnnot'[f] \in Nat
           /\ \A f \in DOMAIN orAnnot : orAnnot'[f] <= orAnnot[f]
           /\ \A f \in DOMAIN orAnnot' : f \in facts \/ f \notin MergedHeads =>
                f \in DOMAIN orAnnot /\ orAnnot'[f] = orAnnot[f]
           /\ \A f : \A x \in Offered(f) : f \in DOMAIN orAnnot' /\ orAnnot'[f] <= x.cost
           /\ \A f \in Improved : orAnnot'[f] >= current
<1>1. PICK wit \in [Improved -> UNION {Improvements(f) : f \in Improved}] :
        /\ \A f \in Improved : wit[f] \in Improvements(f)
        /\ orAnnot' = [f \in DOMAIN orAnnot \cup Improved |->
                          IF f \in Improved THEN wit[f].cost ELSE orAnnot[f]]
  BY DEF Annotate
<1>2. DOMAIN orAnnot \subseteq Fact /\ \A f \in DOMAIN orAnnot : orAnnot[f] \in Nat
  BY DEF CostInv, CostTypes
<1>3. \A f \in Improved : /\ wit[f] \in Offered(f) /\ Improves(wit[f].cost, f)
                          /\ f \in MergedHeads /\ f \in Fact /\ f \notin facts
  BY <1>1, ImprovedFacts
<1>4. \A f \in Improved : wit[f].cost \in Nat /\ wit[f].cost >= current
  BY <1>3, OfferFacts
<1>5. /\ DOMAIN orAnnot' = DOMAIN orAnnot \cup Improved
      /\ \A f \in DOMAIN orAnnot' : orAnnot'[f] = IF f \in Improved THEN wit[f].cost ELSE orAnnot[f]
  BY <1>1
<1>6. \A f \in DOMAIN orAnnot' : orAnnot'[f] \in Nat
  BY <1>2, <1>4, <1>5
<1>7. ASSUME NEW f \in DOMAIN orAnnot PROVE orAnnot'[f] <= orAnnot[f]
  <2>1. CASE f \in Improved
    <3>1. wit[f].cost < orAnnot[f]
      BY <1>3, <2>1 DEF Improves
    <3> QED BY <1>2, <1>4, <1>5, <2>1, <3>1
  <2>2. CASE f \notin Improved
    BY <1>2, <1>5, <2>2
  <2> QED BY <2>1, <2>2
<1>8. ASSUME NEW f, NEW x \in Offered(f) PROVE f \in DOMAIN orAnnot' /\ orAnnot'[f] <= x.cost
  <2>1. x.cost \in Nat /\ f \in MergedHeads
    BY OfferFacts
  <2>2. CASE f \in Improved
    <3>1. wit[f].cost <= x.cost
      BY <1>1, <2>2, OfferTaken
    <3> QED BY <1>5, <2>2, <3>1
  <2>3. CASE f \notin Improved
    <3>1. Improvements(f) = {}
      BY <2>1, <2>3 DEF Improved
    <3>2. f \in DOMAIN orAnnot /\ orAnnot[f] <= x.cost
      BY <3>1, OfferTaken
    <3> QED BY <1>5, <2>3, <3>2
  <2> QED BY <2>2, <2>3
<1> QED BY <1>2, <1>3, <1>4, <1>5, <1>6, <1>7, <1>8

\* The witnesses after the merge.
LEMMA AnnotateWitnesses ==
    ASSUME AggregateBounds(Nat), Abstract!IInv, CostInv, pc = "run", todo = {}, Annotate
    PROVE  /\ \A f \in DOMAIN orAnnot' \ start :
                /\ f \in DOMAIN andAnnot'
                /\ andAnnot'[f].inst \in Instance
                /\ HeadOf[andAnnot'[f].inst] = f
                /\ StratumOf[RuleOf[andAnnot'[f].inst]] <= stratum
                /\ Holds(Body(andAnnot'[f].inst), facts)
                /\ andAnnot'[f].cost = orAnnot'[f]
           /\ \A f \in facts \ start : andAnnot'[f] = andAnnot[f]
<1>1. PICK wit \in [Improved -> UNION {Improvements(f) : f \in Improved}] :
        /\ \A f \in Improved : wit[f] \in Improvements(f)
        /\ orAnnot' = [f \in DOMAIN orAnnot \cup Improved |->
                          IF f \in Improved THEN wit[f].cost ELSE orAnnot[f]]
        /\ andAnnot' = [f \in DOMAIN andAnnot \cup Improved |->
                          IF f \in Improved THEN wit[f] ELSE andAnnot[f]]
  BY DEF Annotate
<1>2. \A f \in Improved : wit[f] \in Offered(f) /\ f \notin facts
  BY <1>1, ImprovedFacts
<1>3. /\ DOMAIN orAnnot' = DOMAIN orAnnot \cup Improved
      /\ \A f \in DOMAIN orAnnot' : orAnnot'[f] = IF f \in Improved THEN wit[f].cost ELSE orAnnot[f]
  BY <1>1
<1>4. /\ DOMAIN andAnnot' = DOMAIN andAnnot \cup Improved
      /\ \A f \in DOMAIN andAnnot' : andAnnot'[f] = IF f \in Improved THEN wit[f] ELSE andAnnot[f]
  BY <1>1
<1>5. AnnotInv /\ stratum \in Nat
  BY StratumNat DEF CostInv
<1>6. ASSUME NEW f \in DOMAIN orAnnot' \ start
      PROVE  /\ f \in DOMAIN andAnnot'
             /\ andAnnot'[f].inst \in Instance
             /\ HeadOf[andAnnot'[f].inst] = f
             /\ StratumOf[RuleOf[andAnnot'[f].inst]] <= stratum
             /\ Holds(Body(andAnnot'[f].inst), facts)
             /\ andAnnot'[f].cost = orAnnot'[f]
  <2>1. CASE f \in Improved
    <3>1. andAnnot'[f] = wit[f] /\ orAnnot'[f] = wit[f].cost /\ f \in DOMAIN andAnnot'
      BY <1>3, <1>4, <2>1
    <3>2. /\ wit[f].inst \in Instance /\ HeadOf[wit[f].inst] = f
          /\ StratumOf[RuleOf[wit[f].inst]] = stratum
          /\ Holds(Body(wit[f].inst), facts)
      BY <1>2, <2>1, OfferFacts
    <3> QED BY <1>5, <3>1, <3>2
  <2>2. CASE f \notin Improved
    <3>1. f \in DOMAIN orAnnot \ start /\ orAnnot'[f] = orAnnot[f]
      BY <1>3, <2>2
    <3>2. f \in DOMAIN andAnnot
      BY <1>5, <3>1 DEF AnnotInv
    <3>3. andAnnot'[f] = andAnnot[f] /\ f \in DOMAIN andAnnot'
      BY <1>4, <2>2, <3>2
    <3> QED BY <1>5, <3>1, <3>3 DEF AnnotInv
  <2> QED BY <2>1, <2>2
<1>7. ASSUME NEW f \in facts \ start PROVE andAnnot'[f] = andAnnot[f]
  <2>1. f \in DOMAIN andAnnot
    BY <1>5 DEF AnnotInv
  <2> QED BY <1>2, <1>4, <2>1
<1> QED BY <1>6, <1>7

\* After the merge every merged head has a cost, and none that is no fact yet has one that
\* is over.
LEMMA MergedCosts ==
    ASSUME AggregateBounds(Nat), Abstract!IInv, CostInv, pc = "run", todo = {}, Annotate,
           NEW f \in MergedHeads
    PROVE  f \in DOMAIN orAnnot' /\ (IF f \in facts THEN orAnnot'[f] <= current
                                                    ELSE orAnnot'[f] >= current)
<1>1. f \in HeadsOf(stratum)
  BY MergedOfStratum
<1>2. AnnotInv /\ BucketInv /\ current \in Nat /\ \A g \in DOMAIN orAnnot : orAnnot[g] \in Nat
  BY DEF CostInv, CostTypes
<1>3. f \in DOMAIN orAnnot'
  <2>1. PICK r \in active : f \in AllHeads(r)
    BY DEF MergedHeads
  <2>2. r \in Rule /\ StratumOf[r] = stratum /\ Ran(r) /\ r \in RulesOfStratum(stratum)
    BY <2>1, EngineFacts DEF RulesOfStratum, Ran
  <2>3. PICK i \in InstancesOf(r) : HeadOf[i] = f /\ Holds(Body(i), facts)
    BY <2>1, <2>2, EngineFacts
  <2>4. i \in Instance /\ RuleOf[i] = r /\ snapshot[r] = facts
    BY <2>2, <2>3, EngineFacts DEF InstancesOf
  <2>5. CASE f \in DOMAIN orAnnot
    BY <2>5, AnnotateCosts
  <2>6. CASE f \notin DOMAIN orAnnot
    <3>1. r \notin fresh
      BY <2>2, EngineFacts DEF Ran
    <3>2. PICK v \in Worker : f \in DOMAIN local[r][v]
      BY <2>2, <2>3, <2>4, <2>6, <3>1 DEF CostInv, ConsideredInv
    <3>3. local[r][v][f] \in Offered(f)
      BY <2>1, <3>2 DEF Offered
    <3> QED BY <3>3, AnnotateCosts
  <2> QED BY <2>5, <2>6
<1>4. CASE f \in facts
  BY <1>1, <1>2, <1>3, <1>4, AnnotateCosts DEF BucketInv
<1>5. CASE f \in Improved
  BY <1>3, <1>5, AnnotateCosts, ImprovedFacts
<1>6. CASE f \notin facts /\ f \notin Improved
  <2>1. f \in DOMAIN orAnnot /\ orAnnot'[f] = orAnnot[f]
    <3>1. PICK wit \in [Improved -> UNION {Improvements(g) : g \in Improved}] :
            orAnnot' = [g \in DOMAIN orAnnot \cup Improved |->
                              IF g \in Improved THEN wit[g].cost ELSE orAnnot[g]]
      BY DEF Annotate
    <3> QED BY <1>3, <1>6, <3>1
  <2>2. orAnnot[f] > current /\ orAnnot[f] \in Nat
    BY <1>1, <1>2, <1>6, <2>1 DEF BucketInv
  <2>3. orAnnot[f] >= current
    BY <1>2, <2>2
  <2> QED BY <1>3, <1>6, <2>1, <2>3
<1> QED BY <1>3, <1>4, <1>5, <1>6

\* The next bucket: it holds what is due at the least cost above or at the current one, and
\* all that is due later stays in the buckets at its cost.
LEMMA UpdatedFacts ==
    ASSUME AggregateBounds(Nat), Abstract!IInv, CostInv, pc = "run", todo = {}, Annotate
    PROVE  /\ UpdatedBuckets \subseteq Nat \X Fact
           /\ \A b \in UpdatedBuckets : b[1] >= current =>
                /\ b[2] \in DOMAIN orAnnot' /\ orAnnot'[b[2]] = b[1]
                /\ b[2] \in MergedHeads \/ (b \in buckets /\ b[1] > current)
                /\ b[1] > current => b[2] \notin facts
           /\ \A f \in MergedHeads : <<orAnnot'[f], f>> \in UpdatedBuckets
           /\ \A b \in buckets : b[1] > current /\ b[2] \notin MergedHeads => b \in UpdatedBuckets
<1>1. /\ buckets \subseteq Nat \X Fact /\ current \in Nat /\ BucketInv
      /\ MergedHeads \subseteq Fact
  BY MergedOfStratum DEF CostInv, CostTypes, HeadsOf
<1>2. \A f \in MergedHeads : /\ f \in DOMAIN orAnnot' /\ orAnnot'[f] \in Nat
                             /\ f \in facts => orAnnot'[f] <= current
  BY MergedCosts, AnnotateCosts
<1>3. UpdatedBuckets \subseteq Nat \X Fact
  <2>1. {<<orAnnot'[f], f>> : f \in MergedHeads} \subseteq Nat \X Fact
    BY <1>1, <1>2
  <2> QED BY <1>1, <2>1 DEF UpdatedBuckets
<1>4. ASSUME NEW b \in UpdatedBuckets, b[1] >= current
      PROVE  /\ b[2] \in DOMAIN orAnnot' /\ orAnnot'[b[2]] = b[1]
             /\ b[2] \in MergedHeads \/ (b \in buckets /\ b[1] > current)
             /\ b[1] > current => b[2] \notin facts
  <2>1. CASE \E f \in MergedHeads : b = <<orAnnot'[f], f>>
    <3>1. PICK f \in MergedHeads : b = <<orAnnot'[f], f>>
      BY <2>1
    <3>2. b[1] = orAnnot'[f] /\ b[2] = f
      BY <3>1
    <3>3. orAnnot'[f] > current => f \notin facts
      BY <1>1, <1>2
    <3>4. f \in DOMAIN orAnnot' /\ orAnnot'[f] \in Nat
      BY <1>2
    <3>5. b[2] \in DOMAIN orAnnot' /\ orAnnot'[b[2]] = b[1] /\ b[2] \in MergedHeads
      BY <3>2, <3>4
    <3>6. b[1] > current => b[2] \notin facts
      BY <3>2, <3>3
    <3> QED BY <3>5, <3>6
  <2>2. CASE ~\E f \in MergedHeads : b = <<orAnnot'[f], f>>
    <3>1. /\ b \in buckets /\ b[1] # current
          /\ ~(b[2] \in MergedHeads \cap DOMAIN orAnnot /\ b[1] = orAnnot[b[2]])
      BY <2>2 DEF UpdatedBuckets
    <3>2. b[1] > current
      BY <1>1, <1>4, <3>1
    <3>3. b[2] \notin facts /\ b[2] \in DOMAIN orAnnot /\ orAnnot[b[2]] = b[1]
      BY <1>1, <3>1, <3>2 DEF BucketInv
    <3>4. b[2] \notin MergedHeads
      BY <3>1, <3>3
    <3>5. b[2] \in DOMAIN orAnnot' => orAnnot'[b[2]] = orAnnot[b[2]]
      BY <3>4, AnnotateCosts
    <3>6. b[2] \in DOMAIN orAnnot'
      BY <3>3, AnnotateCosts
    <3> QED BY <3>1, <3>2, <3>3, <3>5, <3>6
  <2> QED BY <2>1, <2>2
<1>5. \A f \in MergedHeads : <<orAnnot'[f], f>> \in UpdatedBuckets
  BY DEF UpdatedBuckets
<1>6. ASSUME NEW b \in buckets, b[1] > current, b[2] \notin MergedHeads PROVE b \in UpdatedBuckets
  BY <1>1, <1>6 DEF UpdatedBuckets
<1> QED BY <1>3, <1>4, <1>5, <1>6

\* The heads of the bucket of cost c.
BucketOf(c) == {b[2] : b \in {d \in UpdatedBuckets : d[1] = c}}

\* What is inserted is the least that is due, and is derived in this stratum.
LEMMA InsertFacts ==
    ASSUME AggregateBounds(Nat), Abstract!IInv, CostInv, InsertBucket
    PROVE  /\ pc = "run" /\ todo = {} /\ Annotate
           /\ current' \in Nat /\ current' >= current /\ current' \in Reachable(UpdatedBuckets)
           /\ facts' = facts \cup BucketOf(current')
           /\ BucketOf(current') # {}
           /\ BucketOf(current') \subseteq HeadsOf(stratum)
           /\ BucketOf(current') \subseteq Waiting \cup MergedHeads
           /\ \A f \in BucketOf(current') : f \in DOMAIN orAnnot' /\ orAnnot'[f] = current'
           /\ \A b \in UpdatedBuckets : b[1] >= current => b[1] >= current'
<1>1. PICK c \in Reachable(UpdatedBuckets) :
        /\ \A d \in Reachable(UpdatedBuckets) : c <= d
        /\ facts' = facts \cup BucketOf(c)
        /\ current' = c
  BY DEF InsertBucket, BucketOf
<1>2. pc = "run" /\ todo = {} /\ Annotate
  BY DEF InsertBucket
<1>3. \A b \in UpdatedBuckets : b[1] >= current => b[1] \in Reachable(UpdatedBuckets)
  BY DEF Reachable
<1>4. PICK b \in UpdatedBuckets : b[1] = c /\ b[1] >= current
  BY DEF Reachable
<1>5. c \in Nat /\ c >= current
  BY <1>2, <1>4, UpdatedFacts
<1>6. b[2] \in BucketOf(c)
  BY <1>4 DEF BucketOf
<1>7. ASSUME NEW f \in BucketOf(c)
      PROVE  /\ f \in HeadsOf(stratum) /\ f \in Waiting \cup MergedHeads
             /\ f \in DOMAIN orAnnot' /\ orAnnot'[f] = c
  <2>1. PICK d \in UpdatedBuckets : d[1] = c /\ d[2] = f
    BY DEF BucketOf
  <2>2. /\ f \in DOMAIN orAnnot' /\ orAnnot'[f] = c
        /\ f \in MergedHeads \/ (d \in buckets /\ d[1] > current /\ f \notin facts)
    BY <1>2, <1>5, <2>1, UpdatedFacts
  <2>3. CASE f \in MergedHeads
    BY <1>2, <2>2, <2>3, MergedOfStratum
  <2>4. CASE f \notin MergedHeads
    <3>1. d \in buckets /\ d[1] >= current /\ f \notin facts
      BY <1>5, <2>1, <2>2, <2>4
    <3>2. f \in Waiting
      BY <2>1, <3>1 DEF Waiting
    <3> QED BY <1>2, <2>2, <3>2, EngineFacts
  <2> QED BY <2>3, <2>4
<1> QED BY <1>1, <1>2, <1>3, <1>5, <1>6, <1>7

LEMMA InsertTypes ==
    ASSUME AggregateBounds(Nat), Abstract!IInv, CostInv, InsertBucket
    PROVE  CostTypes'
<1>1. pc = "run" /\ todo = {} /\ Annotate /\ current' \in Nat
  BY InsertFacts
<1>2. buckets' = UpdatedBuckets /\ UNCHANGED <<pending, heads, local>>
  BY DEF InsertBucket, ruleVars
<1>3. DOMAIN orAnnot' \subseteq Fact /\ \A f \in DOMAIN orAnnot' : orAnnot'[f] \in Nat
  BY <1>1, AnnotateCosts
<1>4. buckets' \subseteq Nat \X Fact
  BY <1>1, <1>2, UpdatedFacts
<1> QED BY <1>1, <1>2, <1>3, <1>4 DEF CostInv, CostTypes

LEMMA InsertAnnot ==
    ASSUME AggregateBounds(Nat), Abstract!IInv, CostInv, InsertBucket
    PROVE  AnnotInv'
<1>1. /\ pc = "run" /\ todo = {} /\ Annotate /\ AnnotInv /\ stratum \in Nat
      /\ start \subseteq facts
  BY InsertFacts, StratumNat, EngineFacts DEF CostInv
<1>2. UNCHANGED <<start, stratum>>
  BY DEF InsertBucket
<1>3. PICK B : /\ B = BucketOf(current') /\ facts' = facts \cup B
               /\ B \subseteq HeadsOf(stratum) /\ B \subseteq DOMAIN orAnnot'
  BY InsertFacts
<1>4. \A f \in facts : f \in DOMAIN orAnnot'
  BY <1>1, AnnotateCosts DEF AnnotInv
<1>5. \A f \in start : f \in DOMAIN orAnnot' /\ orAnnot'[f] = 0
  <2>1. \A f \in start : f \in facts /\ orAnnot[f] = 0
    BY <1>1 DEF AnnotInv
  <2> QED BY <1>1, <1>4, <2>1, AnnotateCosts
<1>6. ASSUME NEW f \in DOMAIN orAnnot' \ start
      PROVE  /\ f \in DOMAIN andAnnot'
             /\ andAnnot'[f].inst \in Instance
             /\ HeadOf[andAnnot'[f].inst] = f
             /\ StratumOf[RuleOf[andAnnot'[f].inst]] <= stratum
             /\ Holds(Body(andAnnot'[f].inst), facts \cup B)
             /\ andAnnot'[f].cost = orAnnot'[f]
  <2>1. /\ f \in DOMAIN andAnnot'
        /\ andAnnot'[f].inst \in Instance
        /\ HeadOf[andAnnot'[f].inst] = f
        /\ StratumOf[RuleOf[andAnnot'[f].inst]] <= stratum
        /\ Holds(Body(andAnnot'[f].inst), facts)
        /\ andAnnot'[f].cost = orAnnot'[f]
    BY <1>1, AnnotateWitnesses
  <2>2. PICK i \in Instance : i = andAnnot'[f].inst
    BY <2>1
  <2>3. Holds(Body(i), facts \cup B)
    BY <1>1, <1>3, <2>1, <2>2, Keeps
  <2> QED BY <2>1, <2>2, <2>3
<1>7. facts' \subseteq DOMAIN orAnnot'
  BY <1>3, <1>4
<1> QED BY <1>2, <1>3, <1>5, <1>6, <1>7 DEF AnnotInv

\* What is left in the buckets after the insertion is due later.
LEMMA InsertBuckets ==
    ASSUME AggregateBounds(Nat), Abstract!IInv, CostInv, InsertBucket
    PROVE  BucketInv'
<1>1. /\ pc = "run" /\ todo = {} /\ Annotate /\ BucketInv /\ current \in Nat
      /\ current' \in Nat /\ current' >= current
      /\ buckets' = UpdatedBuckets /\ UNCHANGED stratum
  BY InsertFacts DEF CostInv, CostTypes, InsertBucket
<1>2. PICK B : /\ B = BucketOf(current') /\ facts' = facts \cup B
               /\ \A f \in B : orAnnot'[f] = current'
  BY InsertFacts
<1>3. ASSUME NEW b \in UpdatedBuckets, b[1] = current' PROVE b[2] \in facts'
  <2>1. b[2] \in B
    BY <1>2, <1>3 DEF BucketOf
  <2> QED BY <1>2, <2>1
<1>4. ASSUME NEW b \in UpdatedBuckets, b[1] > current'
      PROVE  b[2] \notin facts' /\ b[2] \in DOMAIN orAnnot' /\ orAnnot'[b[2]] = b[1]
  <2>1. b[1] \in Nat
    BY <1>1, UpdatedFacts
  <2>2. b[1] > current /\ b[1] >= current /\ b[1] # current'
    BY <1>1, <1>4, <2>1
  <2>3. b[2] \in DOMAIN orAnnot' /\ orAnnot'[b[2]] = b[1] /\ b[2] \notin facts
    BY <1>1, <2>2, UpdatedFacts
  <2>4. b[2] \notin B
    BY <1>2, <2>2, <2>3
  <2> QED BY <1>2, <2>3, <2>4
<1>5. ASSUME NEW f \in HeadsOf(stratum) \cap DOMAIN orAnnot'
      PROVE  IF f \in facts' THEN orAnnot'[f] <= current'
             ELSE orAnnot'[f] > current' /\ <<orAnnot'[f], f>> \in UpdatedBuckets
  <2>0. orAnnot'[f] \in Nat
    BY <1>1, AnnotateCosts
  <2>1. CASE f \in facts
    <3>1. f \in DOMAIN orAnnot /\ orAnnot'[f] = orAnnot[f]
      BY <1>1, <2>1, AnnotateCosts
    <3>2. orAnnot[f] <= current
      BY <1>1, <2>1, <3>1 DEF BucketInv
    <3> QED BY <1>1, <1>2, <2>0, <2>1, <3>1, <3>2
  <2>2. CASE f \in B
    BY <1>1, <1>2, <2>2
  <2>3. CASE f \notin facts /\ f \notin B
    <3>1. orAnnot'[f] >= current /\ <<orAnnot'[f], f>> \in UpdatedBuckets
      <4>1. CASE f \in MergedHeads
        BY <1>1, <2>3, <4>1, MergedCosts, UpdatedFacts
      <4>2. CASE f \notin MergedHeads
        <5>1. f \in DOMAIN orAnnot /\ orAnnot'[f] = orAnnot[f]
          BY <1>1, <4>2, AnnotateCosts
        <5>2. orAnnot[f] > current /\ <<orAnnot[f], f>> \in buckets
          BY <1>1, <2>3, <5>1 DEF BucketInv
        <5>3. PICK b \in buckets : b = <<orAnnot[f], f>> /\ b[1] = orAnnot[f] /\ b[2] = f
          BY <5>2
        <5>4. b \in UpdatedBuckets
          BY <1>1, <4>2, <5>2, <5>3, UpdatedFacts
        <5> QED BY <1>1, <2>0, <5>1, <5>2, <5>3, <5>4
      <4> QED BY <4>1, <4>2
    <3>2. PICK b \in UpdatedBuckets : b = <<orAnnot'[f], f>> /\ b[1] = orAnnot'[f] /\ b[2] = f
      BY <3>1
    <3>3. b[1] >= current'
      BY <3>1, <3>2, InsertFacts
    <3>4. b[1] # current'
      BY <1>2, <2>3, <3>2 DEF BucketOf
    <3>5. orAnnot'[f] > current'
      BY <1>1, <2>0, <3>2, <3>3, <3>4
    <3> QED BY <1>2, <2>3, <3>1, <3>5
  <2> QED BY <2>1, <2>2, <2>3
<1> QED BY <1>1, <1>3, <1>4, <1>5 DEF BucketInv

LEMMA InsertSeen ==
    ASSUME AggregateBounds(Nat), Abstract!IInv, CostInv, InsertBucket
    PROVE  SeenInv' /\ KeptInv'
<1>1. /\ pc = "run" /\ todo = {} /\ SeenInv /\ KeptInv /\ AnnotInv
      /\ UNCHANGED <<stratum, snapshot, fresh, pending>>
  BY InsertFacts DEF CostInv, InsertBucket, ruleVars
<1>2. PICK B : /\ B = BucketOf(current') /\ facts' = facts \cup B /\ B \subseteq HeadsOf(stratum)
               /\ \A f \in B : orAnnot'[f] = current'
  BY InsertFacts
<1>3. current' \in Nat
  BY InsertFacts
<1>4. ASSUME NEW r \in RulesOfStratum(stratum)
      PROVE  /\ r \notin fresh
             /\ \A f \in facts' \ snapshot[r] :
                  /\ f \in HeadsOf(stratum)
                  /\ PredOf[f] \in BodyPredicates(r) => orAnnot'[f] >= current'
  <2>1. r \notin fresh /\ \A f \in facts \ snapshot[r] : PredOf[f] \notin BodyPredicates(r)
    BY <1>1, EngineFacts
  <2>2. \A f \in facts \ snapshot[r] : f \in HeadsOf(stratum)
    BY <1>1, <2>1 DEF SeenInv
  <2> QED BY <1>2, <1>3, <2>1, <2>2
<1>5. SeenInv'
  BY <1>1, <1>4 DEF SeenInv
<1>6. KeptInv'
  BY <1>1, <1>2 DEF KeptInv
<1> QED BY <1>5, <1>6

\* A binding its rule has seen applicable still is, at the same cost.
LEMMA SeenCost ==
    ASSUME AggregateBounds(Nat), Abstract!IInv, CostInv, InsertBucket,
           NEW i \in Instance, StratumOf[RuleOf[i]] = stratum,
           Holds(Body(i), snapshot[RuleOf[i]])
    PROVE  WitnessCost(i) \in Nat /\ WitnessCost(i)' = WitnessCost(i)
<1>1. pc = "run" /\ todo = {} /\ Annotate /\ CostTypes /\ SeenInv /\ AnnotInv /\ stratum \in Nat
  BY InsertFacts, StratumNat DEF CostInv
<1>2. RuleOf[i] \in RulesOfStratum(stratum)
  BY TypeAssumption DEF RulesOfStratum
<1>3. RuleOf[i] \notin fresh /\ snapshot[RuleOf[i]] \subseteq facts
  BY <1>1, <1>2, EngineFacts
<1>4. facts \ snapshot[RuleOf[i]] \subseteq HeadsOf(stratum)
  BY <1>1, <1>2, <1>3 DEF SeenInv
<1>5. PICK B : B = facts \ snapshot[RuleOf[i]] /\ snapshot[RuleOf[i]] \cup B = facts
  BY <1>3
<1>9. B \subseteq HeadsOf(stratum) /\ StratumOf[RuleOf[i]] <= stratum
  BY <1>1, <1>4, <1>5
<1>6. Holds(Body(i), snapshot[RuleOf[i]] \cup B)
  BY <1>1, <1>9, Keeps
<1>7. Holds(Body(i), facts)
  BY <1>5, <1>6
<1>8. \A f \in facts : orAnnot'[f] = orAnnot[f]
  BY <1>1, AnnotateCosts DEF AnnotInv
<1> QED BY <1>1, <1>7, <1>8, BodyCost, SameCost DEF AnnotInv

\* What the tasks have considered has been offered to the merge.
LEMMA InsertConsidered ==
    ASSUME AggregateBounds(Nat), Abstract!IInv, CostInv, InsertBucket
    PROVE  ConsideredInv' /\ LocalInv'
<1>1. /\ pc = "run" /\ todo = {} /\ Annotate /\ ConsideredInv /\ CostTypes
      /\ pc' = "check" /\ UNCHANGED <<stratum, snapshot, fresh>>
  BY InsertFacts DEF CostInv, InsertBucket, ruleVars
<1>2. LocalInv'
  BY <1>1 DEF LocalInv, Ran
<1>3. ASSUME NEW i \in Instance, StratumOf[RuleOf[i]] = stratum, RuleOf[i] \notin fresh,
             Holds(Body(i), snapshot[RuleOf[i]])
      PROVE  HeadOf[i] \in DOMAIN orAnnot' /\ orAnnot'[HeadOf[i]] <= WitnessCost(i)'
  <2>1. WitnessCost(i) \in Nat /\ WitnessCost(i)' = WitnessCost(i)
    BY <1>3, SeenCost
  <2>2. CASE HeadOf[i] \in DOMAIN orAnnot /\ orAnnot[HeadOf[i]] <= WitnessCost(i)
    <3>1. HeadOf[i] \in DOMAIN orAnnot' /\ orAnnot'[HeadOf[i]] <= orAnnot[HeadOf[i]]
      BY <1>1, <2>2, AnnotateCosts
    <3>2. orAnnot'[HeadOf[i]] \in Nat /\ orAnnot[HeadOf[i]] \in Nat
      BY <1>1, <2>2, <3>1, AnnotateCosts DEF CostTypes
    <3> QED BY <2>1, <2>2, <3>1, <3>2
  <2>3. CASE ~(HeadOf[i] \in DOMAIN orAnnot /\ orAnnot[HeadOf[i]] <= WitnessCost(i))
    <3>0. PICK r, f : r = RuleOf[i] /\ f = HeadOf[i]
      OBVIOUS
    <3>1. Ran(r) /\ \E v \in Worker : f \in DOMAIN local[r][v] /\ local[r][v][f].cost <= WitnessCost(i)
      BY <1>1, <1>3, <2>3, <3>0 DEF ConsideredInv
    <3>2. PICK v \in Worker : f \in DOMAIN local[r][v] /\ local[r][v][f].cost <= WitnessCost(i)
      BY <3>1
    <3>3. PICK x \in Offered(f) : x.cost <= WitnessCost(i)
      BY <3>1, <3>2 DEF Offered, Ran
    <3>4. f \in DOMAIN orAnnot' /\ orAnnot'[f] <= x.cost
      BY <1>1, AnnotateCosts
    <3>5. orAnnot'[f] \in Nat /\ x.cost \in Nat
      BY <1>1, <3>4, AnnotateCosts, OfferFacts
    <3> QED BY <2>1, <3>0, <3>3, <3>4, <3>5
  <2> QED BY <2>2, <2>3
<1> QED BY <1>1, <1>2, <1>3 DEF ConsideredInv

LEMMA InsertBelow ==
    ASSUME AggregateBounds(Nat), Abstract!IInv, CostInv, InsertBucket
    PROVE  OptimalBelow'
<1>1. /\ pc = "run" /\ todo = {} /\ Annotate /\ OptimalBelow /\ AnnotInv /\ stratum \in Nat
      /\ pc' = "check" /\ UNCHANGED stratum
  BY InsertFacts, StratumNat DEF CostInv, InsertBucket
<1>2. PICK B : facts' = facts \cup B /\ B \subseteq HeadsOf(stratum)
  BY InsertFacts
<1>3. ASSUME NEW i \in Instance, StratumOf[RuleOf[i]] < stratum, Holds(Body(i), facts'),
             HeadOf[i] \in facts'
      PROVE  orAnnot'[HeadOf[i]] <= WitnessCost(i)'
  <2>1. Holds(Body(i), facts)
    BY <1>1, <1>2, <1>3, Unread
  <2>2. HeadOf[i] \notin B
    <3>1. HeadOf[i] \in B => StratumOf[RuleOf[i]] = stratum
      BY <1>2, OneStratum
    <3>2. StratumOf[RuleOf[i]] # stratum
      BY <1>1, <1>3, TypeAssumption
    <3> QED BY <3>1, <3>2
  <2>3. HeadOf[i] \in facts
    BY <1>2, <1>3, <2>2
  <2>4. \A f \in facts : orAnnot'[f] = orAnnot[f]
    BY <1>1, AnnotateCosts DEF AnnotInv
  <2>5. WitnessCost(i)' = WitnessCost(i)
    BY <2>1, <2>4, SameCost
  <2> QED BY <1>1, <1>3, <2>1, <2>3, <2>4, <2>5 DEF OptimalBelow
<1> QED BY <1>1, <1>3 DEF OptimalBelow

\* New facts rest on old ones, by witnesses that are not replaced any more.
LEMMA InsertRanked ==
    ASSUME AggregateBounds(Nat), Abstract!IInv, CostInv, InsertBucket
    PROVE  RankedInv'
<1>1. /\ pc = "run" /\ todo = {} /\ Annotate /\ AnnotInv /\ UNCHANGED start
      /\ facts \subseteq Fact
  BY InsertFacts, EngineFacts DEF CostInv, InsertBucket
<1>2. PICK B : facts' = facts \cup B /\ B \subseteq DOMAIN orAnnot'
  BY InsertFacts
<1>3. PICK n \in Nat, rank \in [Fact -> Nat] :
        /\ \A f \in facts : rank[f] <= n
        /\ \A f \in facts \ start : \A l \in Body(andAnnot[f].inst) \cap Positive :
            Atom[l] \in start \/ rank[Atom[l]] < rank[f]
  BY DEF CostInv, RankedInv
<1> DEFINE next == [f \in Fact |-> IF f \in facts THEN rank[f] ELSE n + 1]
<1>4. n + 1 \in Nat /\ next \in [Fact -> Nat]
  BY <1>3
<1>5. DOMAIN orAnnot' \subseteq Fact
  BY <1>1, AnnotateCosts
<1>6. \A f \in facts' : f \in DOMAIN orAnnot' /\ f \in Fact
  BY <1>1, <1>2, <1>5, AnnotateCosts DEF AnnotInv
<1>7. \A f \in Fact : next[f] = IF f \in facts THEN rank[f] ELSE n + 1
  OBVIOUS
<1>8. \A f \in facts : rank[f] \in Nat /\ rank[f] <= n
  BY <1>1, <1>3
<1> HIDE DEF next
<1>9. \A f \in facts' : next[f] <= n + 1
  BY <1>3, <1>6, <1>7, <1>8
<1>10. ASSUME NEW f \in facts' \ start, NEW l \in Body(andAnnot'[f].inst) \cap Positive
       PROVE  Atom[l] \in start \/ next[Atom[l]] < next[f]
  <2>1. Holds(Body(andAnnot'[f].inst), facts)
    BY <1>1, <1>6, AnnotateWitnesses
  <2>2. Atom[l] \in facts
    BY <2>1 DEF Holds, Sat
  <2>3. next[Atom[l]] = rank[Atom[l]] /\ rank[Atom[l]] \in Nat /\ rank[Atom[l]] <= n
    BY <1>1, <1>7, <1>8, <2>2
  <2>4. CASE f \in facts
    <3>1. andAnnot'[f] = andAnnot[f]
      BY <1>1, <2>4, AnnotateWitnesses
    <3>2. Atom[l] \in start \/ rank[Atom[l]] < rank[f]
      BY <1>3, <2>4, <3>1
    <3> QED BY <1>6, <1>7, <2>3, <2>4, <3>2
  <2>5. CASE f \notin facts
    BY <1>3, <1>6, <1>7, <2>3, <2>5
  <2> QED BY <2>4, <2>5
<1>11. \A f \in facts' \ start' : \A l \in Body(andAnnot'[f].inst) \cap Positive :
          Atom[l] \in start' \/ next[Atom[l]] < next[f]
  BY <1>1, <1>10
<1>12. PICK m \in Nat : m = n + 1
  BY <1>4
<1>13. /\ \A f \in facts' : next[f] <= m
       /\ \A f \in facts' \ start' : \A l \in Body(andAnnot'[f].inst) \cap Positive :
            Atom[l] \in start' \/ next[Atom[l]] < next[f]
  BY <1>9, <1>11, <1>12
<1>14. \E rank1 \in [Fact -> Nat] :
        /\ \A f \in facts' : rank1[f] <= m
        /\ \A f \in facts' \ start' : \A l \in Body(andAnnot'[f].inst) \cap Positive :
            Atom[l] \in start' \/ rank1[Atom[l]] < rank1[f]
  BY <1>4, <1>13
<1> QED BY <1>14 DEF RankedInv

LEMMA InsertCostInv ==
    ASSUME AggregateBounds(Nat), Abstract!IInv, CostInv, InsertBucket
    PROVE  CostInv'
  BY InsertTypes, InsertAnnot, InsertBuckets, InsertSeen, InsertConsidered, InsertBelow,
     InsertRanked DEF CostInv

-----------------------------------------------------------------------------
(* The end of a stratum and the other steps.                                *)

\* At the end of a stratum, however it came about, its costs are final, and what the next
\* one derives is annotated only if it is a start fact.
LEMMA EndCostInv ==
    ASSUME AggregateBounds(Nat), Abstract!IInv, CostInv, EndStratum, pc # "done",
           UNCHANGED <<start, facts, ruleVars>>,
           DOMAIN orAnnot' = DOMAIN orAnnot,
           \A f \in DOMAIN orAnnot : orAnnot'[f] = orAnnot[f],
           \A f \in DOMAIN orAnnot \ start : f \in DOMAIN andAnnot' /\ andAnnot'[f] = andAnnot[f]
    PROVE  CostInv'
<1>1. /\ CostTypes /\ AnnotInv /\ RankedInv
      /\ stratum \in Nat /\ NumStrata \in Nat /\ \A r \in Rule : StratumOf[r] \in Nat
      /\ start \subseteq facts
  BY StratumNat, EngineFacts DEF CostInv
<1>2. /\ buckets' = {} /\ current' = 0
      /\ (stratum' = stratum + 1 /\ pc' = "check") \/ (stratum' = stratum /\ pc' = "done")
  BY DEF EndStratum
<1>3. CostTypes'
  BY <1>1, <1>2 DEF CostTypes, ruleVars
<1>4. AnnotInv'
  <2>1. ASSUME NEW f \in DOMAIN orAnnot \ start
        PROVE  /\ f \in DOMAIN andAnnot'
               /\ andAnnot'[f].inst \in Instance
               /\ HeadOf[andAnnot'[f].inst] = f
               /\ StratumOf[RuleOf[andAnnot'[f].inst]] <= stratum'
               /\ Holds(Body(andAnnot'[f].inst), facts)
               /\ andAnnot'[f].cost = orAnnot'[f]
    <3>1. f \in DOMAIN andAnnot' /\ andAnnot'[f] = andAnnot[f] /\ orAnnot'[f] = orAnnot[f]
      OBVIOUS
    <3>2. /\ andAnnot[f].inst \in Instance
          /\ HeadOf[andAnnot[f].inst] = f
          /\ StratumOf[RuleOf[andAnnot[f].inst]] <= stratum
          /\ Holds(Body(andAnnot[f].inst), facts)
          /\ andAnnot[f].cost = orAnnot[f]
      BY <1>1 DEF AnnotInv
    <3>3. RuleOf[andAnnot[f].inst] \in Rule
      BY <3>2, TypeAssumption
    <3>4. StratumOf[RuleOf[andAnnot[f].inst]] <= stratum'
      BY <1>1, <1>2, <3>2, <3>3
    <3> QED BY <3>1, <3>2, <3>4
  <2>2. \A f \in start : f \in DOMAIN orAnnot /\ orAnnot[f] = 0
    BY <1>1 DEF AnnotInv
  <2>3. facts \subseteq DOMAIN orAnnot
    BY <1>1 DEF AnnotInv
  <2> QED BY <2>1, <2>2, <2>3 DEF AnnotInv
<1>5. ASSUME pc' # "done", NEW f \in HeadsOf(stratum') \cap DOMAIN orAnnot
      PROVE  f \in facts /\ orAnnot[f] = 0
  <2>1. stratum' = stratum + 1
    BY <1>2, <1>5
  <2>2. ASSUME f \notin start PROVE FALSE
    <3>1. PICK i \in Instance : i = andAnnot[f].inst /\ HeadOf[i] = f /\ StratumOf[RuleOf[i]] <= stratum
      BY <1>1, <2>2 DEF AnnotInv
    <3>2. StratumOf[RuleOf[i]] = stratum'
      BY <3>1, OneStratum
    <3> QED BY <1>1, <2>1, <3>1, <3>2
  <2> QED BY <1>1, <2>2 DEF AnnotInv
<1>6. BucketInv'
  BY <1>2, <1>5 DEF BucketInv
<1>7. ASSUME pc' # "done", NEW r \in Rule, StratumOf[r] = stratum' PROVE r \in fresh
  <2>1. StratumOf[r] > stratum
    BY <1>1, <1>2, <1>7
  <2> QED BY <2>1, EngineFacts
<1>8. SeenInv'
  BY <1>2, <1>7 DEF SeenInv, RulesOfStratum, ruleVars
<1>9. KeptInv' /\ ConsideredInv'
  BY <1>7, TypeAssumption DEF KeptInv, ConsideredInv, ruleVars
<1>10. LocalInv'
  BY <1>2 DEF LocalInv, Ran
<1>11. OptimalBelow'
  <2>1. ASSUME NEW i \in Instance, Holds(Body(i), facts), HeadOf[i] \in facts
        PROVE  orAnnot'[HeadOf[i]] <= WitnessCost(i)'
    <3>1. orAnnot[HeadOf[i]] <= WitnessCost(i)
      BY <2>1, Optimal
    <3>2. \A f \in facts : orAnnot'[f] = orAnnot[f]
      BY <1>1 DEF AnnotInv
    <3>3. WitnessCost(i)' = WitnessCost(i)
      BY <2>1, <3>2, SameCost
    <3> QED BY <2>1, <3>1, <3>2, <3>3
  <2> QED BY <2>1 DEF OptimalBelow
<1>12. RankedInv'
  <2>1. \A f \in facts \ start : andAnnot'[f] = andAnnot[f]
    BY <1>1 DEF AnnotInv
  <2> QED BY <1>1, <2>1 DEF RankedInv
<1> QED BY <1>3, <1>4, <1>6, <1>8, <1>9, <1>10, <1>11, <1>12 DEF CostInv

\* When no bucket is left the merge has changed nothing.
LEMMA ExhaustedFacts ==
    ASSUME AggregateBounds(Nat), Abstract!IInv, CostInv, Exhausted
    PROVE  /\ MergedHeads \subseteq facts
           /\ Waiting \subseteq facts
           /\ DOMAIN orAnnot' = DOMAIN orAnnot
           /\ \A f \in DOMAIN orAnnot : orAnnot'[f] = orAnnot[f]
           /\ \A f \in DOMAIN orAnnot \ start : f \in DOMAIN andAnnot' /\ andAnnot'[f] = andAnnot[f]
<1>1. /\ pc = "run" /\ todo = {} /\ Annotate /\ Reachable(UpdatedBuckets) = {}
      /\ current \in Nat /\ AnnotInv
  BY DEF Exhausted, CostInv, CostTypes
<1>2. \A b \in UpdatedBuckets : ~(b[1] >= current)
  BY <1>1 DEF Reachable
<1>3. ASSUME NEW f \in MergedHeads, f \notin facts PROVE FALSE
  <2>1. orAnnot'[f] >= current /\ <<orAnnot'[f], f>> \in UpdatedBuckets
    BY <1>1, <1>3, MergedCosts, UpdatedFacts
  <2> QED BY <1>2, <2>1
<1>4. ASSUME NEW f \in Waiting PROVE f \in facts
  <2>1. PICK b \in buckets : b[1] >= current /\ b[2] = f
    BY DEF Waiting
  <2>2. b[1] \in Nat
    BY <2>1 DEF CostInv, CostTypes
  <2>3. CASE b[1] = current
    BY <2>1, <2>3 DEF CostInv, BucketInv
  <2>4. CASE b[1] > current
    <3>1. f \in MergedHeads
      BY <1>1, <1>2, <2>1, <2>4, UpdatedFacts
    <3> QED BY <1>3, <3>1
  <2> QED BY <1>1, <2>1, <2>2, <2>3, <2>4
<1>5. /\ DOMAIN orAnnot \subseteq DOMAIN orAnnot'
      /\ \A f \in DOMAIN orAnnot' : f \in DOMAIN orAnnot /\ orAnnot'[f] = orAnnot[f]
  BY <1>1, <1>3, AnnotateCosts
<1>6. Improved = {}
  BY <1>1, <1>3, ImprovedFacts
<1>7. /\ \A f \in DOMAIN andAnnot : f \in DOMAIN andAnnot' /\ andAnnot'[f] = andAnnot[f]
  BY <1>1, <1>6 DEF Annotate
<1>8. \A f \in DOMAIN orAnnot \ start : f \in DOMAIN andAnnot
  BY <1>1 DEF AnnotInv
<1> QED BY <1>3, <1>4, <1>5, <1>7, <1>8

\* The facts of the caller's state cost nothing, and nothing else is known yet.
LEMMA InitCostInv == Init => CostInv
<1> SUFFICES ASSUME Init PROVE CostInv
  OBVIOUS
<1> DEFINE none == [w \in Worker |-> EmptyMap]
<1>1. StartFacts \subseteq SUBSET Fact /\ Worker # {}
  BY CostAssumption
<1>2. CostTypes
  <2>1. EmptyMap \in [{} -> Witness]
    BY DEF EmptyMap
  <2>2. EmptyMap \in UNION {[D -> Witness] : D \in SUBSET Fact}
    BY <2>1
  <2> HIDE DEF none
  <2>3. [w \in Worker |-> EmptyMap] \in [Worker -> UNION {[D -> Witness] : D \in SUBSET Fact}]
    BY <2>2
  <2>4. local \in [Rule -> [Worker -> UNION {[D -> Witness] : D \in SUBSET Fact}]]
    BY <2>3 DEF Init
  <2>5. pending \in [Worker -> SUBSET Instance] /\ heads \in [Rule -> [Worker -> SUBSET Fact]]
    BY DEF Init
  <2>6. /\ current \in Nat /\ buckets \subseteq Nat \X Fact
        /\ DOMAIN orAnnot \subseteq Fact /\ \A f \in DOMAIN orAnnot : orAnnot[f] \in Nat
    BY <1>1 DEF Init
  <2> QED BY <2>4, <2>5, <2>6 DEF CostTypes
<1>3. /\ DOMAIN orAnnot = start /\ (\A f \in start : orAnnot[f] = 0)
      /\ facts = start /\ facts \subseteq Fact /\ buckets = {} /\ current = 0
      /\ fresh = Rule /\ stratum = 1 /\ pc = "check"
  BY <1>1 DEF Init
<1>4. AnnotInv
  BY <1>3 DEF AnnotInv
<1>5. BucketInv
  BY <1>3 DEF BucketInv
<1>6. SeenInv
  BY <1>3 DEF SeenInv, RulesOfStratum
<1>7. KeptInv /\ ConsideredInv
  BY <1>3, TypeAssumption DEF KeptInv, ConsideredInv
<1>8. LocalInv
  BY <1>3 DEF LocalInv, Ran
<1>9. OptimalBelow
  <2>1. \A i \in Instance : ~(StratumOf[RuleOf[i]] < 1)
    BY TypeAssumption
  <2> QED BY <1>3, <2>1 DEF OptimalBelow
<1>10. RankedInv
  <2>1. PICK rank \in [Fact -> Nat] : \A f \in Fact : rank[f] = 0
    <3>1. [f \in Fact |-> 0] \in [Fact -> Nat] /\ \A f \in Fact : [g \in Fact |-> 0][f] = 0
      OBVIOUS
    <3> QED BY <3>1
  <2>2. \A f \in facts : rank[f] <= 0
    BY <1>3, <2>1
  <2>3. facts \ start = {} /\ 0 \in Nat
    BY <1>3
  <2> QED BY <2>1, <2>2, <2>3 DEF RankedInv
<1> QED BY <1>2, <1>4, <1>5, <1>6, <1>7, <1>8, <1>9, <1>10 DEF CostInv

LEMMA SolveCostInv ==
    ASSUME NEW S \in StartFacts, Solve(S)
    PROVE  CostInv'
<1> DEFINE none == [w \in Worker |-> EmptyMap]
<1>1. StartFacts \subseteq SUBSET Fact /\ Worker # {}
  BY CostAssumption
<1>2. CostTypes'
  <2>1. EmptyMap \in [{} -> Witness]
    BY DEF EmptyMap
  <2>2. EmptyMap \in UNION {[D -> Witness] : D \in SUBSET Fact}
    BY <2>1
  <2> HIDE DEF none
  <2>3. [w \in Worker |-> EmptyMap] \in [Worker -> UNION {[D -> Witness] : D \in SUBSET Fact}]
    BY <2>2
  <2>4. local' \in [Rule -> [Worker -> UNION {[D -> Witness] : D \in SUBSET Fact}]]
    BY <2>3 DEF Solve
  <2>5. pending' \in [Worker -> SUBSET Instance] /\ heads' \in [Rule -> [Worker -> SUBSET Fact]]
    BY DEF Solve
  <2>6. /\ current' \in Nat /\ buckets' \subseteq Nat \X Fact
        /\ DOMAIN orAnnot' \subseteq Fact /\ \A f \in DOMAIN orAnnot' : orAnnot'[f] \in Nat
    BY <1>1 DEF Solve
  <2> QED BY <2>4, <2>5, <2>6 DEF CostTypes
<1>3. /\ DOMAIN orAnnot' = start' /\ (\A f \in start' : orAnnot'[f] = 0)
      /\ facts' = start' /\ facts' \subseteq Fact /\ buckets' = {} /\ current' = 0
      /\ fresh' = Rule /\ stratum' = 1 /\ pc' = "check"
  BY <1>1 DEF Solve
<1>4. AnnotInv'
  BY <1>3 DEF AnnotInv
<1>5. BucketInv'
  BY <1>3 DEF BucketInv
<1>6. SeenInv'
  BY <1>3 DEF SeenInv, RulesOfStratum
<1>7. KeptInv' /\ ConsideredInv'
  BY <1>3, TypeAssumption DEF KeptInv, ConsideredInv
<1>8. LocalInv'
  BY <1>3 DEF LocalInv, Ran
<1>9. OptimalBelow'
  <2>1. \A i \in Instance : ~(StratumOf[RuleOf[i]] < 1)
    BY TypeAssumption
  <2> QED BY <1>3, <2>1 DEF OptimalBelow
<1>10. RankedInv'
  <2>1. PICK rank \in [Fact -> Nat] : \A f \in Fact : rank[f] = 0
    <3>1. [f \in Fact |-> 0] \in [Fact -> Nat] /\ \A f \in Fact : [g \in Fact |-> 0][f] = 0
      OBVIOUS
    <3> QED BY <3>1
  <2>2. \A f \in facts' : rank[f] <= 0
    BY <1>3, <2>1
  <2>3. facts' \ start' = {} /\ 0 \in Nat
    BY <1>3
  <2> QED BY <2>1, <2>2, <2>3 DEF RankedInv
<1> QED BY <1>2, <1>4, <1>5, <1>6, <1>7, <1>8, <1>9, <1>10 DEF CostInv

LEMMA StartCostInv ==
    ASSUME CostInv, StartIteration
    PROVE  CostInv'
<1>1. pc = "check" /\ pc' = "run" /\ todo' = active
  BY DEF StartIteration
<1>2. /\ \A r : ~Ran(r) /\ ~Ran(r)'
      /\ UNCHANGED <<start, facts, stratum, ruleVars, orAnnot, andAnnot, buckets, current>>
  BY <1>1 DEF Ran, StartIteration
<1>3. CostTypes' /\ AnnotInv' /\ BucketInv' /\ RankedInv'
  BY <1>1, <1>2 DEF CostInv, CostTypes, AnnotInv, BucketInv, RankedInv, ruleVars
<1>4. SeenInv' /\ KeptInv' /\ LocalInv'
  BY <1>1, <1>2 DEF CostInv, SeenInv, KeptInv, LocalInv, ruleVars
<1>5. \A i : WitnessCost(i)' = WitnessCost(i)
  BY <1>2 DEF WitnessCost
<1>6. OptimalBelow'
  BY <1>1, <1>2, <1>5 DEF CostInv, OptimalBelow
<1>7. ConsideredInv'
  BY <1>1, <1>2, <1>5 DEF CostInv, ConsideredInv, ruleVars
<1> QED BY <1>3, <1>4, <1>6, <1>7 DEF CostInv

LEMMA StutterCostInv ==
    ASSUME CostInv, UNCHANGED vars
    PROVE  CostInv'
<1>1. /\ UNCHANGED <<start, facts, stratum, ruleVars, orAnnot, andAnnot, buckets, current>>
      /\ UNCHANGED <<pc, active, todo>>
  BY DEF vars, costVars, ruleVars
<1>2. \A r : Ran(r)' <=> Ran(r)
  BY <1>1 DEF Ran
<1>7. \A i : WitnessCost(i)' = WitnessCost(i)
  BY <1>1 DEF WitnessCost
<1>3. CostTypes' /\ AnnotInv' /\ BucketInv' /\ RankedInv'
  BY <1>1 DEF CostInv, CostTypes, AnnotInv, BucketInv, RankedInv, ruleVars
<1>4. SeenInv' /\ KeptInv'
  BY <1>1 DEF CostInv, SeenInv, KeptInv, ruleVars
<1>5. ConsideredInv' /\ OptimalBelow'
  BY <1>1, <1>2, <1>7 DEF CostInv, ConsideredInv, OptimalBelow, ruleVars
<1>6. LocalInv'
  BY <1>1, <1>2, <1>7 DEF CostInv, LocalInv, ruleVars
<1> QED BY <1>3, <1>4, <1>5, <1>6 DEF CostInv

\* Every step keeps the invariant.
LEMMA NextCostInv ==
    ASSUME AggregateBounds(Nat), Abstract!IInv, CostInv, [Next]_vars
    PROVE  CostInv'
<1>1. CASE Terminate
  <2>1. \A f \in DOMAIN orAnnot \ start : f \in DOMAIN andAnnot
    BY DEF CostInv, AnnotInv
  <2>2. /\ EndStratum /\ pc # "done" /\ UNCHANGED <<start, facts, ruleVars>>
        /\ UNCHANGED <<orAnnot, andAnnot>>
    BY <1>1 DEF Terminate
  <2> QED BY <2>1, <2>2, EndCostInv
<1>2. CASE StartIteration
  BY <1>2, StartCostInv
<1>3. ASSUME NEW r \in Rule, NEW w \in Worker, RunRule(r, w) PROVE CostInv'
  BY <1>3, TaskCostInv
<1>4. CASE Exhausted
  <2>1. EndStratum /\ pc # "done" /\ UNCHANGED <<start, facts, ruleVars>>
    BY <1>4 DEF Exhausted
  <2>2. /\ DOMAIN orAnnot' = DOMAIN orAnnot
        /\ \A f \in DOMAIN orAnnot : orAnnot'[f] = orAnnot[f]
        /\ \A f \in DOMAIN orAnnot \ start : f \in DOMAIN andAnnot' /\ andAnnot'[f] = andAnnot[f]
    BY <1>4, ExhaustedFacts
  <2> QED BY <2>1, <2>2, EndCostInv
<1>5. CASE InsertBucket
  BY <1>5, InsertCostInv
<1>6. ASSUME NEW S \in StartFacts, Solve(S) PROVE CostInv'
  BY <1>6, SolveCostInv
<1>7. CASE UNCHANGED vars
  BY <1>7, StutterCostInv
<1> QED BY <1>1, <1>2, <1>3, <1>4, <1>5, <1>6, <1>7 DEF Next, EngineStep

-----------------------------------------------------------------------------
(* The engine with costs implements the engine.                             *)

LEMMA InitEngine == Init => Abstract!Init
<1> SUFFICES ASSUME Init PROVE Abstract!Init
  OBVIOUS
<1>1. Waiting = {} /\ UNION {pending[v] : v \in Worker} = {}
  BY DEF Init, Waiting
<1>2. [r \in Rule |-> AllHeads(r)] = [r \in Rule |-> {}]
  <2>1. \A r \in Rule : AllHeads(r) = {}
    BY DEF Init, AllHeads
  <2> QED BY <2>1
<1> QED BY <1>1, <1>2, SameProgram DEF Init, Abstract!Init

LEMMA SolveEngine ==
    ASSUME NEW S, Solve(S)
    PROVE  Abstract!Solve(S)
<1>1. Waiting' = {} /\ UNION {pending'[v] : v \in Worker} = {}
  BY DEF Solve, Waiting
<1>2. [r \in Rule |-> AllHeads(r)'] = [r \in Rule |-> {}]
  <2>1. \A r \in Rule : AllHeads(r)' = {}
    BY DEF Solve, AllHeads
  <2> QED BY <2>1
<1> QED BY <1>1, <1>2, SameProgram DEF Solve, Abstract!Solve

\* A step that leaves the workers alone leaves their unions alone.
LEMMA SameRows ==
    ASSUME UNCHANGED ruleVars
    PROVE  Abstract!ruleVars' = Abstract!ruleVars
  BY DEF ruleVars, Abstract!ruleVars, AllHeads

LEMMA EndEngine ==
    ASSUME EndStratum
    PROVE  Abstract!EndStratum
<1>1. Waiting' = {}
  BY DEF EndStratum, Waiting
<1> QED BY <1>1, SameProgram DEF EndStratum, Abstract!EndStratum

LEMMA TaskEngine ==
    ASSUME Abstract!IInv, CostTypes, NEW r \in Rule, NEW w \in Worker, RunRule(r, w)
    PROVE  Abstract!RunRule(r)
<1>1. /\ Engine!Fired(r) = Abstract!Fired(r) /\ Engine!Kept(r) = Abstract!Kept(r)
      /\ \A i : Engine!Unsatisfied(i) = Abstract!Unsatisfied(i)
  BY SameEngine
<1>2. Waiting' = Waiting
  BY DEF RunRule, Waiting
<1>3. Pending' = (Pending \ Abstract!InstancesOf(r)) \cup Abstract!Kept(r)
  <2>1. \A v \in Worker : pending'[v] = (pending[v] \ InstancesOf(r)) \cup KeptBy(r, w, v)
    BY TaskFacts
  <2>2. UNION {KeptBy(r, w, v) : v \in Worker} = Engine!Kept(r)
    BY Handled
  <2>3. Pending' = (Pending \ InstancesOf(r)) \cup Engine!Kept(r)
    BY <2>1, <2>2 DEF Pending
  <2> QED BY <1>1, <2>3, SameProgram
<1>4. AllHeads(r)' = {HeadOf[i] : i \in Abstract!Fired(r)}
  <2>1. \A v \in Worker : heads'[r][v] = {HeadOf[i] : i \in FiredBy(r, w, v)}
    BY TaskFacts
  <2>2. \A i : i \in Engine!Fired(r) <=> \E v \in Worker : i \in FiredBy(r, w, v)
    BY Handled
  <2>3. \A f \in AllHeads(r)' : \E i \in Engine!Fired(r) : f = HeadOf[i]
    BY <2>1, <2>2 DEF AllHeads
  <2>4. \A i \in Engine!Fired(r) : HeadOf[i] \in AllHeads(r)'
    BY <2>1, <2>2 DEF AllHeads
  <2> QED BY <1>1, <2>3, <2>4
<1>5. \A q \in Rule : q # r => AllHeads(q)' = AllHeads(q)
  BY TaskFacts DEF AllHeads
<1>6. [q \in Rule |-> AllHeads(q)'] =
        [[q \in Rule |-> AllHeads(q)] EXCEPT ![r] = {HeadOf[i] : i \in Abstract!Fired(r)}]
  BY <1>4, <1>5
<1>7. unsat' = [i \in Instance |->
                  IF RuleOf[i] # r THEN unsat[i]
                  ELSE IF i \in Abstract!Kept(r) THEN Abstract!Unsatisfied(i) ELSE {}]
  BY <1>1 DEF RunRule
<1> QED BY <1>2, <1>3, <1>6, <1>7 DEF RunRule, Abstract!RunRule, Pending

\* What is merged.
LEMMA SameMerged == Abstract!Merged = Waiting \cup UNION {[r \in Rule |-> AllHeads(r)][q] : q \in active}
  BY DEF Abstract!Merged

LEMMA MergedEngine ==
    ASSUME Abstract!IInv
    PROVE  Abstract!Merged = Waiting \cup MergedHeads
<1>1. active \subseteq Rule
  BY EngineFacts DEF RulesOfStratum
<1>2. \A q \in active : [r \in Rule |-> AllHeads(r)][q] = AllHeads(q)
  BY <1>1
<1> QED BY <1>2, SameMerged DEF MergedHeads

LEMMA InsertEngine ==
    ASSUME AggregateBounds(Nat), Abstract!IInv, CostInv, InsertBucket
    PROVE  \E B \in SUBSET Abstract!Merged : Abstract!InsertBucket(B)
<1>1. /\ pc = "run" /\ todo = {} /\ Annotate /\ current \in Nat /\ current' \in Nat
      /\ current' >= current /\ BucketInv /\ buckets \subseteq Nat \X Fact
  BY InsertFacts DEF CostInv, CostTypes
<1>2. PICK B : B = BucketOf(current')
  OBVIOUS
<1>3. /\ B # {} /\ B \subseteq Waiting \cup MergedHeads /\ facts' = facts \cup B
      /\ \A f \in B : f \in DOMAIN orAnnot' /\ orAnnot'[f] = current'
  BY <1>2, InsertFacts
<1>4. /\ unsatGoals' = unsatGoals \ B
      /\ active' = Listeners(stratum, {PredOf[f] : f \in B \ facts})
      /\ pc' = "check" /\ buckets' = UpdatedBuckets
      /\ UNCHANGED <<start, stratum, todo, ruleVars>>
  BY <1>2 DEF InsertBucket, BucketOf
<1>5. Waiting' = (Waiting \cup MergedHeads) \ (facts \cup B)
  <2>1. ASSUME NEW f \in Waiting' PROVE f \in (Waiting \cup MergedHeads) \ (facts \cup B)
    <3>1. f \notin facts \cup B
      BY <1>3 DEF Waiting
    <3>2. PICK b \in UpdatedBuckets : b[1] >= current' /\ b[2] = f
      BY <1>4 DEF Waiting
    <3>3. b[1] \in Nat
      BY <1>1, UpdatedFacts
    <3>4. b[1] >= current
      BY <1>1, <3>2, <3>3
    <3>5. f \in MergedHeads \/ (b \in buckets /\ b[1] > current)
      BY <1>1, <3>2, <3>4, UpdatedFacts
    <3>6. f \in MergedHeads \/ f \in Waiting
      BY <3>1, <3>2, <3>4, <3>5 DEF Waiting
    <3> QED BY <3>1, <3>6
  <2>2. ASSUME NEW b \in UpdatedBuckets, b[1] >= current, b[2] \notin facts \cup B
        PROVE  b[2] \in Waiting'
    <3>1. b[1] >= current'
      BY <2>2, InsertFacts
    <3> QED BY <1>3, <1>4, <2>2, <3>1 DEF Waiting
  <2>3. ASSUME NEW f \in (Waiting \cup MergedHeads) \ (facts \cup B) PROVE f \in Waiting'
    <3>1. CASE f \in MergedHeads
      <4>1. orAnnot'[f] >= current /\ <<orAnnot'[f], f>> \in UpdatedBuckets
        BY <1>1, <3>1, MergedCosts, UpdatedFacts
      <4>2. PICK b \in UpdatedBuckets : b[1] >= current /\ b[2] = f
        BY <4>1
      <4> QED BY <2>2, <4>2
    <3>2. CASE f \notin MergedHeads
      <4>1. PICK b \in buckets : b[1] >= current /\ b[2] = f
        BY <3>2 DEF Waiting
      <4>2. b[1] # current
        BY <1>1, <4>1 DEF BucketInv
      <4>3. b[1] > current
        BY <1>1, <4>1, <4>2
      <4>4. b \in UpdatedBuckets
        BY <1>1, <3>2, <4>1, <4>3, UpdatedFacts
      <4> QED BY <2>2, <4>1, <4>4
    <3> QED BY <3>1, <3>2
  <2> QED BY <2>1, <2>3
<1>6. Abstract!Merged = Waiting \cup MergedHeads
  BY MergedEngine
<1>7. Abstract!ruleVars' = Abstract!ruleVars
  BY <1>4, SameRows
<1>8. active' = Abstract!Listeners(stratum, {PredOf[f] : f \in B \ facts})
  BY <1>4, SameProgram
<1>9. Abstract!InsertBucket(B)
  BY <1>1, <1>3, <1>4, <1>5, <1>6, <1>7, <1>8 DEF Abstract!InsertBucket
<1> QED BY <1>3, <1>6, <1>9

\* Every step is a step of the engine.
LEMMA NextEngine ==
    ASSUME AggregateBounds(Nat), Abstract!IInv, CostInv, [Next]_vars
    PROVE  [Abstract!Next]_(Abstract!vars)
<1>0. Engine!GoalProven = Abstract!GoalProven
  BY DEF Engine!GoalProven, Abstract!GoalProven
<1>1. CASE Terminate
  <2>1. Abstract!Terminate
    BY <1>0, <1>1, EndEngine, SameRows DEF Terminate, Abstract!Terminate
  <2> QED BY <2>1 DEF Abstract!Next, Abstract!EngineStep
<1>2. CASE StartIteration
  <2>1. Waiting' = Waiting /\ Abstract!ruleVars' = Abstract!ruleVars
    BY <1>2, SameRows DEF StartIteration, Waiting
  <2>2. Abstract!StartIteration
    BY <1>0, <1>2, <2>1 DEF StartIteration, Abstract!StartIteration
  <2> QED BY <2>2 DEF Abstract!Next, Abstract!EngineStep
<1>3. ASSUME NEW r \in Rule, NEW w \in Worker, RunRule(r, w) PROVE [Abstract!Next]_(Abstract!vars)
  <2>1. Abstract!RunRule(r)
    BY <1>3, TaskEngine DEF CostInv
  <2> QED BY <2>1 DEF Abstract!Next, Abstract!EngineStep
<1>4. CASE Exhausted
  <2>1. Abstract!Merged \subseteq facts
    BY <1>4, ExhaustedFacts, MergedEngine
  <2>2. Abstract!Exhausted
    <3>1. /\ pc = "run" /\ todo = {} /\ EndStratum /\ UNCHANGED ruleVars
          /\ UNCHANGED <<start, facts, unsatGoals>>
      BY <1>4 DEF Exhausted
    <3>2. Abstract!EndStratum
      BY <3>1, EndEngine
    <3>3. Abstract!ruleVars' = Abstract!ruleVars
      BY <3>1, SameRows
    <3> QED BY <2>1, <3>1, <3>2, <3>3 DEF Abstract!Exhausted
  <2> QED BY <2>2 DEF Abstract!Next, Abstract!EngineStep
<1>5. CASE InsertBucket
  BY <1>5, InsertEngine DEF Abstract!Next, Abstract!EngineStep
<1>6. ASSUME NEW S \in StartFacts, Solve(S) PROVE [Abstract!Next]_(Abstract!vars)
  BY <1>6, SolveEngine DEF Abstract!Next
<1>7. CASE UNCHANGED vars
  <2>1. UNCHANGED ruleVars
    BY <1>7 DEF vars, costVars, ruleVars
  <2>2. UNCHANGED <<start, facts, unsatGoals, stratum, active, todo, pc, buckets, current>>
    BY <1>7 DEF vars, costVars
  <2>3. Waiting' = Waiting
    BY <2>2 DEF Waiting
  <2>4. Abstract!ruleVars' = Abstract!ruleVars
    BY <2>1, SameRows
  <2> QED BY <2>2, <2>3, <2>4 DEF Abstract!vars
<1> QED BY <1>1, <1>2, <1>3, <1>4, <1>5, <1>6, <1>7 DEF Next, EngineStep

\* Both instances of the engine are the same specification.
LEMMA SameSpecification ==
    /\ Engine!Init <=> Abstract!Init
    /\ Engine!vars = Abstract!vars /\ Engine!vars' = Abstract!vars'
    /\ Engine!Next <=> Abstract!Next
<1>1. Engine!Init <=> Abstract!Init
  BY DEF Engine!Init, Abstract!Init, Engine!RulesOfStratum, Abstract!RulesOfStratum
<1>2. /\ Engine!vars = Abstract!vars /\ Engine!ruleVars = Abstract!ruleVars
      /\ Engine!vars' = Abstract!vars' /\ Engine!ruleVars' = Abstract!ruleVars'
  BY DEF Engine!vars, Abstract!vars, Engine!ruleVars, Abstract!ruleVars
<1>3. Engine!EndStratum <=> Abstract!EndStratum
  BY DEF Engine!EndStratum, Abstract!EndStratum, Engine!RulesOfStratum, Abstract!RulesOfStratum
<1>4. (Engine!GoalProven <=> Abstract!GoalProven) /\ Engine!Merged = Abstract!Merged
  BY DEF Engine!GoalProven, Abstract!GoalProven, Engine!Merged, Abstract!Merged
<1>5. \A s, P : Engine!Listeners(s, P) = Abstract!Listeners(s, P)
  BY SameProgram DEF Engine!Listeners, Abstract!Listeners, Engine!RulesOfStratum,
     Abstract!RulesOfStratum, Engine!BodyPredicates, Abstract!BodyPredicates
<1>6. Engine!Terminate <=> Abstract!Terminate
  BY <1>2, <1>3, <1>4 DEF Engine!Terminate, Abstract!Terminate
<1>7. Engine!StartIteration <=> Abstract!StartIteration
  BY <1>2, <1>4 DEF Engine!StartIteration, Abstract!StartIteration
<1>8. \A r \in Rule : Engine!RunRule(r) <=> Abstract!RunRule(r)
  <2> SUFFICES ASSUME NEW r \in Rule PROVE Engine!RunRule(r) <=> Abstract!RunRule(r)
    OBVIOUS
  <2>1. /\ Engine!Fired(r) = Abstract!Fired(r) /\ Engine!Kept(r) = Abstract!Kept(r)
        /\ Engine!InstancesOf(r) = Abstract!InstancesOf(r)
    BY SameEngine, SameProgram
  <2>2. [i \in Instance |-> IF RuleOf[i] # r THEN unsat[i]
                            ELSE IF i \in Engine!Kept(r) THEN Engine!Unsatisfied(i) ELSE {}]
        = [i \in Instance |-> IF RuleOf[i] # r THEN unsat[i]
                              ELSE IF i \in Abstract!Kept(r) THEN Abstract!Unsatisfied(i) ELSE {}]
    BY SameEngine
  <2> QED BY <2>1, <2>2 DEF Engine!RunRule, Abstract!RunRule
<1>9. Engine!Exhausted <=> Abstract!Exhausted
  BY <1>2, <1>3, <1>4 DEF Engine!Exhausted, Abstract!Exhausted
<1>10. \A B : Engine!InsertBucket(B) <=> Abstract!InsertBucket(B)
  BY <1>2, <1>4, <1>5 DEF Engine!InsertBucket, Abstract!InsertBucket
<1>11. \A S : Engine!Solve(S) <=> Abstract!Solve(S)
  BY DEF Engine!Solve, Abstract!Solve, Engine!RulesOfStratum, Abstract!RulesOfStratum
<1>12. Engine!EngineStep <=> Abstract!EngineStep
  BY <1>4, <1>6, <1>7, <1>8, <1>9, <1>10 DEF Engine!EngineStep, Abstract!EngineStep
<1>13. Engine!Next <=> Abstract!Next
  BY <1>11, <1>12 DEF Engine!Next, Abstract!Next
<1> QED BY <1>1, <1>2, <1>13

-----------------------------------------------------------------------------
(* What witnesses cost.                                                     *)

\* The cost of a fact is what its witness costs now: the facts of the witness's body have
\* kept the costs they had when the witness was taken over. Start facts have none.
ExplainedInv ==
    /\ \A f \in DOMAIN andAnnot : f \notin start
    /\ \A f \in DOMAIN orAnnot \ start : orAnnot[f] = WitnessCost(andAnnot[f].inst)

\* ... also after the merge, before the next facts are inserted.
LEMMA AnnotateExplained ==
    ASSUME AggregateBounds(Nat), Abstract!IInv, CostInv, ExplainedInv, pc = "run", todo = {},
           Annotate, UNCHANGED start
    PROVE  ExplainedInv'
<1>1. PICK wit \in [Improved -> UNION {Improvements(f) : f \in Improved}] :
        /\ \A f \in Improved : wit[f] \in Improvements(f)
        /\ orAnnot' = [f \in DOMAIN orAnnot \cup Improved |->
                          IF f \in Improved THEN wit[f].cost ELSE orAnnot[f]]
        /\ andAnnot' = [f \in DOMAIN andAnnot \cup Improved |->
                          IF f \in Improved THEN wit[f] ELSE andAnnot[f]]
  BY DEF Annotate
<1>2. AnnotInv /\ start \subseteq facts
  BY EngineFacts DEF CostInv
<1>3. \A f \in Improved : wit[f] \in Offered(f) /\ f \notin facts
  BY <1>1, ImprovedFacts
<1>4. \A f \in facts : orAnnot'[f] = orAnnot[f]
  <2> SUFFICES ASSUME NEW f \in facts PROVE orAnnot'[f] = orAnnot[f]
    OBVIOUS
  <2>1. f \in DOMAIN orAnnot /\ f \notin Improved
    BY <1>2, <1>3 DEF AnnotInv
  <2> QED BY <1>1, <2>1
<1>5. \A f \in DOMAIN andAnnot' : f \notin start'
  <2> SUFFICES ASSUME NEW f \in DOMAIN andAnnot' PROVE f \notin start
    OBVIOUS
  <2>1. f \in DOMAIN andAnnot \/ f \in Improved
    BY <1>1
  <2> QED BY <1>2, <1>3, <2>1 DEF ExplainedInv
<1>6. ASSUME NEW f \in DOMAIN orAnnot' \ start
      PROVE  orAnnot'[f] = (WitnessCost(andAnnot[f].inst))'
  <2>1. PICK i : i = andAnnot'[f].inst
    OBVIOUS
  <2>2. i \in Instance /\ Holds(Body(i), facts)
    BY <2>1, AnnotateWitnesses
  <2>3. WitnessCost(i)' = WitnessCost(i)
    BY <1>4, <2>2, SameCost
  <2>4. orAnnot'[f] = WitnessCost(i)
    <3>1. CASE f \in Improved
      <4>1. andAnnot'[f] = wit[f] /\ orAnnot'[f] = wit[f].cost
        BY <1>1, <3>1
      <4>2. PICK r \in active, v \in Worker : f \in DOMAIN local[r][v] /\ wit[f] = local[r][v][f]
        BY <1>3, <3>1 DEF Offered
      <4>3. r \in Rule /\ Ran(r)
        BY EngineFacts DEF RulesOfStratum, Ran
      <4>4. wit[f].cost = WitnessCost(wit[f].inst)
        BY <4>2, <4>3 DEF CostInv, LocalInv
      <4> QED BY <2>1, <4>1, <4>4
    <3>2. CASE f \notin Improved
      <4>1. f \in DOMAIN orAnnot \ start /\ orAnnot'[f] = orAnnot[f]
        BY <1>1, <3>2
      <4>2. f \in DOMAIN andAnnot
        BY <1>2, <4>1 DEF AnnotInv
      <4>3. andAnnot'[f] = andAnnot[f]
        BY <1>1, <3>2, <4>2
      <4> QED BY <2>1, <4>1, <4>3 DEF ExplainedInv
    <3> QED BY <3>1, <3>2
  <2>5. (WitnessCost(andAnnot[f].inst))' = WitnessCost(i)'
    BY <2>1 DEF WitnessCost
  <2> QED BY <2>3, <2>4, <2>5
<1> QED BY <1>5, <1>6 DEF ExplainedInv

LEMMA NextExplained ==
    ASSUME AggregateBounds(Nat), Abstract!IInv, CostInv, ExplainedInv, [Next]_vars
    PROVE  ExplainedInv'
<1>1. ASSUME UNCHANGED <<start, orAnnot, andAnnot>> PROVE ExplainedInv'
  <2>1. \A i : WitnessCost(i)' = WitnessCost(i)
    BY <1>1 DEF WitnessCost
  <2> QED BY <1>1, <2>1 DEF ExplainedInv
<1>2. CASE Terminate \/ StartIteration \/ \E r \in Rule, w \in Worker : RunRule(r, w)
  <2>1. UNCHANGED <<start, orAnnot, andAnnot>>
    BY <1>2 DEF Terminate, StartIteration, RunRule
  <2> QED BY <1>1, <2>1
<1>3. CASE Exhausted \/ InsertBucket
  <2>1. pc = "run" /\ todo = {} /\ Annotate /\ UNCHANGED start
    BY <1>3 DEF Exhausted, InsertBucket
  <2> QED BY <2>1, AnnotateExplained
<1>4. ASSUME NEW S \in StartFacts, Solve(S) PROVE ExplainedInv'
  <2>1. start' = S /\ DOMAIN orAnnot' = S /\ DOMAIN andAnnot' = {}
    BY <1>4 DEF Solve, EmptyMap
  <2> QED BY <2>1 DEF ExplainedInv
<1>5. CASE UNCHANGED vars
  BY <1>1, <1>5 DEF vars, costVars
<1> QED BY <1>2, <1>3, <1>4, <1>5 DEF Next, EngineStep

LEMMA InitExplained == Init => ExplainedInv
BY DEF Init, EmptyMap, ExplainedInv


-----------------------------------------------------------------------------
(* Sums over finite sets.                                                   *)

\* The sum of cost over S.
Sum(cost, S) == MapThenSumSet(LAMBDA l : cost[l], S)

Some(s) == CHOOSE x \in s : TRUE

\* it gives every set in D the sum that the recursion behind MapThenSumSet gives it.
Totals(cost, D, it) ==
    it = [s \in D |-> IF s = {} THEN 0 ELSE cost[Some(s)] + it[s \ {Some(s)}]]

LEMMA SumIsTotal ==
    ASSUME NEW cost, NEW S
    PROVE  Sum(cost, S) = (CHOOSE it : Totals(cost, SUBSET S, it))[S]
BY DEF Sum, Totals, Some, MapThenSumSet, MapThenFoldSet

SetsUpTo(S, m) == {s \in SUBSET S : Cardinality(s) <= m}

HasTotals(cost, S, m) == \E it : Totals(cost, SetsUpTo(S, m), it)

LEMMA Without ==
    ASSUME NEW s, IsFiniteSet(s), NEW x \in s
    PROVE  /\ IsFiniteSet(s \ {x})
           /\ Cardinality(s \ {x}) \in Nat
           /\ Cardinality(s \ {x}) < Cardinality(s)
<1>1. /\ IsFiniteSet(s \ {x})
      /\ Cardinality(s \ {x}) = Cardinality(s) - 1
      /\ Cardinality(s) \in Nat
  BY FS_RemoveElement, FS_CardinalityType
<1>2. Cardinality(s \ {x}) \in Nat
  BY <1>1, FS_CardinalityType
<1> QED BY <1>1, <1>2

LEMMA SomeMember == ASSUME NEW s, s # {} PROVE Some(s) \in s
  BY DEF Some

LEMMA SmallerSet ==
    ASSUME NEW s, IsFiniteSet(s), s # {}
    PROVE  /\ Some(s) \in s
           /\ IsFiniteSet(s \ {Some(s)})
           /\ Cardinality(s) \in Nat /\ Cardinality(s) # 0
           /\ Cardinality(s \ {Some(s)}) = Cardinality(s) - 1
<1>1. Some(s) \in s
  BY DEF Some
<1> QED BY <1>1, FS_RemoveElement, FS_CardinalityType, FS_EmptySet

LEMMA TotalsGrow ==
    ASSUME NEW cost, NEW S, IsFiniteSet(S), NEW m \in Nat, m # 0, HasTotals(cost, S, m - 1)
    PROVE  HasTotals(cost, S, m)
<1>1. PICK it : Totals(cost, SetsUpTo(S, m - 1), it)
  BY DEF HasTotals
<1> DEFINE next == [s \in SetsUpTo(S, m) |-> IF s = {} THEN 0 ELSE cost[Some(s)] + it[s \ {Some(s)}]]
<1>2. ASSUME NEW s \in SetsUpTo(S, m), s # {}
      PROVE  s \ {Some(s)} \in SetsUpTo(S, m - 1)
  <2>1. s \in SUBSET S /\ IsFiniteSet(s) /\ Cardinality(s) <= m
    BY FS_Subset DEF SetsUpTo
  <2>2. Cardinality(s) \in Nat /\ Cardinality(s \ {Some(s)}) = Cardinality(s) - 1
    BY <1>2, <2>1, SmallerSet
  <2>3. Cardinality(s \ {Some(s)}) <= m - 1
    BY <2>1, <2>2
  <2> QED BY <2>1, <2>3 DEF SetsUpTo
<1>3. \A t \in SetsUpTo(S, m - 1) : t \in SetsUpTo(S, m)
  <2> SUFFICES ASSUME NEW t \in SetsUpTo(S, m - 1) PROVE t \in SetsUpTo(S, m)
    OBVIOUS
  <2>1. t \in SUBSET S /\ Cardinality(t) \in Nat /\ Cardinality(t) <= m - 1
    BY FS_Subset, FS_CardinalityType DEF SetsUpTo
  <2>2. Cardinality(t) <= m
    BY <2>1
  <2> QED BY <2>1, <2>2 DEF SetsUpTo
<1>4. \A t \in SetsUpTo(S, m - 1) : next[t] = it[t]
  <2> SUFFICES ASSUME NEW t \in SetsUpTo(S, m - 1) PROVE next[t] = it[t]
    OBVIOUS
  <2>1. it[t] = IF t = {} THEN 0 ELSE cost[Some(t)] + it[t \ {Some(t)}]
    BY <1>1 DEF Totals
  <2> QED BY <1>3, <2>1
<1>5. \A s \in SetsUpTo(S, m) : next[s] = IF s = {} THEN 0 ELSE cost[Some(s)] + next[s \ {Some(s)}]
  BY <1>2, <1>4
<1>6. next = [s \in SetsUpTo(S, m) |-> next[s]]
  OBVIOUS
<1> HIDE DEF next
<1>7. Totals(cost, SetsUpTo(S, m), next)
  BY <1>5, <1>6 DEF Totals
<1> QED BY <1>7 DEF HasTotals

\* The recursion behind MapThenSumSet has a solution.
LEMMA TotalsExist ==
    ASSUME NEW cost, NEW S, IsFiniteSet(S)
    PROVE  \E it : Totals(cost, SUBSET S, it)
<1>1. \A m \in Nat : HasTotals(cost, S, m)
  <2> SUFFICES ASSUME NEW T, T = {m \in Nat : ~HasTotals(cost, S, m)}, T # {} PROVE FALSE
    OBVIOUS
  <2>1. PICK m \in T : \A k \in T : m <= k
    BY Least
  <2>2. CASE m = 0
    <3>1. SetsUpTo(S, 0) = {{}}
      <4>1. ASSUME NEW s \in SUBSET S, Cardinality(s) <= 0 PROVE s = {}
        BY <4>1, FS_Subset, FS_CardinalityType, FS_EmptySet
      <4> QED BY <4>1, FS_EmptySet DEF SetsUpTo
    <3>2. Totals(cost, SetsUpTo(S, 0), [s \in {{}} |-> 0])
      BY <3>1 DEF Totals
    <3> QED BY <2>1, <2>2, <3>2 DEF HasTotals
  <2>3. CASE m # 0
    <3>1. m \in Nat /\ m - 1 \in Nat /\ m - 1 \notin T
      BY <2>1, <2>3
    <3> QED BY <2>1, <2>3, <3>1, TotalsGrow
  <2> QED BY <2>2, <2>3
<1>2. Cardinality(S) \in Nat /\ SetsUpTo(S, Cardinality(S)) = SUBSET S
  BY FS_Subset, FS_CardinalityType DEF SetsUpTo
<1> QED BY <1>1, <1>2 DEF HasTotals

\* The recursions over two sets agree on what is in both.
LEMMA TotalsAgree ==
    ASSUME NEW cost, NEW S, NEW T, IsFiniteSet(S), IsFiniteSet(T), NEW f, NEW g,
           Totals(cost, SUBSET S, f), Totals(cost, SUBSET T, g), NEW s, s \subseteq S, s \subseteq T
    PROVE  f[s] = g[s]
<1> DEFINE Differ(t) == t \subseteq S /\ t \subseteq T /\ f[t] # g[t]
           bad == {k \in Nat : \E t : Differ(t) /\ Cardinality(t) = k}
<1>1. ASSUME bad # {} PROVE FALSE
  <2>1. PICK k \in bad : \A j \in bad : k <= j
    BY <1>1, Least
  <2>2. PICK t : Differ(t) /\ Cardinality(t) = k
    BY <2>1
  <2>3. IsFiniteSet(t)
    BY <2>2, FS_Subset
  <2>4. t \in SUBSET S /\ t \in SUBSET T
    BY <2>2
  <2>5. /\ f[t] = IF t = {} THEN 0 ELSE cost[Some(t)] + f[t \ {Some(t)}]
        /\ g[t] = IF t = {} THEN 0 ELSE cost[Some(t)] + g[t \ {Some(t)}]
    BY <2>4 DEF Totals
  <2>6. t # {}
    BY <2>2, <2>5
  <2> DEFINE u == t \ {Some(t)}
  <2>7. Cardinality(u) \in Nat /\ Cardinality(u) < k
    <3>1. Some(t) \in t
      BY <2>6, SomeMember
    <3>2. Cardinality(u) \in Nat /\ Cardinality(u) < Cardinality(t)
      BY <2>3, <3>1, Without
    <3> QED BY <2>2, <3>2
  <2>8. f[u] = g[u]
    BY <2>1, <2>4, <2>7
  <2> QED BY <2>2, <2>5, <2>8
<1>2. IsFiniteSet(s)
  BY FS_Subset
<1> QED BY <1>1, <1>2, FS_CardinalityType

\* A sum is that of the rest and one element.
LEMMA SumDef ==
    ASSUME NEW cost, NEW S, IsFiniteSet(S)
    PROVE  Sum(cost, S) = IF S = {} THEN 0 ELSE cost[Some(S)] + Sum(cost, S \ {Some(S)})
<1> DEFINE f == CHOOSE it : Totals(cost, SUBSET S, it)
           R == S \ {Some(S)}
           g == CHOOSE it : Totals(cost, SUBSET R, it)
<1>1. IsFiniteSet(R) /\ R \subseteq S
  BY FS_Subset
<1>2. Totals(cost, SUBSET S, f) /\ Totals(cost, SUBSET R, g)
  BY <1>1, TotalsExist
<1>3. f[S] = IF S = {} THEN 0 ELSE cost[Some(S)] + f[R]
  BY <1>2 DEF Totals
<1>4. f[R] = g[R]
  <2> HIDE DEF f, g, R
  <2> QED BY <1>1, <1>2, TotalsAgree
<1>5. Sum(cost, S) = f[S] /\ Sum(cost, R) = g[R]
  BY SumIsTotal
<1> QED BY <1>3, <1>4, <1>5

CostsOn(cost, S) == IsFiniteSet(S) /\ \A x \in S : cost[x] \in Nat

LEMMA SumNat == ASSUME NEW cost, NEW S, CostsOn(cost, S) PROVE Sum(cost, S) \in Nat
<1> DEFINE bad == {k \in Nat : \E T : CostsOn(cost, T) /\ Sum(cost, T) \notin Nat /\ Cardinality(T) = k}
<1>1. ASSUME bad # {} PROVE FALSE
  <2>1. PICK k \in bad : \A j \in bad : k <= j
    BY <1>1, Least
  <2>2. PICK T : CostsOn(cost, T) /\ Sum(cost, T) \notin Nat /\ Cardinality(T) = k
    BY <2>1
  <2>3. T # {} /\ Sum(cost, T) = cost[Some(T)] + Sum(cost, T \ {Some(T)})
    <3>1. IsFiniteSet(T) /\ Sum(cost, T) \notin Nat
      BY <2>2 DEF CostsOn
    <3>2. Sum(cost, T) = IF T = {} THEN 0 ELSE cost[Some(T)] + Sum(cost, T \ {Some(T)})
      BY <3>1, SumDef
    <3> QED BY <3>1, <3>2
  <2> DEFINE u == T \ {Some(T)}
  <2>4. Cardinality(u) \in Nat /\ Cardinality(u) < k /\ IsFiniteSet(u) /\ Some(T) \in T
    <3>1. Some(T) \in T /\ IsFiniteSet(T)
      BY <2>2, <2>3, SomeMember DEF CostsOn
    <3>2. Cardinality(u) \in Nat /\ Cardinality(u) < Cardinality(T) /\ IsFiniteSet(u)
      BY <3>1, Without
    <3> QED BY <2>2, <3>1, <3>2
  <2>5. CostsOn(cost, u)
    BY <2>2, <2>4 DEF CostsOn
  <2>6. Sum(cost, u) \in Nat
    BY <2>1, <2>4, <2>5
  <2>7. cost[Some(T)] \in Nat
    BY <2>2, <2>4 DEF CostsOn
  <2> QED BY <2>2, <2>3, <2>6, <2>7
<1> QED BY <1>1, FS_CardinalityType DEF CostsOn

\* ... whichever element it is.
LEMMA SumSplit ==
    ASSUME NEW cost, NEW S, CostsOn(cost, S), NEW x \in S
    PROVE  Sum(cost, S) = cost[x] + Sum(cost, S \ {x})
<1> DEFINE Bad(T, y) == CostsOn(cost, T) /\ y \in T /\ Sum(cost, T) # cost[y] + Sum(cost, T \ {y})
           bad == {k \in Nat : \E T : Cardinality(T) = k /\ \E y : Bad(T, y)}
<1>1. ASSUME bad # {} PROVE FALSE
  <2>1. PICK k \in bad : \A j \in bad : k <= j
    BY <1>1, Least
  <2>2. PICK T, y : Bad(T, y) /\ Cardinality(T) = k
    BY <2>1
  <2> DEFINE z == Some(T)
             u == T \ {z}
             v == T \ {y}
  <2>3. T # {} /\ Sum(cost, T) = cost[z] + Sum(cost, u)
    BY <2>2, SumDef DEF CostsOn
  <2>4. Cardinality(u) \in Nat /\ Cardinality(u) < k /\ IsFiniteSet(u) /\ z \in T
    <3>1. z \in T /\ IsFiniteSet(T)
      BY <2>2, <2>3, SomeMember DEF CostsOn
    <3>2. Cardinality(u) \in Nat /\ Cardinality(u) < Cardinality(T) /\ IsFiniteSet(u)
      BY <3>1, Without
    <3> QED BY <2>2, <3>1, <3>2
  <2>5. y # z
    BY <2>2, <2>3
  <2>6. Cardinality(v) \in Nat /\ Cardinality(v) < k /\ IsFiniteSet(v)
    <3>1. y \in T /\ IsFiniteSet(T)
      BY <2>2 DEF CostsOn
    <3>2. Cardinality(v) \in Nat /\ Cardinality(v) < Cardinality(T) /\ IsFiniteSet(v)
      BY <3>1, Without
    <3> QED BY <2>2, <3>2
  <2>7. CostsOn(cost, u) /\ CostsOn(cost, v) /\ y \in u /\ z \in v
    BY <2>2, <2>4, <2>5, <2>6 DEF CostsOn
  <2>8. Sum(cost, u) = cost[y] + Sum(cost, u \ {y})
    BY <2>1, <2>4, <2>7
  <2>9. Sum(cost, v) = cost[z] + Sum(cost, v \ {z})
    BY <2>1, <2>6, <2>7
  <2>10. u \ {y} = v \ {z} /\ CostsOn(cost, u \ {y})
    BY <2>7, FS_Subset DEF CostsOn
  <2>11. Sum(cost, u \ {y}) \in Nat /\ cost[y] \in Nat /\ cost[z] \in Nat
    BY <2>2, <2>4, <2>10, SumNat DEF CostsOn
  <2>12. Sum(cost, T) = cost[z] + (cost[y] + Sum(cost, u \ {y}))
    BY <2>3, <2>8
  <2>13. Sum(cost, v) = cost[z] + Sum(cost, u \ {y})
    BY <2>9, <2>10
  <2>14. Sum(cost, T) # cost[y] + Sum(cost, v)
    BY <2>2
  <2> HIDE DEF u, v, z
  <2> QED BY <2>11, <2>12, <2>13, <2>14
<1>2. Cardinality(S) \in Nat
  BY FS_CardinalityType DEF CostsOn
<1>3. ~Bad(S, x)
  BY <1>1, <1>2
<1> QED BY <1>3

LEMMA FiniteImage ==
    ASSUME NEW atom, NEW K, IsFiniteSet(K)
    PROVE  IsFiniteSet({atom[l] : l \in K})
<1> DEFINE image == {atom[l] : l \in K}
           f == [l \in K |-> atom[l]]
<1>1. f \in Surjection(K, image)
  BY DEF Surjection
<1> QED BY <1>1, FS_Surjection

\* Facts that several literals stand for are counted once.
LEMMA SumImage ==
    ASSUME NEW cost, NEW atom, NEW L, IsFiniteSet(L), \A l \in L : cost[atom[l]] \in Nat
    PROVE  Sum(cost, {atom[l] : l \in L}) <= Sum([l \in L |-> cost[atom[l]]], L)
<1> DEFINE d == [l \in L |-> cost[atom[l]]]
           Image(K) == {atom[l] : l \in K}
           Bad(K) == K \subseteq L /\ ~(Sum(cost, Image(K)) <= Sum(d, K))
           bad == {k \in Nat : \E K : Cardinality(K) = k /\ Bad(K)}
<1>1. ASSUME NEW K \in SUBSET L PROVE CostsOn(d, K) /\ CostsOn(cost, Image(K))
  <2>1. IsFiniteSet(K) /\ IsFiniteSet(Image(K))
    <3>1. IsFiniteSet(K)
      BY FS_Subset
    <3>2. IsFiniteSet(Image(K))
      BY <3>1, FiniteImage
    <3> QED BY <3>1, <3>2
  <2> QED BY <2>1 DEF CostsOn
<1>2. ASSUME bad # {} PROVE FALSE
  <2>1. PICK k \in bad : \A j \in bad : k <= j
    BY <1>2, Least
  <2>2. PICK K : Cardinality(K) = k /\ Bad(K)
    BY <2>1
  <2>3. K \in SUBSET L /\ IsFiniteSet(K)
    BY <2>2, FS_Subset
  <2>4. K # {}
    <3>1. Image({}) = {}
      OBVIOUS
    <3>2. Sum(cost, {}) = 0 /\ Sum(d, {}) = 0
      BY SumDef, FS_EmptySet
    <3> QED BY <2>2, <3>1, <3>2
  <2>5. PICK l \in K : TRUE
    BY <2>4
  <2> DEFINE R == K \ {l}
  <2>6. Cardinality(R) \in Nat /\ Cardinality(R) < k /\ R \in SUBSET L
    <3>1. Cardinality(R) \in Nat /\ Cardinality(R) < Cardinality(K)
      BY <2>3, Without
    <3> QED BY <2>2, <2>3, <3>1
  <2>7. Sum(cost, Image(R)) <= Sum(d, R)
    <3>1. \A j \in bad : ~(j < k)
      <4>1. \A j \in bad : j \in Nat
        OBVIOUS
      <4> HIDE DEF bad
      <4> QED BY <2>1, <4>1
    <3>2. ~Bad(R)
      <4> HIDE DEF Bad
      <4> QED BY <2>6, <3>1
    <3> QED BY <2>6, <3>2
  <2>8. Sum(d, K) = cost[atom[l]] + Sum(d, R)
    <3>1. d[l] = cost[atom[l]]
      BY <2>3, <2>5
    <3>2. CostsOn(d, K)
      BY <1>1, <2>3
    <3> HIDE DEF d
    <3>3. Sum(d, K) = d[l] + Sum(d, K \ {l})
      BY <3>2, SumSplit
    <3> QED BY <3>1, <3>3
  <2>9. /\ Sum(d, R) \in Nat /\ Sum(cost, Image(R)) \in Nat /\ cost[atom[l]] \in Nat
    <3> HIDE DEF d, Image
    <3> QED BY <1>1, <2>3, <2>5, <2>6, SumNat
  <2>10. Sum(cost, Image(K)) <= cost[atom[l]] + Sum(cost, Image(R))
    <3>1. CASE atom[l] \in Image(R)
      <4>1. Image(K) = Image(R)
        BY <3>1
      <4> HIDE DEF Image, R
      <4> QED BY <2>9, <4>1
    <3>2. CASE atom[l] \notin Image(R)
      <4>1. atom[l] \in Image(K) /\ Image(K) \ {atom[l]} = Image(R)
        BY <2>5, <3>2
      <4> HIDE DEF Image, R
      <4>2. Sum(cost, Image(K)) = cost[atom[l]] + Sum(cost, Image(R))
        <5>1. CostsOn(cost, Image(K))
          BY <1>1, <2>3
        <5>2. Sum(cost, Image(K)) = cost[atom[l]] + Sum(cost, Image(K) \ {atom[l]})
          BY <4>1, <5>1, SumSplit
        <5> QED BY <4>1, <5>2
      <4>3. Sum(cost, Image(K)) \in Nat
        BY <1>1, <2>3, SumNat
      <4> QED BY <4>2, <4>3
    <3> QED BY <3>1, <3>2
  <2>11. Sum(cost, Image(K)) \in Nat
    <3> HIDE DEF Image
    <3> QED BY <1>1, <2>3, SumNat
  <2>12. ~(Sum(cost, Image(K)) <= Sum(d, K))
    BY <2>2
  <2> HIDE DEF Image, R, d
  <2> QED BY <2>7, <2>8, <2>9, <2>10, <2>11, <2>12
<1>3. ~Bad(L)
  BY <1>2, FS_CardinalityType
<1> QED BY <1>3

LEMMA SumMember ==
    ASSUME NEW cost, NEW S, CostsOn(cost, S), NEW x \in S
    PROVE  cost[x] <= Sum(cost, S)
<1>1. CostsOn(cost, S \ {x})
  BY FS_Subset DEF CostsOn
<1>2. Sum(cost, S \ {x}) \in Nat /\ cost[x] \in Nat
  BY <1>1, SumNat DEF CostsOn
<1> QED BY <1>2, SumSplit

-----------------------------------------------------------------------------
(* The theorems.                                                            *)

\* Both invariants hold in every reachable state.
LEMMA CostInvariance == AggregateBounds(Nat) /\ Spec => [](Abstract!IInv /\ CostInv)
<1> SUFFICES ASSUME AggregateBounds(Nat) PROVE Spec => [](Abstract!IInv /\ CostInv)
  OBVIOUS
<1>1. Init => Abstract!IInv /\ CostInv
  BY InitCostInv, InitEngine, ProgramAssumptions, Abstract!InitIInv
<1>2. Abstract!IInv /\ CostInv /\ [Next]_vars => (Abstract!IInv /\ CostInv)'
  BY NextCostInv, NextEngine, ProgramAssumptions, Abstract!NextIInv
<1> QED BY <1>1, <1>2, PTL DEF Spec

\* The engine with annotations is the engine of BottomUp, step by step: workers, local
\* witnesses, annotation updates and cost buckets only decide which of the merged heads
\* become facts next, and no head that was filed at a cost is ever left behind by the
\* advance to the next bucket.
THEOREM CostsImplementEngine ==
    AggregateBounds(Nat) /\ Spec => Engine!Init /\ [][Engine!Next]_(Engine!vars)
<1> SUFFICES ASSUME AggregateBounds(Nat)
             PROVE  Spec => Engine!Init /\ [][Engine!Next]_(Engine!vars)
  OBVIOUS
<1>1. Init => Engine!Init
  BY InitEngine, SameSpecification
<1>2. Abstract!IInv /\ CostInv /\ [Next]_vars => [Engine!Next]_(Engine!vars)
  BY NextEngine, SameSpecification
<1> QED BY <1>1, <1>2, CostInvariance, PTL DEF Spec

\* From the moment a fact is inserted its cost is that of its cheapest derivation: the
\* bindings process_clique and process_pending drop for it could not have improved it.
THEOREM CostsOptimal == AggregateBounds(Nat) /\ Spec => []OptimalCosts
<1> SUFFICES ASSUME AggregateBounds(Nat) PROVE Spec => []OptimalCosts
  OBVIOUS
<1>1. Abstract!IInv /\ CostInv => OptimalCosts
  BY Optimal DEF OptimalCosts
<1> QED BY <1>1, CostInvariance, PTL

\* The witnesses of the facts can be followed to the start facts.
LEMMA FoundedWitnesses == ASSUME Abstract!IInv, CostInv PROVE WitnessesFounded
<1> DEFINE used == facts \ start
           supporters(f) == {Atom[l] : l \in Body(andAnnot[f].inst) \cap Positive}
<1>1. AnnotInv /\ facts \subseteq Fact
  BY EngineFacts DEF CostInv
<1>2. \A f \in used : /\ f \in DOMAIN andAnnot
                      /\ HeadOf[andAnnot[f].inst] = f
                      /\ Holds(Body(andAnnot[f].inst), facts)
                      /\ andAnnot[f].cost = orAnnot[f]
  BY <1>1 DEF AnnotInv
<1>3. ASSUME NEW C \in SUBSET used, C # {} PROVE \E f \in C : supporters(f) \cap C = {}
  <2>1. PICK rank \in [Fact -> Nat] :
          \A f \in used : \A l \in Body(andAnnot[f].inst) \cap Positive :
              Atom[l] \in start \/ rank[Atom[l]] < rank[f]
    BY DEF CostInv, RankedInv
  <2>2. {rank[f] : f \in C} \in SUBSET Nat /\ {rank[f] : f \in C} # {}
    BY <1>1, <1>3
  <2>3. PICK m \in {rank[f] : f \in C} : \A k \in {rank[f] : f \in C} : m <= k
    BY <2>2, Least
  <2>4. PICK f \in C : rank[f] = m
    BY <2>3
  <2>5. ASSUME NEW l \in Body(andAnnot[f].inst) \cap Positive PROVE Atom[l] \notin C
    <3>1. ASSUME Atom[l] \in C PROVE FALSE
      <4>1. rank[Atom[l]] < rank[f]
        BY <1>3, <2>1, <3>1
      <4>2. rank[f] <= rank[Atom[l]] /\ rank[f] \in Nat /\ rank[Atom[l]] \in Nat
        BY <1>1, <1>3, <2>3, <2>4, <3>1
      <4> QED BY <4>1, <4>2
    <3> QED BY <3>1
  <2> QED BY <2>5
<1> QED BY <1>2, <1>3 DEF WitnessesFounded

\* The witnesses a relaxed plan is extracted from are applicable, explain the cost of their
\* facts, and lead back to the start facts.
THEOREM WitnessesAreFounded == AggregateBounds(Nat) /\ Spec => []WitnessesFounded
<1> SUFFICES ASSUME AggregateBounds(Nat) PROVE Spec => []WitnessesFounded
  OBVIOUS
<1>1. Abstract!IInv /\ CostInv => WitnessesFounded
  BY FoundedWitnesses
<1> QED BY <1>1, CostInvariance, PTL

\* What the theorems ask of the aggregation holds of MaxAggregation, for bodies of any
\* finite size.
THEOREM MaxAggregationBounds ==
    ASSUME NEW L, IsFiniteSet(L), NEW cost \in [L -> Nat]
    PROVE  MaxAggregation(cost) \in Nat /\ \A l \in L : cost[l] <= MaxAggregation(cost)
<1> DEFINE image == {cost[l] : l \in L}
           S == {0} \cup image
<1>1. cost \in Surjection(L, image)
  BY DEF Surjection
<1>2. IsFiniteSet(image)
  <2> HIDE DEF image
  <2> QED BY <1>1, FS_Surjection
<1>3. IsFiniteSet(image \cup {0}) /\ S = image \cup {0}
  <2> HIDE DEF image
  <2> QED BY <1>2, FS_AddElement
<1>4. S \in SUBSET Nat /\ S # {} /\ IsFiniteSet(S)
  BY <1>3
<1>5. Max(S) \in S /\ \A y \in S : y <= Max(S)
  <2> HIDE DEF S
  <2> QED BY <1>4, Maximum
<1>6. MaxAggregation(cost) = Max(S)
  BY DEF MaxAggregation
<1> QED BY <1>4, <1>5, <1>6

\* What the theorems ask of the aggregation holds of SumAggregation too. The sum is a
\* recursion over the set of literals, of which no order is known.
THEOREM SumAggregationBounds ==
    ASSUME NEW L, IsFiniteSet(L), NEW cost \in [L -> Nat]
    PROVE  SumAggregation(cost) \in Nat /\ \A l \in L : cost[l] <= SumAggregation(cost)
<1>1. SumAggregation(cost) = Sum(cost, L)
  BY DEF SumAggregation, Sum
<1>2. CostsOn(cost, L)
  BY DEF CostsOn
<1> QED BY <1>1, <1>2, SumNat, SumMember

\* A fact costs what its witness costs: with CostsOptimal, the cheapest derivation there is.
THEOREM CostsExplained ==
    AggregateBounds(Nat) /\ Spec =>
        [](\A f \in facts \ start : orAnnot[f] = WitnessCost(andAnnot[f].inst))
<1> SUFFICES ASSUME AggregateBounds(Nat)
             PROVE  Spec => [](\A f \in facts \ start : orAnnot[f] = WitnessCost(andAnnot[f].inst))
  OBVIOUS
<1>1. Init => ExplainedInv
  BY InitExplained
<1>2. Abstract!IInv /\ CostInv /\ ExplainedInv /\ [Next]_vars => ExplainedInv'
  BY NextExplained
<1>3. CostInv /\ ExplainedInv => \A f \in facts \ start : orAnnot[f] = WitnessCost(andAnnot[f].inst)
  BY DEF CostInv, AnnotInv, ExplainedInv
<1> QED BY <1>1, <1>2, <1>3, CostInvariance, PTL DEF Spec

=============================================================================
