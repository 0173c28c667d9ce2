---------------------------- MODULE BottomUpCosts ---------------------------
(***************************************************************************)
(* The bottom-up engine with OrAnnotationPolicy and AndAnnotationPolicy: a  *)
(* generalized Dijkstra search. Every rule task runs on some worker thread  *)
(* with its own pending bindings, head rows and witnesses; the sequential   *)
(* merge moves the cheapest witnesses into the program's annotations and    *)
(* the heads into cost buckets, and the cheapest bucket becomes facts.      *)
(***************************************************************************)
EXTENDS DatalogProgram, FiniteSetsExt

CONSTANTS
    StartFacts, Goal, Terminating,   \* as in BottomUp
    Worker,                          \* threads of the arena
    RuleCost,                        \* [Rule -> Nat]
    Aggregate(_)                     \* SumAggregation or MaxAggregation

ASSUME CostAssumption ==
    /\ StartFacts \subseteq SUBSET Fact
    /\ StartFacts # {}
    /\ Goal \subseteq Fact
    /\ Terminating \in BOOLEAN
    /\ Worker # {}
    /\ \A r \in Rule : RuleCost[r] \in Nat

\* The stratum of a rule is that of its head's predicate.
ASSUME HeadStratumAssumption ==
    \A i, j \in Instance :
        PredOf[HeadOf[i]] = PredOf[HeadOf[j]] => StratumOf[RuleOf[i]] = StratumOf[RuleOf[j]]

\* What the search relies on: a binding costs no less than any literal of its body.
AggregateBounds(Costs) ==
    \A i \in Instance : \A cost \in [Body(i) \cap Positive -> Costs] :
        /\ Aggregate(cost) \in Nat
        /\ \A l \in Body(i) \cap Positive : cost[l] <= Aggregate(cost)

VARIABLES
    start, facts, unsatGoals, stratum, active, todo, fresh, snapshot, unsat, pc,
    pending,      \* per worker: its pending_rules, of all rules
    heads,        \* per rule and worker: head_rows
    local,        \* per rule and worker: and_annot, a map from heads to witnesses
    orAnnot,      \* cost of every annotated fact; a missing entry stands for max
    andAnnot,     \* witness of every annotated fact but the start facts
    buckets,      \* the cost buckets as pairs <<cost, fact>>
    current       \* m_current

costVars == <<local, orAnnot, andAnnot, buckets, current>>
ruleVars == <<fresh, snapshot, pending, unsat, heads, local>>
vars == <<start, facts, unsatGoals, stratum, active, todo, fresh, snapshot, unsat,
          pc, pending, heads, costVars>>

\* The aggregation functions, on the costs of a set of literals or goals given as
\* a function; both start from the identity 0. h_add and h_FF use the sum, h_max
\* the maximum.
SumAggregation(cost) == MapThenSumSet(LAMBDA l : cost[l], DOMAIN cost)
MaxAggregation(cost) == Max({0} \cup {cost[l] : l \in DOMAIN cost})

\* Heads in a bucket the search can still reach.
Waiting == {b[2] : b \in {c \in buckets : c[1] >= current}} \ facts

AllHeads(r) == UNION {heads[r][v] : v \in Worker}

Engine == INSTANCE BottomUp WITH
    waiting <- Waiting,
    pending <- UNION {pending[v] : v \in Worker},
    heads <- [r \in Rule |-> AllHeads(r)]

EmptyMap == [f \in {} |-> 0]

-----------------------------------------------------------------------------
(* ProgramExecutionContext::clear: the facts of the state cost nothing.      *)

Init ==
    /\ start \in StartFacts
    /\ facts = start
    /\ unsatGoals = Goal \ start
    /\ stratum = 1
    /\ active = RulesOfStratum(1)
    /\ todo = {}
    /\ fresh = Rule
    /\ snapshot = [r \in Rule |-> {}]
    /\ unsat = [i \in Instance |-> {}]
    /\ pc = "check"
    /\ pending = [v \in Worker |-> {}]
    /\ heads = [r \in Rule |-> [v \in Worker |-> {}]]
    /\ local = [r \in Rule |-> [v \in Worker |-> EmptyMap]]
    /\ orAnnot = [f \in start |-> 0]
    /\ andAnnot = EmptyMap
    /\ buckets = {}
    /\ current = 0

\* The caller resets the facts to those of its next state and clears the context.
Solve(S) ==
    /\ pc = "done"
    /\ start' = S
    /\ facts' = S
    /\ unsatGoals' = Goal \ S
    /\ stratum' = 1
    /\ active' = RulesOfStratum(1)
    /\ todo' = {}
    /\ fresh' = Rule
    /\ snapshot' = [r \in Rule |-> {}]
    /\ unsat' = [i \in Instance |-> {}]
    /\ pc' = "check"
    /\ pending' = [v \in Worker |-> {}]
    /\ heads' = [r \in Rule |-> [v \in Worker |-> {}]]
    /\ local' = [r \in Rule |-> [v \in Worker |-> EmptyMap]]
    /\ orAnnot' = [f \in S |-> 0]
    /\ andAnnot' = EmptyMap
    /\ buckets' = {}
    /\ current' = 0

\* The return from one stratum and cost_buckets.clear() at the start of the next.
EndStratum ==
    /\ todo' = {}
    /\ buckets' = {}
    /\ current' = 0
    /\ IF stratum < NumStrata
       THEN /\ stratum' = stratum + 1
            /\ active' = RulesOfStratum(stratum + 1)
            /\ pc' = "check"
       ELSE /\ pc' = "done"
            /\ UNCHANGED <<stratum, active>>

Terminate ==
    /\ pc = "check"
    /\ Engine!GoalProven
    /\ EndStratum
    /\ UNCHANGED <<start, facts, unsatGoals, ruleVars, orAnnot, andAnnot>>

StartIteration ==
    /\ pc = "check"
    /\ ~Engine!GoalProven
    /\ todo' = active
    /\ pc' = "run"
    /\ UNCHANGED <<start, facts, unsatGoals, stratum, active, ruleVars, orAnnot,
                   andAnnot, buckets, current>>

-----------------------------------------------------------------------------
(* The parallel task of rule r on worker w: pending bindings are processed   *)
(* in the worker that holds them, new cliques in worker w.                   *)

HandledBy(i, w, v) == i \in pending[v] \/ (v = w /\ \A u \in Worker : i \notin pending[u])

FiredBy(r, w, v) == {i \in Engine!Fired(r) : HandledBy(i, w, v)}

KeptBy(r, w, v) == {i \in Engine!Kept(r) : HandledBy(i, w, v)}

\* Mutant: the first cost of a fact is final.
ImprovesFirst(c, f) == f \notin DOMAIN orAnnot

\* A cost that beats the fact's annotation; no entry stands for the maximum.
Improves(c, f) == f \notin DOMAIN orAnnot \/ c < orAnnot[f]

\* try_ground_better_witness: the aggregated costs of the positive body literals,
\* one per literal, and the cost of the rule.
WitnessCost(i) ==
    Aggregate([l \in Body(i) \cap Positive |-> orAnnot[Atom[l]]]) + RuleCost[RuleOf[i]]

\* The bindings that may end up as the witness for head f in the worker that
\* fired the bindings I: a binding replaces a more expensive one, unless the one
\* at hand is no more expensive than anything this iteration can produce.
LocalWitnesses(r, I, f) ==
    LET bound == current + RuleCost[r]
        same == {i \in I : HeadOf[i] = f}
    IN  {i \in same :
            /\ Improves(bound, f)
            /\ Improves(WitnessCost(i), f)
            /\ \A j \in same : WitnessCost(j) < WitnessCost(i) => WitnessCost(i) <= bound}

RunRule(r, w) ==
    /\ pc = "run"
    /\ r \in todo
    /\ todo' = todo \ {r}
    /\ fresh' = fresh \ {r}
    /\ snapshot' = [snapshot EXCEPT ![r] = facts]
    /\ heads' = [heads EXCEPT ![r] =
                    [v \in Worker |-> {HeadOf[i] : i \in FiredBy(r, w, v)}]]
    /\ pending' = [v \in Worker |-> (pending[v] \ InstancesOf(r)) \cup KeptBy(r, w, v)]
    /\ unsat' = [i \in Instance |->
                    IF RuleOf[i] # r THEN unsat[i]
                    ELSE IF i \in Engine!Kept(r) THEN Engine!Unsatisfied(i) ELSE {}]
    /\ LET found(v, f) == LocalWitnesses(r, FiredBy(r, w, v), f)
           keys == {k \in Worker \X Fact : found(k[1], k[2]) # {}}
       IN  \E wit \in [keys -> Instance] :
            /\ \A k \in keys : wit[k] \in found(k[1], k[2])
            /\ local' = [local EXCEPT ![r] = [v \in Worker |->
                 [f \in {k[2] : k \in {k \in keys : k[1] = v}} |->
                    [inst |-> wit[<<v, f>>], cost |-> WitnessCost(wit[<<v, f>>])]]]]
    /\ UNCHANGED <<start, facts, unsatGoals, stratum, active, pc, orAnnot, andAnnot,
                   buckets, current>>

-----------------------------------------------------------------------------
(* The sequential merge and the next bucket.                                *)

\* Mutant: the heads of one worker only are merged.
MergedHeadsFirst == UNION {heads[r][CHOOSE v \in Worker : TRUE] : r \in active}

\* The head rows of all workers, rule by rule.
MergedHeads == UNION {AllHeads(r) : r \in active}

\* The worker witnesses for f, of which the first cheapest one in the order of
\* the merge is taken over if it is a strict improvement.
Improvements(f) ==
    LET all == UNION {{local[r][v][f] : v \in {u \in Worker : f \in DOMAIN local[r][u]}}
                        : r \in active}
    IN  {x \in all : Improves(x.cost, f) /\ \A y \in all : x.cost <= y.cost}

Improved == {f \in MergedHeads : Improvements(f) # {}}

\* Mutant: the cost is updated but a witness, once set, is kept.
AnnotateKeepsWitness ==
    \E wit \in [Improved -> UNION {Improvements(f) : f \in Improved}] :
        /\ \A f \in Improved : wit[f] \in Improvements(f)
        /\ orAnnot' = [f \in DOMAIN orAnnot \cup Improved |->
                          IF f \in Improved THEN wit[f].cost ELSE orAnnot[f]]
        /\ andAnnot' = [f \in DOMAIN andAnnot \cup Improved |->
                          IF f \in DOMAIN andAnnot THEN andAnnot[f] ELSE wit[f]]

\* OrAnnotationPolicy::update_annotation for every merged head.
Annotate ==
    \E wit \in [Improved -> UNION {Improvements(f) : f \in Improved}] :
        /\ \A f \in Improved : wit[f] \in Improvements(f)
        /\ orAnnot' = [f \in DOMAIN orAnnot \cup Improved |->
                          IF f \in Improved THEN wit[f].cost ELSE orAnnot[f]]
        /\ andAnnot' = [f \in DOMAIN andAnnot \cup Improved |->
                          IF f \in Improved THEN wit[f] ELSE andAnnot[f]]

\* clear_current, then for every merged head erase(old cost) and insert(new cost).
UpdatedBuckets ==
    (buckets \ {b \in buckets : \/ b[1] = current
                                \/ /\ b[2] \in MergedHeads \cap DOMAIN orAnnot
                                   /\ b[1] = orAnnot[b[2]]})
        \cup {<<orAnnot'[f], f>> : f \in MergedHeads}

\* advance_to_next_nonempty on the buckets bs.
Reachable(bs) == {b[1] : b \in {c \in bs : c[1] >= current}}

Exhausted ==
    /\ pc = "run"
    /\ todo = {}
    /\ Annotate
    /\ Reachable(UpdatedBuckets) = {}
    /\ EndStratum
    /\ UNCHANGED <<start, facts, unsatGoals, ruleVars>>

InsertBucket ==
    /\ pc = "run"
    /\ todo = {}
    /\ Annotate
    /\ \E c \in Reachable(UpdatedBuckets) :
        /\ \A d \in Reachable(UpdatedBuckets) : c <= d
        /\ LET B == {b[2] : b \in {d \in UpdatedBuckets : d[1] = c}}
           IN  /\ facts' = facts \cup B
               /\ unsatGoals' = unsatGoals \ B
               /\ active' = Listeners(stratum, {PredOf[f] : f \in B \ facts})
        /\ current' = c
    /\ buckets' = UpdatedBuckets
    /\ pc' = "check"
    /\ UNCHANGED <<start, stratum, todo, ruleVars>>

EngineStep ==
    \/ Terminate
    \/ StartIteration
    \/ \E r \in Rule, w \in Worker : RunRule(r, w)
    \/ Exhausted
    \/ InsertBucket

Next ==
    \/ EngineStep
    \/ \E S \in StartFacts : Solve(S)

\* As in BottomUp: the loop runs until it returns.
Spec == Init /\ [][Next]_vars /\ WF_vars(EngineStep)

-----------------------------------------------------------------------------
(* Properties.                                                              *)

\* The engine with costs is an engine: it inserts the cheapest bucket where
\* BottomUp leaves the choice open. Were a head ever filed under a cost below
\* the current one, it would be lost and this would not hold.
EngineSpec == Engine!Spec

\* "Optimal cost proven": from the moment it enters the fact set a fact's cost is
\* at most that of every derivation from the facts, now and later, which is what
\* allows process_clique and process_pending to drop further bindings for it.
\* With WitnessesFounded the costs are those of the cheapest derivations.
OptimalCosts ==
    \A i \in Instance : Holds(Body(i), facts) /\ HeadOf[i] \in facts =>
        orAnnot[HeadOf[i]] <= WitnessCost(i)

\* The best supporters a relaxed plan is extracted from: the witness of a fact is
\* an applicable instance with that head, its stored cost is the fact's cost, and
\* following witnesses never comes back to the same fact, not even through rules
\* that cost nothing.
WitnessesFounded ==
    LET used == facts \ start
        supporters(f) == {Atom[l] : l \in Body(andAnnot[f].inst) \cap Positive}
    IN  /\ used \subseteq DOMAIN andAnnot
        /\ \A f \in used : /\ HeadOf[andAnnot[f].inst] = f
                           /\ Holds(Body(andAnnot[f].inst), facts)
                           /\ andAnnot[f].cost = orAnnot[f]
        /\ \A C \in SUBSET used : C = {} \/ \E f \in C : supporters(f) \cap C = {}

=============================================================================
