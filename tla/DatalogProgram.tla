--------------------------- MODULE DatalogProgram ---------------------------
(***************************************************************************)
(* A stratified Datalog program as the bottom-up engine sees it: the ground *)
(* instances ("bindings") of its rules, what the consistency graph of a     *)
(* rule knows about each of them and what is left to the applicability      *)
(* check, and the strata and listeners that drive the scheduler.            *)
(*                                                                          *)
(* Static literals and numeric constraints do not change during a solve: an *)
(* instance they rule out is simply not an element of Instance.             *)
(***************************************************************************)
EXTENDS Naturals, FiniteSets

CONSTANTS
    Fact,          \* ground fluent atoms (predicate bindings)
    Predicate,     \* fluent predicates
    PredOf,        \* [Fact -> Predicate]
    Rule,          \* lifted rules
    NullaryRule,   \* the rules without parameters
    NumStrata,     \* strata are 1 .. NumStrata
    StratumOf,     \* [Rule -> 1 .. NumStrata]
    Literal,       \* body literal occurrences of the ground instances
    Atom,          \* [Literal -> Fact]
    Positive,      \* the literals of positive polarity
    Instance,      \* bindings of the rules
    RuleOf,        \* [Instance -> Rule]
    HeadOf,        \* [Instance -> Fact]
    Graph,         \* [Instance -> SUBSET Literal], checked exactly by the graph
    Loose,         \* [Instance -> SUBSET SUBSET Fact], the graph's projections
    NullaryLiteral,   \* the literals of arity 0
    Late           \* [Instance -> SUBSET Literal], left to ApplicabilityCheck

(***************************************************************************)
(* A literal of arity at most two is an exact edge or vertex condition of   *)
(* the rule's consistency graph (Graph). The nullary literals and those of  *)
(* higher arity are rechecked on every binding (Late). A literal of higher  *)
(* arity still contributes its unary and binary projections to the graph: a *)
(* projection is satisfied by any fact that agrees with it (Loose), so by   *)
(* the literal's own atom in particular.                                    *)
(***************************************************************************)
ASSUME TypeAssumption ==
    /\ PredOf \in [Fact -> Predicate]
    /\ NullaryRule \subseteq Rule
    /\ NumStrata \in Nat \ {0}
    /\ StratumOf \in [Rule -> 1 .. NumStrata]
    /\ Atom \in [Literal -> Fact]
    /\ Positive \subseteq Literal
    /\ NullaryLiteral \subseteq Literal
    /\ RuleOf \in [Instance -> Rule]
    /\ HeadOf \in [Instance -> Fact]
    /\ Graph \in [Instance -> SUBSET Literal]
    /\ Loose \in [Instance -> SUBSET SUBSET Fact]
    /\ Late \in [Instance -> SUBSET Literal]

\* The projections of a literal are satisfied whenever the literal is.
ASSUME ProjectionAssumption ==
    \A i \in Instance : \A S \in Loose[i] :
        \E l \in Late[i] : l \in Positive /\ Atom[l] \in S

-----------------------------------------------------------------------------

Body(i) == Graph[i] \cup Late[i]

InstancesOf(r) == {i \in Instance : RuleOf[i] = r}

Sat(l, F) == IF l \in Positive THEN Atom[l] \in F ELSE Atom[l] \notin F

Holds(L, F) == \A l \in L : Sat(l, F)

\* The binding is a clique of the rule's dynamic consistency graph under F.
Consistent(i, F) == Holds(Graph[i], F) /\ \A S \in Loose[i] : S \cap F # {}

\* Mutant: the strata are ignored.
RulesOfStratumAll(s) == Rule

RulesOfStratum(s) == {r \in Rule : StratumOf[r] = s}

\* Mutant: only the literals of the consistency graph are listened to.
BodyPredicatesGraphOnly(r) ==
    {PredOf[Atom[l]] : l \in {m \in Positive : \E i \in InstancesOf(r) : m \in Graph[i]}}

\* compute_listeners: the predicates of the positive body literals of a rule.
BodyPredicates(r) ==
    {PredOf[Atom[l]] : l \in {m \in Positive : \E i \in InstancesOf(r) : m \in Body(i)}}

Listeners(s, P) == {r \in RulesOfStratum(s) : BodyPredicates(r) \cap P # {}}

\* compute_scc_and_check accepts only programs whose predicates are stratified:
\* a rule reads positively what its own or lower strata derive, and negates only
\* what lower strata derive.
ASSUME StratificationAssumption ==
    \A i, j \in Instance : \A l \in Body(i) :
        PredOf[HeadOf[j]] = PredOf[Atom[l]] =>
            IF l \in Positive THEN StratumOf[RuleOf[j]] <= StratumOf[RuleOf[i]]
                              ELSE StratumOf[RuleOf[j]] < StratumOf[RuleOf[i]]

=============================================================================
