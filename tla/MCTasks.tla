------------------------------ MODULE MCTasks -------------------------------
(***************************************************************************)
(* What is made of a task before the search, each part on its own; part     *)
(* says which of them a behaviour is about: the grounder and the canonical  *)
(* heuristic on the tasks of TaskInstances, the synthesis of invariants on  *)
(* one or two of the action schemas below (some with static guards on       *)
(* effects), match trees over up to three of the conditions below, and the  *)
(* formalism on the syntax trees of TaskInstances.                          *)
(***************************************************************************)
EXTENDS TaskGrounder

CONSTANTS
    Parts,     \* the parts to run
    Schemas    \* the action schemas for the invariants

VARIABLES
    part, phase,
    patterns, vec, astates, transitions, source, projections, partitions,
    queue, seen, accepted, groups, chosen,
    cond, sorted, elements, stack, nodes, root, evaluate, out,
    input, pc, R, translator, domain, fdr, p2d, rules, copies, grounded, work, engine

grounderVars == <<stage, reached, variables, layout, goal, groundActions, groundAxioms, todo, values, costs>>
canonicalVars == <<patterns, vec, astates, transitions, source, projections, partitions>>
invariantVars == <<queue, seen, accepted, groups, chosen>>
treeVars == <<cond, sorted, elements, stack, nodes, root, evaluate, out>>
formalismVars == <<input, pc, R, translator, domain, fdr, p2d, rules, copies, grounded, work, engine>>
allVars == <<part, task, state, phase, grounderVars, canonicalVars, invariantVars, treeVars, formalismVars>>

-----------------------------------------------------------------------------

TI == INSTANCE TaskInstances
mcTasks == TI!GrounderTasks
mcDerived == TI!DerivedAtoms
NoGrounder ==
    /\ stage = "program" /\ reached = {} /\ variables = <<>> /\ layout = 0 /\ goal = {}
    /\ groundActions = {} /\ groundAxioms = {} /\ todo = {} /\ values = <<>> /\ costs = <<0, 0>>

Canonical == INSTANCE CanonicalHeuristic WITH Tasks <- TI!CanonicalTasks, Infinity <- 999
NoCanonical ==
    /\ patterns = <<>> /\ vec = <<>> /\ astates = <<>> /\ transitions = {} /\ source = 0
    /\ projections = <<>> /\ partitions = <<>>

-----------------------------------------------------------------------------
(* Schemas over two objects, a binary, a unary and a nullary fluent         *)
(* predicate and a static one                                               *)

Var(i) == <<"var", i>>
Obj(o) == <<"obj", o>>
Atom(pred, args) == [pred |-> pred, args |-> args]
X == Var(0)
Y == Var(1)
Z == Var(2)
W == Var(1)   \* parameter of an effect of a schema with one parameter

h == Atom("h", <<>>)
q(t) == Atom("q", <<t>>)
p(t, u) == Atom("p", <<t, u>>)
s(t) == Atom("s", <<t>>)
Pos(atom) == [atom |-> atom, pos |-> TRUE]
Neg(atom) == [atom |-> atom, pos |-> FALSE]

Effect(n, c, lits) == [vars |-> n, cond |-> c, static |-> {}, lits |-> lits]
Guarded(static, lits) == [Effect(0, {}, lits) EXCEPT !.static = static]
Plain(lits) == <<Effect(0, {}, lits)>>
Op(n, pre, static, effects) == [vars |-> n, pre |-> pre, static |-> static, effects |-> effects]

mcSchemas ==
    {\* move, swap
     Op(3, {Pos(p(X, Y))}, {}, Plain(<<Neg(p(X, Y)), Pos(p(X, Z))>>)),
     Op(2, {Pos(p(X, Y))}, {}, Plain(<<Neg(p(X, Y)), Pos(p(Y, X))>>)),
     \* pick, drop
     Op(2, {Pos(p(X, Y)), Pos(h)}, {}, Plain(<<Neg(p(X, Y)), Neg(h), Pos(q(X))>>)),
     Op(2, {Pos(q(X))}, {Pos(s(Y))}, Plain(<<Neg(q(X)), Pos(h), Pos(p(X, Y))>>)),
     \* copy, fork: these break invariants
     Op(3, {Pos(p(X, Y))}, {}, Plain(<<Pos(p(X, Z))>>)),
     Op(3, {Pos(q(X))}, {}, Plain(<<Neg(q(X)), Pos(p(X, Y)), Pos(p(X, Z))>>)),
     \* toggle, clear: conditional and universal effects
     Op(1, {}, {}, <<Effect(0, {Pos(h)}, <<Neg(h), Pos(q(X))>>), Effect(0, {Pos(q(X))}, <<Neg(q(X)), Pos(h)>>)>>),
     Op(1, {}, {}, <<Effect(1, {}, <<Neg(p(X, W))>>), Effect(0, {}, <<Neg(h), Pos(q(X))>>)>>),
     \* home, leave: constants
     Op(1, {Pos(q(X))}, {}, Plain(<<Neg(q(X)), Pos(p(X, Obj("a")))>>)),
     Op(1, {Pos(p(X, Obj("a")))}, {}, Plain(<<Neg(p(X, Obj("a"))), Pos(q(X))>>)),
     \* static guards of both effects, of the adding one, and of the deleting one where
     \* the action requires it
     Op(2, {Pos(q(X))}, {}, <<Guarded({Pos(s(X))}, <<Neg(q(X)), Pos(p(X, Y))>>)>>),
     Op(2, {Pos(p(X, Y)), Pos(h)}, {}, <<Effect(0, {}, <<Neg(p(X, Y)), Neg(h)>>), Guarded({Neg(s(X))}, <<Pos(q(X))>>)>>),
     Op(1, {Pos(q(X))}, {Pos(s(X))}, <<Guarded({Pos(s(X))}, <<Neg(q(X))>>), Effect(0, {}, <<Pos(p(X, X))>>)>>)}

\* One effect adds an atom for every object.
mcUniversal ==
    {Op(1, {Pos(q(X))}, {}, <<Effect(0, {}, <<Neg(q(X))>>), Effect(1, {}, <<Pos(p(X, W))>>)>>)}

InvariantTasks ==
    {[ops |-> <<o, r>>, init |-> i, static |-> {s(Obj("b"))}] : o \in Schemas, r \in Schemas,
        i \in {{h, p(Obj("a"), Obj("a"))}, {q(Obj("a")), p(Obj("b"), Obj("a"))}, {h, q(Obj("b"))}}}

Invariants == INSTANCE InvariantSynthesis WITH
    Objects <- {"a", "b"}, Tasks <- InvariantTasks,
    Predicates <- <<[name |-> "h", arity |-> 0], [name |-> "q", arity |-> 1], [name |-> "p", arity |-> 2]>>
NoInvariants == queue = <<>> /\ seen = {} /\ accepted = {} /\ groups = {} /\ chosen = {}

-----------------------------------------------------------------------------
(* Conditions of every kind, alone and mixed; the last one is inconsistent  *)

Condition(positive, negative, derived, numeric) ==
    [positive |-> positive, negative |-> negative, derived |-> derived, numeric |-> numeric]

TreeConditions ==
    {Condition({}, {}, {}, {}),
     Condition({<<"v", 0>>}, {}, {}, {}),
     Condition({<<"v", 2>>, <<"w", 1>>}, {}, {}, {}),
     Condition({<<"w", 0>>}, {<<"v", 2>>}, {}, {}),
     Condition({}, {}, {<<"d", TRUE>>}, {}),
     Condition({<<"v", 1>>}, {}, {<<"d", FALSE>>}, {"c"}),
     Condition({}, {<<"v", 2>>}, {}, {"c"}),
     Condition({<<"v", 1>>, <<"v", 2>>}, {}, {}, {})}

Tree == INSTANCE MatchTree WITH
    Conditions <- TreeConditions, MaxElements <- 3, Atoms <- {"d"}, Constraints <- {"c"},
    DomainSize <- [v \in {"v", "w"} |-> IF v = "v" THEN 3 ELSE 2]
NoTree ==
    /\ cond = <<>> /\ sorted = <<>> /\ elements = <<>> /\ stack = <<>> /\ nodes = <<>> /\ root = 0
    /\ evaluate = <<>> /\ out = <<>>

-----------------------------------------------------------------------------

Symbols == INSTANCE Formalism WITH
    Inputs <- TI!FormalismInputs, MaxCopies <- 1, MaxGround <- 2, MaxSolves <- 2, MaxIterations <- 2, MaxCliques <- 3
NoFormalism ==
    /\ input = <<>> /\ pc = "" /\ R = <<>> /\ translator = <<>> /\ domain = 0 /\ fdr = <<>> /\ p2d = <<>>
    /\ rules = <<>> /\ copies = {} /\ grounded = {} /\ work = 0 /\ engine = <<>>

-----------------------------------------------------------------------------

MCInit ==
    /\ part \in Parts
    /\ CASE part = "grounder" ->
                Init /\ phase = "" /\ NoCanonical /\ NoInvariants /\ NoTree /\ NoFormalism
         [] part = "canonical" -> Canonical!Init /\ NoGrounder /\ NoInvariants /\ NoTree /\ NoFormalism
         [] part = "invariants" -> Invariants!Init /\ NoGrounder /\ NoCanonical /\ NoTree /\ NoFormalism
         [] part = "match_tree" ->
                Tree!Init /\ task = {} /\ NoGrounder /\ NoCanonical /\ NoInvariants /\ NoFormalism
         [] part = "formalism" ->
                /\ Symbols!Init /\ state = {} /\ phase = ""
                /\ NoGrounder /\ NoCanonical /\ NoInvariants /\ NoTree

GrounderStep ==
    /\ part = "grounder" /\ Next
    /\ UNCHANGED <<part, phase, canonicalVars, invariantVars, treeVars, formalismVars>>
CanonicalStep ==
    /\ part = "canonical" /\ Canonical!Next
    /\ UNCHANGED <<part, grounderVars, invariantVars, treeVars, formalismVars>>
InvariantsStep ==
    /\ part = "invariants" /\ Invariants!Next
    /\ UNCHANGED <<part, grounderVars, canonicalVars, treeVars, formalismVars>>
TreeStep ==
    /\ part = "match_tree" /\ Tree!Next
    /\ UNCHANGED <<part, task, grounderVars, canonicalVars, invariantVars, formalismVars>>
FormalismStep ==
    /\ part = "formalism" /\ Symbols!Next
    /\ UNCHANGED <<part, state, phase, grounderVars, canonicalVars, invariantVars, treeVars>>

MCSpec ==
    MCInit /\ [][GrounderStep \/ CanonicalStep \/ InvariantsStep \/ TreeStep \/ FormalismStep]_allVars

\* The ground task is the lifted one, see TaskGrounder, and every ground action and axiom
\* is its schema with the objects of the binding, see Formalism.
GroundTaskFaithful ==
    (part = "grounder" => LiftedAndGroundAgree) /\ (part = "formalism" => Symbols!GroundFaithful)

\* The canonical estimate is consistent, and the additive collections are the maximal
\* cliques, see CanonicalHeuristic.
EstimateConsistent == part = "canonical" => Canonical!Consistent /\ Canonical!CliquesRight

\* The chosen groups are mutexes and partition the atoms, see InvariantSynthesis.
MutexGroups == part = "invariants" => Invariants!MutexGroups

\* Match trees list what is applicable, see MatchTree.
ListsApplicable == part = "match_tree" => Tree!ListsApplicable

\* A translated domain or task says what its syntax tree says, see Formalism.
TranslationFaithful == part = "formalism" => Symbols!TranslationFaithful

\* One symbol has one handle, and a merged symbol means what it meant, see Formalism.
CopiesFaithful == part = "formalism" => Symbols!SymbolsShared /\ Symbols!CopiesFaithful

\* The rows of a solve stand for the atoms it derives, see Formalism.
RowsFaithful == part = "formalism" => Symbols!RowsFaithful
=============================================================================
