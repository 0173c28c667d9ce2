--------------------------- MODULE TaskInstances ----------------------------
(***************************************************************************)
(* The tasks of MCTasks. For the grounder small tasks over the fluent atoms *)
(* p, q, r, u and the derived atoms d, e: two actions from a list with      *)
(* negative preconditions, conditional effects, deletes, numeric and cost   *)
(* effects, and up to two axioms. For the canonical heuristic two lifted    *)
(* tasks with pattern collections. For the formalism the syntax trees of a  *)
(* small domain with every construct of the fragment. Last comes the        *)
(* Datalog program of MCBottomUp and MCBottomUpCosts.                       *)
(***************************************************************************)
EXTENDS TaskPrograms, SequencesExt

p == <<"p">>
q == <<"q">>
r == <<"r">>
u == <<"u">>
d == <<"d">>
e == <<"e">>

DerivedAtoms == {d, e}

Cond(pos, neg) == [static |-> TRUE, pos |-> pos, neg |-> neg]
True == Cond({}, {})
Effect(cond, add, del) == [cond |-> cond, add |-> add, del |-> del, numeric |-> FALSE, cost |-> 0]
Action(name, cond, effects) == [name |-> name, index |-> 1, cond |-> cond, effects |-> effects]
Axiom(index, body, head) == [name |-> head[1], index |-> index, body |-> body, head |-> head]

ActionList ==
    {Action("a1", Cond({p}, {}), {[Effect(True, {q}, {p}) EXCEPT !.cost = 1]}),
     Action("a2", Cond({q}, {r}), {Effect(True, {p}, {q}), Effect(Cond({d}, {}), {r}, {})}),
     Action("a3", Cond({}, {d}), {Effect(Cond({u}, {}), {r}, {}), [Effect(Cond({}, {u}), {p}, {q}) EXCEPT !.cost = 2]}),
     Action("a4", Cond({p, q}, {}), {Effect(True, {r}, {})}),
     Action("a5", Cond({e}, {u}), {Effect(True, {}, {p, q})}),
     Action("a6", Cond({u}, {}), {Effect(True, {u}, {p})}),
     Action("a7", Cond({p}, {p}), {Effect(True, {r}, {})}),
     Action("a8", Cond({}, {q}), {[Effect(Cond({p}, {u}), {}, {}) EXCEPT !.numeric = TRUE]}),
     Action("a9", True, {Effect(Cond({d}, {e}), {p}, {p}), Effect(Cond({u, d}, {}), {q}, {r})}),
     Action("a10", [True EXCEPT !.static = FALSE], {Effect(True, {u}, {})})}

AxiomSets ==
    {{},
     {Axiom(1, Cond({p}, {}), d), Axiom(2, [Cond({q}, {}) EXCEPT !.static = FALSE], d)},
     {Axiom(1, Cond({q}, {r}), d), Axiom(2, Cond({}, {d}), e)},
     {Axiom(1, Cond({u}, {}), d), Axiom(2, Cond({d}, {}), e), Axiom(3, Cond({r}, {p}), e)}}

Goals == {Cond({r}, {}), Cond({q, e}, {u}), Cond({u}, {})}

Partitions == {<<<<p>>, <<q>>, <<r>>, <<u>>>>, <<<<p, q>>, <<u, r>>>>}

\* The states of the lifted task within four steps, for the assumption that mutex
\* groups are mutexes.
Successors(t, S) ==
    LET ext == Stratified(AxiomProgram(t), t.strata, S)
        fired(a) == {x \in a.effects : Holds(x.cond, ext)}
    IN  {(S \ UNION {x.del : x \in fired(a)}) \cup UNION {x.add : x \in fired(a)}
         : a \in {b \in t.actions : Holds(b.cond, ext)}}

ReachableStates(t) ==
    LET R[n \in 0 .. 4] == IF n = 0 THEN {t.init} ELSE R[n - 1] \cup UNION {Successors(t, S) : S \in R[n - 1]}
    IN  R[4]

MutexesValid(t) ==
    \A S \in ReachableStates(t) : \A g \in ToSet(t.groups) : Cardinality(ToSet(g) \cap S) <= 1

\* Deletes of reached actions are of reached atoms.
DeletesReached(t) ==
    LET R == Fixpoint(GroundTaskProgram(t), t.init)
    IN  \A a \in {b \in t.actions : App(b) \in R} : \A x \in a.effects :
            x.cond.pos \subseteq R => x.del \subseteq R

GrounderTasks ==
    {t \in [actions : {s \in SUBSET ActionList : Cardinality(s) = 2},
            axioms : AxiomSets, init : {{p}, {q}, {p, r}}, goal : Goals,
            strata : {<<{d}, {e}>>}, groups : Partitions]
       : MutexesValid(t) /\ DeletesReached(t)}

-----------------------------------------------------------------------------
(* Lifted tasks with pattern collections *)

Param(i) == <<"p", i>>
Object(n) == <<"o", n>>
Pos(pred, terms) == [atom |-> <<pred, terms>>, polarity |-> TRUE]
Neg(pred, terms) == [atom |-> <<pred, terms>>, polarity |-> FALSE]
SchemaCondition(static, fluent) == [static |-> static, fluent |-> fluent]
NoCondition == SchemaCondition(<<>>, <<>>)
SchemaEffect(n, condition, literals) == [vars |-> n, condition |-> condition, literals |-> literals]
Schema(name, arity, condition, effects) ==
    [name |-> name, arity |-> arity, cost |-> 1, condition |-> condition, effects |-> effects]
GoalOf(positive) == [positive |-> positive, negative |-> {}]

\* GoalPatternGenerator: one pattern for each positive goal fact.
GoalPatterns(goal) ==
    LET facts == SetToSeq(goal) IN [i \in DOMAIN facts |-> <<facts[i]>>]

\* All collections of one to three different patterns of a pool.
Collections(pool) ==
    {c \in UNION {[1 .. n -> pool] : n \in 1 .. 3} : \A i, j \in DOMAIN c : i # j => c[i] # c[j]}

\* Two balls (1, 2) and two rooms (3, 4); the rooms are typed by a static atom.
Ball(b, room) == <<"at", <<Object(b), Object(room)>>>>
Carried(b) == <<"carry", <<Object(b)>>>>
Gripper ==
    LET goal == {Ball(1, 4), Ball(2, 4)}
        room(i) == Pos("room", <<Param(i)>>)
        ball(i) == Pos("ball", <<Param(i)>>)
    IN  [objects |-> 1 .. 4,
         static |-> {<<"room", <<Object(3)>>>>, <<"room", <<Object(4)>>>>, <<"ball", <<Object(1)>>>>, <<"ball", <<Object(2)>>>>},
         initial |-> {Ball(1, 3), Ball(2, 3), <<"robot", <<Object(3)>>>>},
         goal |-> GoalOf(goal),
         patterns |-> {GoalPatterns(goal)} \cup
            Collections({<<Ball(1, 4), Carried(1)>>, <<Ball(2, 4)>>, <<Carried(1)>>, <<Ball(1, 3), Ball(2, 4)>>}),
         actions |->
            {Schema("move", 2, SchemaCondition(<<room(0), room(1)>>, <<Pos("robot", <<Param(0)>>)>>),
                <<SchemaEffect(0, NoCondition, <<Neg("robot", <<Param(0)>>), Pos("robot", <<Param(1)>>)>>)>>),
             Schema("pick", 2, SchemaCondition(<<ball(0), room(1)>>, <<Pos("at", <<Param(0), Param(1)>>), Pos("robot", <<Param(1)>>)>>),
                <<SchemaEffect(0, NoCondition, <<Neg("at", <<Param(0), Param(1)>>), Pos("carry", <<Param(0)>>)>>)>>),
             Schema("drop", 2, SchemaCondition(<<ball(0), room(1)>>, <<Pos("carry", <<Param(0)>>), Pos("robot", <<Param(1)>>)>>),
                <<SchemaEffect(0, NoCondition, <<Neg("carry", <<Param(0)>>), Pos("at", <<Param(0), Param(1)>>)>>)>>)}]

\* Lamps 1 .. 3; pressing one switches it on, and off the one it is wired to.
On(l) == <<"on", <<Object(l)>>>>
Lamps ==
    LET goal == {On(1), On(2), On(3)}
    IN  [objects |-> 1 .. 3,
         static |-> {<<"wired", <<Object(1), Object(2)>>>>, <<"wired", <<Object(2), Object(3)>>>>, <<"wired", <<Object(3), Object(1)>>>>},
         initial |-> {},
         goal |-> GoalOf(goal),
         patterns |-> {GoalPatterns(goal)} \cup Collections({<<On(1), On(2)>>, <<On(2), On(3)>>, <<On(1)>>}),
         actions |->
            {Schema("press", 2, SchemaCondition(<<Pos("wired", <<Param(0), Param(1)>>)>>, <<Neg("on", <<Param(0)>>)>>),
                <<SchemaEffect(0, NoCondition, <<Pos("on", <<Param(0)>>)>>),
                  SchemaEffect(0, SchemaCondition(<<>>, <<Pos("on", <<Param(1)>>)>>), <<Neg("on", <<Param(1)>>)>>)>>)}]

CanonicalTasks == {Gripper, Lamps}

-----------------------------------------------------------------------------
(* Inputs of Formalism, made of a small domain: static, fluent and derived   *)
(* predicates, a constant next to the objects of the problem, numeric        *)
(* functions and total-cost, guarded and universal effects, an axiom of the  *)
(* domain and a predicate and an axiom of the problem.                       *)

V(name) == [t |-> "variable", name |-> name]
O(name) == [t |-> "object", name |-> name]

Relation(name, arity) == [name |-> name, arity |-> arity]

Lit(name, terms, polarity) ==
    [t |-> "literal",
     literal |-> [atom |-> [predicate |-> Relation(name, Len(terms)), terms |-> terms],
                  polarity |-> polarity]]

Application(name, terms) == [skeleton |-> Relation(name, Len(terms)), terms |-> terms]
Fn(name, terms) == [t |-> "function", function |-> Application(name, terms)]
Number(v) == [t |-> "number", value |-> v]
And(parts) == [t |-> "and", parts |-> parts]
Forall(parameters, effect) == [t |-> "forall", parameters |-> parameters, effect |-> effect]
When(condition, effect) == [t |-> "when", condition |-> condition, effect |-> effect]
Compare(op, lhs, rhs) == [t |-> "numeric", op |-> op, lhs |-> lhs, rhs |-> rhs]
Update(op, f, terms, x) ==
    [t |-> "numeric", op |-> op, function |-> Application(f, terms), expression |-> x]

ActionTree(name, parameters, condition, effect) ==
    [name |-> name, original_arity |-> Len(parameters), parameters |-> parameters,
     condition |-> condition, effect |-> effect]

AxiomTree(parameters, condition, head) ==
    [parameters |-> parameters, condition |-> condition, literal |-> head.literal]

x == V("x")
y == V("y")
z == V("z")

Move(extra) ==
    ActionTree("move", <<"x", "y">>,
        <<And(<<Lit("at", <<x>>, TRUE), Lit("road", <<x, y>>, TRUE), Lit("at", <<y>>, FALSE),
                Compare("ge", Fn("fuel", <<x>>),
                        [t |-> "multi", op |-> "add",
                         args |-> <<Fn("length", <<x, y>>), Number(1), Fn("fuel", <<y>>)>>])>>)>>,
        <<And(<<Lit("at", <<x>>, FALSE), Lit("at", <<y>>, TRUE),
                Update("decrease", "fuel", <<x>>,
                       [t |-> "binary", op |-> "mul", lhs |-> Number(2), rhs |-> Fn("length", <<x, y>>)]),
                Update("increase", "total-cost", <<>>, Fn("length", <<x, y>>))>> \o extra)>>)

\* A universal effect with a guard, another universal one without, a guarded one.
Sweep ==
    ActionTree("sweep", <<"x">>, <<Lit("near", <<x>>, TRUE)>>,
        <<And(<<Forall(<<"z">>, When(And(<<Lit("at", <<z>>, TRUE), Lit("road", <<z, x>>, TRUE)>>),
                                     Lit("at", <<z>>, FALSE))),
                When(Lit("near", <<O("c")>>, FALSE), Lit("at", <<x>>, TRUE)),
                Forall(<<"y">>, Lit("seen", <<x, y>>, TRUE)),
                Lit("at", <<O("c")>>, TRUE)>>)>>)

Rest == ActionTree("rest", <<>>, <<>>, <<>>)

NearHere == AxiomTree(<<"x">>, Lit("at", <<x>>, TRUE), Lit("near", <<x>>, TRUE))
NearThere ==
    AxiomTree(<<"y", "x">>, And(<<Lit("near", <<x>>, TRUE), Lit("road", <<x, y>>, TRUE)>>),
          Lit("near", <<y>>, TRUE))

DomainTree(predicates, actions, axioms) ==
    [name |-> "d", constants |-> <<"c">>, predicates |-> predicates,
     functions |-> <<Relation("fuel", 1), Relation("total-cost", 0), Relation("length", 2)>>,
     actions |-> actions, axioms |-> axioms]

Predicates == <<Relation("at", 1), Relation("road", 2), Relation("near", 1), Relation("seen", 2)>>

Value(name, terms, v) == [function |-> Application(name, terms), number |-> v]

\* One object or two besides the constant: with one, last = first.
ProblemTree(objects, last, first, goal) ==
    [name |-> "p", objects |-> objects, predicates |-> <<Relation("done", 0)>>,
     initial_literals |->
        <<Lit("at", <<O(first)>>, TRUE).literal, Lit("road", <<O(first), O(last)>>, TRUE).literal,
          Lit("road", <<O(last), O("c")>>, TRUE).literal, Lit("at", <<O("c")>>, TRUE).literal>>,
     initial_values |->
        <<Value("length", <<O(first), O(last)>>, 1), Value("fuel", <<O(first)>>, 3),
          Value("total-cost", <<>>, 0)>>,
     goal |-> goal,
     metric |-> <<[objective |-> "minimize",
                   expression |-> [t |-> "binary", op |-> "sub", lhs |-> Fn("total-cost", <<>>),
                                   rhs |-> [t |-> "minus", arg |-> Fn("fuel", <<O(last)>>)]]]>>,
     axioms |-> <<AxiomTree(<<>>, Lit("near", <<O(last)>>, TRUE), Lit("done", <<>>, TRUE))>>]

GoalTree(last, first) ==
    <<And(<<Lit("at", <<O(last)>>, TRUE), Lit("done", <<>>, TRUE), Lit("at", <<O(first)>>, FALSE),
            Lit("road", <<O(first), O(last)>>, TRUE), Compare("lt", Number(0), Fn("fuel", <<O(last)>>))>>)>>

TwoObjects(objects) == ProblemTree(objects, "a", "b", GoalTree("a", "b"))
OneObject == ProblemTree(<<"a">>, "a", "a", <<>>)

Full == DomainTree(Predicates, <<Move(<<>>), Sweep, Rest>>, <<NearHere, NearThere>>)
Reordered == DomainTree(Reverse(Predicates), <<Sweep, Move(<<>>)>>, <<NearThere, NearHere>>)

Input(domain, problem, part, supported) ==
    [domain |-> domain, problem |-> problem, part |-> part, supported |-> supported]

\* An effect on a derived predicate, a total-cost that is read, a goal that is one numeric
\* constraint.
Unsupported ==
    {Input(DomainTree(Predicates, <<Move(<<Lit("near", <<x>>, TRUE)>>)>>, <<NearHere>>),
           TwoObjects(<<"a", "b">>), "copy", FALSE),
     Input(DomainTree(Predicates, <<Move(<<Update("assign", "fuel", <<x>>, Fn("total-cost", <<>>))>>)>>, <<>>),
           TwoObjects(<<"a", "b">>), "copy", FALSE),
     Input(Full, ProblemTree(<<"a", "b">>, "a", "b", <<Compare("lt", Number(0), Number(1))>>), "copy", FALSE)}

FormalismInputs ==
    Unsupported
        \cup {Input(domain, TwoObjects(os), "copy", TRUE) :
                domain \in {Full, Reordered}, os \in {<<"a", "b">>, <<"b", "a">>}}
        \cup {Input(Full, OneObject, part, TRUE) : part \in {"ground", "solve"}}

-----------------------------------------------------------------------------
(* For the engine: a small program with one of everything it has to get     *)
(* right: a binding that waits for a nullary atom, two bindings that share  *)
(* every projection of a ternary atom, a positive cycle, a rule without     *)
(* parameters, a literal that occurs twice in a ground body, a fact that is *)
(* filed under one cost and then found cheaper, and negation through two    *)
(* further strata.                                                          *)

pos(f) == <<f, "+", 1>>
again(f) == <<f, "+", 2>>
neg(f) == <<f, "-", 1>>

inst(rule, head, graph, loose, late) ==
    [rule |-> rule, head |-> head, graph |-> graph, loose |-> loose, late |-> late]

\* Arities: p, q unary; n, m nullary; t ternary; g, x, y unary.
Ternary == {"t1", "t2"}

Program == << inst("q_p", "q1", {pos("p1")}, {}, {}),
            inst("q_p", "q2", {pos("p2")}, {}, {}),
            inst("n_q", "n", {pos("q2")}, {}, {}),
            inst("t_qn", "t1", {pos("q1")}, {}, {pos("n")}),
            inst("t_qn", "t2", {pos("q2"), again("q2")}, {}, {pos("n")}),
            inst("g_t", "g", {pos("p1")}, {Ternary}, {pos("n"), pos("t1")}),
            inst("g_t", "g", {pos("p2")}, {Ternary}, {pos("n"), pos("t2")}),
            inst("g_p", "g", {pos("p2")}, {}, {}),
            inst("q_t", "q1", {}, {Ternary}, {pos("t2")}),
            inst("m_n", "m", {}, {}, {pos("n")}),
            inst("x_q", "x", {pos("q1"), neg("g")}, {}, {neg("n")}),
            inst("x_q", "y", {pos("q2"), neg("g")}, {}, {neg("m")}),
            inst("z_x", "z", {pos("p1"), neg("x")}, {}, {}) >>

engineInstance == DOMAIN Program
engineFact == {"p1", "p2", "q1", "q2", "n", "m", "t1", "t2", "g", "x", "y", "z"}
enginePredOf ==
    [f \in engineFact |->
        CASE f \in {"p1", "p2"} -> "p" [] f \in {"q1", "q2"} -> "q"
          [] f \in Ternary -> "t"      [] f \in {"x", "y"} -> "x"
          [] OTHER -> f]
enginePredicate == {enginePredOf[f] : f \in engineFact}
engineRule == {Program[i].rule : i \in engineInstance}
engineNullaryRule == {"m_n"}
engineStratumOf ==
    [rule \in engineRule |-> CASE rule = "x_q" -> 2 [] rule = "z_x" -> 3 [] OTHER -> 1]
engineLiteral == UNION {Program[i].graph \cup Program[i].late : i \in engineInstance}
engineAtom == [l \in engineLiteral |-> l[1]]
enginePositive == {l \in engineLiteral : l[2] = "+"}
engineNullaryLiteral == {l \in engineLiteral : l[1] \in {"n", "m"}}
engineRuleOf == [i \in engineInstance |-> Program[i].rule]
engineHeadOf == [i \in engineInstance |-> Program[i].head]
engineGraph == [i \in engineInstance |-> Program[i].graph]
engineLoose == [i \in engineInstance |-> Program[i].loose]
engineLate == [i \in engineInstance |-> Program[i].late]

\* Some rules are free, and the direct way to g costs more than any detour.
engineRuleCost ==
    [rule \in engineRule |-> CASE rule \in {"q_t", "m_n", "z_x"} -> 0
                             [] rule = "g_t" -> 2 [] rule = "g_p" -> 9 [] OTHER -> 1]
=============================================================================
