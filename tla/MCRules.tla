------------------------------ MODULE MCRules -------------------------------
(***************************************************************************)
(* What is done to rules, in four parts; part says which one a behaviour    *)
(* is about.                                                                *)
(*                                                                          *)
(* strata: the stratification of all programs of up to four rules with one  *)
(* body literal over three predicates, so every dependency graph with that  *)
(* many edges, parallel ones included, and of all pairs of rules with up to *)
(* two body literals. bindings: the new bindings of rules with none to four *)
(* parameters, with stored, static and implied edges, from any growing pair *)
(* of assignment sets. rule: whole rules with static, fluent and numeric    *)
(* conditions under growing facts and repeated solves. domains: the domain  *)
(* analysis of three tasks.                                                 *)
(***************************************************************************)
EXTENDS Stratification, ConsistencyGraph, Sequences, Bags, FiniteSetsExt

CONSTANT MaxIterations

VARIABLES part, found, prog, workspace, facts, pending, heads

ruleVars == <<prog, workspace, facts, pending, heads>>
allVars == <<part, strataVars, graphVars, found, ruleVars>>

mcPredicate == {"p", "q", "r"}

mcRules ==
    LET few == {{}} \cup {{v} : v \in mcPredicate}
    IN  {[head |-> h, pos |-> p, neg |-> n] : h \in mcPredicate, p \in few, n \in few}

mcPrograms ==
    LET single == {r \in mcRules : Cardinality(r.pos) + Cardinality(r.neg) = 1}
        pairs(R) == {{a, b} : a \in R, b \in R}
    IN  {{}} \cup pairs(mcRules) \cup {P \cup Q : P \in pairs(single), Q \in pairs(single)}

mcVertex == 1 .. 6

graph(parts, binary, missing, unaryRuntime, binaryRuntime) ==
    LET param == [v \in mcVertex |-> IF v > Len(parts) THEN 0 ELSE parts[v]]
    IN  [k |-> Max({0} \cup {param[v] : v \in mcVertex}),
         part |-> param,
         edges |-> {<<u, v>> \in mcVertex \X mcVertex : 0 < param[u] /\ param[u] < param[v]} \ missing,
         binary |-> binary, unaryRuntime |-> unaryRuntime, binaryRuntime |-> binaryRuntime]

NoParameters == graph(<<>>, {}, {}, {}, {})

mcStaticGraph == {
    NoParameters,
    graph(<<1, 1, 1>>, {}, {}, {1}, {}),
    graph(<<1, 1, 2, 2>>, {}, {}, {1, 2}, {}),
    graph(<<1, 1, 2, 2>>, {<<1, 2>>}, {<<1, 4>>}, {1}, {<<1, 2>>}),
    \* a parameter without any binding: there are edges and no cliques
    graph(<<1, 1, 3>>, {}, {}, {1}, {}),
    \* three parameters: implied, static and filtered pairs
    graph(<<1, 1, 2, 2, 3, 3>>, {<<2, 3>>}, {<<4, 6>>}, {1, 2}, {}),
    graph(<<1, 1, 2, 3, 3>>, {<<1, 2>>, <<1, 3>>}, {}, {2}, {<<1, 2>>, <<1, 3>>}),
    \* four parameters, the first or the last with more than one binding
    graph(<<1, 1, 2, 3, 4>>, {<<1, 4>>, <<2, 3>>}, {}, {2}, {<<1, 4>>, <<2, 3>>}),
    graph(<<1, 2, 3, 3, 4>>, {<<1, 2>>, <<3, 4>>}, {}, {1, 2, 3, 4}, {<<3, 4>>}),
    graph(<<1, 2, 3, 4, 4>>, {<<1, 2>>, <<1, 3>>, <<2, 4>>, <<3, 4>>}, {}, {4},
          {<<1, 2>>, <<2, 4>>, <<3, 4>>}) }

-----------------------------------------------------------------------------
(* Programs whose first rule has its literals and constraints spread over   *)
(* the vertices, the edges and the applicability check                      *)

X == <<"p", 1>>
Y == <<"p", 2>>
Z == <<"p", 3>>
C == <<"o", 1>>

lit(sort, sym, terms, pos) == [sym |-> sym, sort |-> sort, terms |-> terms, pos |-> pos]
Static(sym, terms) == lit("static", sym, terms, TRUE)
Fluent(sym, terms) == lit("fluent", sym, terms, TRUE)
Not(l) == [l EXCEPT !.pos = FALSE]
num(v) == [kind |-> "num", value |-> v]
val(sort, sym, terms) == [kind |-> "fterm", fterm |-> [sym |-> sym, sort |-> sort, terms |-> terms]]
op(kind, args) == [kind |-> kind, args |-> args]
con(o, lhs, rhs) == [op |-> o, lhs |-> lhs, rhs |-> rhs]
ruleOf(arity, literals, constraints, head) ==
    [arity |-> arity, literals |-> literals, constraints |-> constraints, head |-> head]

facts1(atoms, values) == [atoms |-> atoms, values |-> values]
NoFacts == facts1({}, {})

\* Objects of type t and static connections s, a static function c; the solves start
\* without and with fluent facts.
mcProgram(rules, starts, derivable) ==
    [objects |-> {1, 2, 3},
     static |-> facts1({<<"t", <<1>>>>, <<"t", <<2>>>>, <<"s", <<1, 2>>>>, <<"s", <<2, 2>>>>, <<"s", <<2, 1>>>>},
                       {<<"c", <<1>>, 1>>, <<"c", <<2>>, 3>>}),
     fluent |-> CHOOSE S \in starts : TRUE,
     rules |-> rules, starts |-> starts, derivable |-> derivable]

mcRulePrograms == {
    \* no parameters
    mcProgram(<<ruleOf(0, {Fluent("h", <<>>), Not(Fluent("f", <<C>>))},
                       {con(">=", val("fluent", "n", <<>>), num(1))}, Fluent("r", <<>>))>>,
              {NoFacts, facts1({<<"f", <<2>>>>}, {<<"n", <<>>, 1>>}), facts1({<<"f", <<1>>>>}, {<<"n", <<>>, 1>>})},
              {<<"h", <<>>>>}),
    \* one parameter: pairs with a constant are checked at the end
    mcProgram(<<ruleOf(1, {Static("t", <<X>>), Fluent("h", <<>>), Fluent("f", <<X>>), Not(Fluent("e", <<X, C>>)),
                           Fluent("g", <<X, C>>)}, {}, Fluent("r", <<X>>))>>,
              {NoFacts, facts1({<<"e", <<1, 1>>>>, <<"e", <<2, 2>>>>}, {})},
              {<<"h", <<>>>>, <<"f", <<1>>>>, <<"f", <<2>>>>, <<"f", <<3>>>>, <<"g", <<1, 1>>>>, <<"g", <<2, 1>>>>}),
    \* one parameter and constraints
    mcProgram(<<ruleOf(1, {Fluent("f", <<X>>)},
                       {con(">", op("+", <<val("static", "c", <<X>>), val("fluent", "v", <<X>>), num(1)>>),
                            op("-", <<val("fluent", "n", <<>>)>>)),
                        con("!=", val("fluent", "v", <<X>>), num(2))}, Fluent("r", <<X>>))>>,
              {facts1({}, {<<"v", <<1>>, -2>>, <<"v", <<2>>, 2>>, <<"n", <<>>, 0>>}),
               facts1({}, {<<"v", <<1>>, 0>>, <<"v", <<2>>, -5>>, <<"v", <<3>>, 9>>, <<"n", <<>>, -1>>})},
              {<<"f", <<1>>>>, <<"f", <<2>>>>, <<"f", <<3>>>>}),
    \* two parameters, a fact outside the domains, a pending nullary literal
    mcProgram(<<ruleOf(2, {Static("s", <<X, Y>>), Fluent("g", <<X, Y>>), Not(Fluent("f", <<Y>>)), Fluent("h", <<>>)},
                       {}, Fluent("r", <<Y>>)),
                ruleOf(1, {Static("t", <<X>>)}, {}, Fluent("f", <<X>>))>>,
              {NoFacts, facts1({<<"f", <<1>>>>, <<"f", <<3>>>>}, {})},
              {<<"h", <<>>>>, <<"g", <<1, 2>>>>, <<"g", <<2, 1>>>>, <<"g", <<2, 3>>>>, <<"g", <<3, 2>>>>}),
    \* two parameters, negated pairs and a comparison of pairs
    mcProgram(<<ruleOf(2, {Static("t", <<X>>), Fluent("f", <<Y>>), Not(Fluent("e", <<Y, X>>)), Not(Static("s", <<X, Y>>))},
                       {con("<=", op("*", <<val("fluent", "v", <<X>>), val("fluent", "v", <<Y>>)>>),
                            val("fluent", "w", <<X, Y>>))}, Fluent("r", <<X, Y>>))>>,
              {facts1({<<"e", <<1, 2>>>>}, {<<"v", <<1>>, 1>>, <<"v", <<2>>, -1>>, <<"w", <<1, 1>>, 1>>,
                                            <<"w", <<1, 2>>, 0>>, <<"w", <<2, 1>>, -2>>, <<"w", <<2, 2>>, 1>>}),
               facts1({<<"e", <<1, 1>>>>}, {<<"v", <<1>>, 0>>, <<"v", <<3>>, 2>>, <<"w", <<1, 1>>, 0>>,
                                            <<"w", <<1, 3>>, 0>>})},
              {<<"f", <<1>>>>, <<"f", <<2>>>>, <<"f", <<3>>>>}),
    \* three parameters: projections of a ternary literal, the rest at the check
    mcProgram(<<ruleOf(3, {Static("t", <<X>>), Static("t", <<Y>>), Static("t", <<Z>>), Fluent("k", <<X, Y, Z>>),
                           Not(Fluent("m", <<Z, C, X>>)), Fluent("g", <<Y, Z>>)}, {}, Fluent("r", <<X, Z>>))>>,
              {NoFacts, facts1({<<"m", <<2, 1, 1>>>>}, {})},
              {<<"k", <<1, 2, 2>>>>, <<"k", <<1, 1, 2>>>>, <<"k", <<2, 2, 1>>>>, <<"g", <<2, 2>>>>, <<"g", <<2, 1>>>>}) }

(* Tasks with typed, numeric and derived conditions, constants, universal   *)
(* effects                                                                  *)

Derive(sym, terms) == lit("derived", sym, terms, TRUE)
cond(literals, constraints) == [literals |-> literals, constraints |-> constraints]
effect(arity, c, literals, numeric) == [arity |-> arity, condition |-> c, literals |-> literals, numeric |-> numeric]
action(arity, c, effects) == [arity |-> arity, condition |-> c, effects |-> effects]
assign(sym, terms, e) == [fterm |-> [sym |-> sym, sort |-> "fluent", terms |-> terms], expression |-> e]
D == <<"o", 3>>

mcDomainTask(atoms, values, actions, axioms) ==
    [objects |-> {1, 2, 3},
     static |-> facts1({<<"t", <<1>>>>, <<"t", <<2>>>>, <<"s", <<1, 2>>>>, <<"s", <<2, 3>>>>, <<"s", <<3, 1>>>>},
                       {<<"c", <<1>>, 1>>, <<"c", <<2>>, 3>>}),
     fluent |-> facts1(atoms, values), actions |-> actions, axioms |-> axioms]

mcDomainTasks == {
    \* move along s, from t only; mark a constant
    mcDomainTask({<<"at", <<1, 1>>>>, <<"at", <<2, 2>>>>}, {},
        {action(3, cond({Static("t", <<X>>), Static("s", <<Y, Z>>), Fluent("at", <<X, Y>>), Not(Static("s", <<X, Z>>))}, {}),
                {effect(0, cond({}, {}), {Not(Fluent("at", <<X, Y>>)), Fluent("at", <<X, Z>>)}, {})}),
         action(1, cond({Fluent("at", <<X, D>>)}, {}),
                {effect(0, cond({Fluent("at", <<D, C>>)}, {}), {Fluent("lost", <<>>)}, {}),
                 effect(0, cond({}, {}), {Fluent("at", <<D, D>>), Fluent("seen", <<X>>)}, {})})},
        {}),
    \* an effect for all y, bounded by a static literal or by nothing; values
    mcDomainTask({<<"f", <<1>>>>, <<"g", <<2>>>>}, {<<"v", <<1>>, 0>>},
        {action(1, cond({}, {con(">", val("static", "c", <<X>>), num(0))}),
                {effect(1, cond({Static("t", <<Y>>), Fluent("f", <<X>>)}, {}), {Not(Fluent("g", <<Y>>)), Fluent("h", <<X, Y>>)}, {}),
                 effect(1, cond({Fluent("g", <<Y>>)}, {}), {Fluent("f", <<Y>>), Not(Fluent("g", <<Y>>))},
                        {assign("v", <<Y>>, val("static", "c", <<X>>))})}),
         action(1, cond({Fluent("f", <<X>>)}, {}),
                {effect(0, cond({}, {con("=", val("fluent", "v", <<C>>), num(0))}), {Fluent("g", <<D>>)}, {}),
                 effect(0, cond({Fluent("g", <<X>>)}, {}), {Not(Fluent("f", <<X>>)), Fluent("g", <<X>>)}, {})})},
        {}),
    \* axioms over what the actions change
    mcDomainTask({<<"g", <<2>>>>}, {},
        {action(1, cond({Static("t", <<X>>), Derive("r", <<X, X>>)}, {}),
                {effect(1, cond({Static("s", <<X, Y>>)}, {}), {Fluent("g", <<Y>>)}, {}),
                 effect(0, cond({Derive("r", <<X, C>>)}, {}), {Not(Fluent("g", <<X>>)), Fluent("k", <<X>>)}, {})})},
        {ruleOf(2, {Static("s", <<X, Y>>), Fluent("g", <<Y>>)}, {}, Derive("r", <<X, Y>>)),
         ruleOf(2, {Derive("r", <<X, Y>>), Not(Fluent("k", <<Y>>))}, {}, Derive("r", <<Y, Y>>)),
         ruleOf(0, {Derive("r", <<C, D>>)}, {}, Derive("q", <<>>))}) }

-----------------------------------------------------------------------------

\* Of W only the constant part is used, for the graphs of R.
W == INSTANCE RuleEvaluation WITH RulePrograms <- {}, StaticGraph <- {}

mcGraphs == mcStaticGraph \cup {W!StaticGraphOf(P) : P \in mcRulePrograms}

R == INSTANCE RuleEvaluation WITH RulePrograms <- mcRulePrograms

T == INSTANCE TaskDomains WITH DomainTasks <- mcDomainTasks

NoRule == prog = <<>> /\ workspace = <<>> /\ facts = NoFacts /\ pending = {} /\ heads = {}

MCInit ==
    \/ part = "strata" /\ StrataInit /\ R!Init /\ static = NoParameters /\ NoRule
    \/ part = "bindings" /\ R!Init /\ static \in mcStaticGraph /\ StrataInit /\ program = {} /\ NoRule
    \/ part = "rule" /\ R!EvaluationInit /\ StrataInit /\ program = {}
    \/ /\ part = "domains" /\ T!DomainsInit /\ StrataInit /\ program = {}
       /\ R!Init /\ static = NoParameters /\ pending = {} /\ heads = {}

StrataStep == part = "strata" /\ StrataNext /\ UNCHANGED <<part, graphVars, found, ruleVars>>
BindingsStep == part = "bindings" /\ R!Next /\ UNCHANGED <<part, strataVars, ruleVars>>
RuleStep == part = "rule" /\ R!EvaluationNext /\ UNCHANGED <<part, strataVars>>
DomainsStep == part = "domains" /\ T!DomainsNext /\ UNCHANGED <<part, strataVars, graphVars, found, pending, heads>>

MCSpec == MCInit /\ [][StrataStep \/ BindingsStep \/ RuleStep \/ DomainsStep]_allVars

\* Each new binding is enumerated once, see RuleEvaluation.
NewCliquesOnce == R!NewCliquesOnce

\* A rule finds the heads of exactly the bindings that satisfy its body, see
\* RuleEvaluation.
HeadsExact == part = "rule" => R!HeadsExact

\* The domains of a task exclude nothing reachable, see TaskDomains.
DomainsSuffice == part = "domains" => T!DomainsSuffice
=============================================================================
