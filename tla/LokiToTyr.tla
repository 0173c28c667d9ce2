---- MODULE LokiToTyr ----
(***************************************************************************)
(* LokiToTyrTranslator: a parsed domain or problem becomes symbols of a    *)
(* repository.  The parser and its syntax tree are external; the tree is   *)
(* modelled by the getters the translator calls, as records with a tag t.  *)
(*                                                                         *)
(* A translation call threads the state of the translator: the heap of     *)
(* repositories, the repository dst it writes, the parameters in scope,    *)
(* the names found by prepare, the finite-domain variables of the task     *)
(* being translated, and whether an exception left the translator.         *)
(***************************************************************************)
EXTENDS PlanningTypes, TLC

Translator(R, dst) ==
    [R |-> R, src |-> NoRepository, dst |-> dst, ret |-> None, thrown |-> FALSE, param_map |-> <<>>,
     fluent_predicates |-> {}, derived_predicates |-> {}, effect_function_skeletons |-> {},
     variables |-> <<>>, mapping |-> <<>>]

\* An exception leaves the translator; what was interned before it is never read.
Throw(S) == [S EXCEPT !.thrown = TRUE, !.ret = None]

(***************************************************************************)
(* prepare: which predicates and functions change, and which inputs are    *)
(* refused before anything is translated.                                  *)
(***************************************************************************)

ConjunctsOf(x) == IF x.t = "and" THEN x.parts ELSE <<x>>

\* The effect below one forall and one when.
WithoutForall(e) == IF e.t = "forall" THEN e.effect ELSE e
SimpleEffect(e) ==
    IF WithoutForall(e).t = "when" THEN WithoutForall(e).effect ELSE WithoutForall(e)

\* A condition is a literal or a conjunction of literals and numeric constraints; a single
\* numeric constraint is refused.
PreparedCondition(c) ==
    \/ c.t = "literal"
    \/ c.t = "and" /\ \A i \in DOMAIN c.parts : c.parts[i].t \in {"literal", "numeric"}

\* The guard of a conditional effect has no numeric constraint in a conjunction.
PreparedEffect(e) ==
    \A i \in DOMAIN ConjunctsOf(e) :
        LET x == ConjunctsOf(e)[i]
            w == WithoutForall(x)
        IN  /\ w.t = "when" /\ w.condition.t = "and" =>
                 \A j \in DOMAIN w.condition.parts : w.condition.parts[j].t = "literal"
            /\ SimpleEffect(x).t \in {"literal", "numeric"}

\* Optional members of the tree are sequences of at most one element.
PreparedAction(a) ==
    /\ \A i \in DOMAIN a.condition : PreparedCondition(a.condition[i])
    /\ \A i \in DOMAIN a.effect : PreparedEffect(a.effect[i])

SimpleEffectsOf(a) ==
    UNION {{SimpleEffect(x) : x \in ToSet(ConjunctsOf(a.effect[i]))} : i \in DOMAIN a.effect}

PrepareDomain(S, domain) ==
    LET simple == UNION {SimpleEffectsOf(a) : a \in ToSet(domain.actions)}
    IN  [S EXCEPT
            !.thrown = @ \/ ~(/\ \A a \in ToSet(domain.actions) : PreparedAction(a)
                              /\ \A x \in ToSet(domain.axioms) : PreparedCondition(x.condition)),
            !.fluent_predicates =
                @ \cup {e.literal.atom.predicate.name : e \in {y \in simple : y.t = "literal"}},
            !.effect_function_skeletons =
                @ \cup {e.function.skeleton.name : e \in {y \in simple : y.t = "numeric"}},
            !.derived_predicates =
                @ \cup {x.literal.atom.predicate.name : x \in ToSet(domain.axioms)}]

\* The problem is prepared with its domain: its own predicates are all derived.
PrepareProblem(S, problem, domain) ==
    LET T == PrepareDomain(S, domain)
    IN  [T EXCEPT
            !.thrown = @ \/ ~(/\ \A i \in DOMAIN problem.goal : PreparedCondition(problem.goal[i])
                              /\ \A x \in ToSet(problem.axioms) : PreparedCondition(x.condition)),
            !.derived_predicates =
                @ \cup {x.literal.atom.predicate.name : x \in ToSet(problem.axioms)}
                  \cup {p.name : p \in ToSet(problem.predicates)}]

(***************************************************************************)
(* Parameters in scope.  A variable is emplaced with the number of those   *)
(* already there: the universal parameters of an effect follow those of    *)
(* its action.                                                             *)
(***************************************************************************)

PushParameters(S, variables) ==
    LET Emplace(map, v) ==
            IF v \in DOMAIN map THEN map ELSE map @@ (v :> Cardinality(DOMAIN map))
    IN  [S EXCEPT !.param_map = FoldLeft(Emplace, @, variables)]

\* Mutant: the parameters stay in scope.
PopParametersKeeps(S, variables) == S

PopParameters(S, variables) ==
    [S EXCEPT !.param_map = [v \in DOMAIN @ \ ToSet(variables) |-> @[v]]]

LookupParameterIndex(S, variable) ==
    IF variable \in DOMAIN S.param_map
    THEN Return(S, ParameterTerm(S.param_map[variable])) ELSE Throw(S)

(***************************************************************************)
(* Common translations.                                                    *)
(***************************************************************************)

FunctionKind(S, name) ==
    IF name = "total-cost" THEN "auxiliary"
    ELSE IF name \in S.effect_function_skeletons THEN "fluent" ELSE "static"

PredicateKind(S, name) ==
    IF name \in S.derived_predicates THEN "derived"
    ELSE IF name \in S.fluent_predicates THEN "fluent" ELSE "static"

TranslateFunctionSkeleton(S, f) == Create(S, FunctionData(FunctionKind(S, f.name), f.name, f.arity))

TranslateObject(S, name) == Create(S, ObjectData(name))

TranslatePredicate(S, p) == Create(S, PredicateData(PredicateKind(S, p.name), p.name, p.arity))

TranslateVariable(S, name) == Create(S, VariableData(name))

ToBinding(S, relation, objects) == Intern(S, RelationBindingData(relation, objects))

(***************************************************************************)
(* Lifted translations.                                                    *)
(***************************************************************************)

ParameterOf(v) == LookupParameterIndex(v, v.ret)

TranslateTerm(S, term) ==
    IF term.t = "object" THEN TranslateObject(S, term.name)
    ELSE ParameterOf(TranslateVariable(S, term.name))

TranslateAtomTerms(p, terms) == NewAtom(Each(TranslateTerm, p, terms), p.ret)

TranslateAtom(S, atom) == TranslateAtomTerms(TranslatePredicate(S, atom.predicate), atom.terms)

TranslateLiteral(S, literal) == NewLiteral(TranslateAtom(S, literal.atom), literal.polarity)

TranslateFunctionTerms(f, terms) == NewFunctionTerm(Each(TranslateTerm, f, terms), f.ret)

TranslateFunction(S, function) ==
    TranslateFunctionTerms(TranslateFunctionSkeleton(S, function.skeleton), function.terms)

RECURSIVE TranslateFunctionExpression(_, _)

TranslateBinaryOperator(S, x) ==
    NewBinaryOperator(Each(TranslateFunctionExpression, S, <<x.lhs, x.rhs>>), x.op, "lifted")

TranslateMultiOperator(S, x) ==
    NewMultiOperator(Each(TranslateFunctionExpression, S, x.args), x.op, "lifted")

TranslateMinus(S, x) ==
    NewUnaryOperator(TranslateFunctionExpression(S, x.arg), "sub", "lifted")

\* total-cost may be increased, never read.
OperandOf(f) == IF f.ret.k[2] = "auxiliary" THEN Throw(f) ELSE f

TranslateFunctionOperand(S, x) == OperandOf(TranslateFunction(S, x.function))

TranslateFunctionExpression(S, x) ==
    CASE x.t = "number" -> Return(S, Float(x.value))
      [] x.t = "binary" -> TranslateBinaryOperator(S, x)
      [] x.t = "multi" -> TranslateMultiOperator(S, x)
      [] x.t = "minus" -> TranslateMinus(S, x)
      [] x.t = "function" -> TranslateFunctionOperand(S, x)

TranslateNumericConstraint(S, c) == TranslateBinaryOperator(S, c)

TranslateConditionPart(S, part) ==
    CASE part.t = "literal" -> TranslateLiteral(S, part.literal)
      [] part.t = "numeric" -> TranslateNumericConstraint(S, part)
      [] OTHER -> Throw(S)

OfKey(list, key) == SelectSeq(list, LAMBDA h : h.k[1] = key[1] /\ h.k[2] = key[2])
Constraints(list) == SelectSeq(list, LAMBDA h : h.k[1] = "Binary")

ConditionOf(parts, parameters) ==
    NewConjunctiveCondition(Return(parts,
        <<parameters, OfKey(parts.ret, <<"Literal", "static">>), OfKey(parts.ret, <<"Literal", "fluent">>),
          OfKey(parts.ret, <<"Literal", "derived">>), Constraints(parts.ret)>>))

TranslateCondition(S, c, parameters) ==
    ConditionOf(Each(TranslateConditionPart, S, ConjunctsOf(c)), parameters)

\* The empty condition is one symbol: it has no variables, whatever is in scope.
EmptyCondition(S) == Create(S, ConjunctiveConditionData(<<>>, <<>>, <<>>, <<>>, <<>>))

EffectNumericOf(x, fterm, op) ==
    IF fterm.k[2] = "static" \/ (fterm.k[2] = "auxiliary" /\ op # "increase") THEN Throw(x)
    ELSE NewNumericEffect(Return(x, <<fterm, x.ret>>), op)

EffectNumericTerm(f, e) == EffectNumericOf(TranslateFunctionExpression(f, e.expression), f.ret, e.op)

TranslateEffectNumeric(S, e) == EffectNumericTerm(TranslateFunction(S, e.function), e)

\* An effect literal is fluent.
FluentLiteral(l) == IF l.ret.k = <<"Literal", "fluent">> THEN l ELSE Throw(l)

TranslateSimpleEffect(S, e) ==
    CASE e.t = "literal" -> FluentLiteral(TranslateLiteral(S, e.literal))
      [] e.t = "numeric" -> TranslateEffectNumeric(S, e)
      [] OTHER -> Throw(S)

TranslateGuard(S, e, parameters) ==
    IF e.t = "when" THEN TranslateCondition(S, e.condition, parameters) ELSE EmptyCondition(S)

EffectPartOf(effect, guard, variables) ==
    Return(PopParameters(effect, variables),
           [guard |-> guard, variables |-> variables, effect |-> effect.ret])

GuardedEffect(guard, e, variables) ==
    EffectPartOf(TranslateSimpleEffect(guard, SimpleEffect(e)), guard.ret, variables)

QuantifiedEffect(vs, e, parameters) ==
    GuardedEffect(TranslateGuard(PushParameters(vs, vs.ret), WithoutForall(e), parameters \o vs.ret),
                  e, vs.ret)

\* One conjunct of an effect: its result is the guard, the universal variables and the
\* literal or numeric effect.
TranslateEffectPart(S, e, parameters) ==
    QuantifiedEffect(Each(TranslateVariable, S, IF e.t = "forall" THEN e.parameters ELSE <<>>),
                     e, parameters)

\* The effects with one guard become one conditional effect.  Its variables are the first
\* universal variables met with that guard; total-cost is increased by the last of them.
EffectsOfGuard(parts, guard) ==
    LET mine == SelectSeq(parts, LAMBDA p : p.guard = guard)
        effects == [i \in DOMAIN mine |-> mine[i].effect]
        quantified == SelectSeq(mine, LAMBDA p : p.variables # <<>>)
        Auxiliary(h) == h.k[1] = "NumericEffect" /\ h.k[3] = "auxiliary"
        Fluent(h) == h.k[1] = "NumericEffect" /\ h.k[3] = "fluent"
        costs == SelectSeq(effects, Auxiliary)
    IN  [variables |-> IF quantified = <<>> THEN <<>> ELSE quantified[1].variables,
         literals |-> SelectSeq(effects, LAMBDA h : h.k[1] = "Literal"),
         numeric |-> SelectSeq(effects, Fluent),
         auxiliary |-> IF costs = <<>> THEN None ELSE costs[Len(costs)]]

ConditionalEffectOf(e, data) == Create(e, ConditionalEffectData(data.variables, data.guard, e.ret))

CreateConditionalEffect(S, data) ==
    ConditionalEffectOf(
        Create(S, ConjunctiveEffectData(data.literals, data.numeric, data.auxiliary)), data)

GroupByGuard(parts) ==
    LET guards == CanonicalList([i \in DOMAIN parts |-> parts[i].guard])
    IN  [i \in DOMAIN guards |-> EffectsOfGuard(parts, guards[i]) @@ [guard |-> guards[i]]]

EffectsOf(parts) == Each(CreateConditionalEffect, parts, GroupByGuard(parts.ret))

TranslateEffect(S, e, parameters) ==
    LET Part(T, x) == TranslateEffectPart(T, x, parameters) IN EffectsOf(Each(Part, S, ConjunctsOf(e)))

ActionOf(es, a, variables, condition) ==
    Create(PopParameters(es, variables),
           ActionData(a.name, a.original_arity, variables, condition, es.ret))

ActionEffects(c, a, variables) ==
    ActionOf(IF a.effect = <<>> THEN Return(c, <<>>) ELSE TranslateEffect(c, a.effect[1], variables),
             a, variables, c.ret)

ActionCondition(S, a, variables) ==
    ActionEffects(IF a.condition = <<>> THEN EmptyCondition(S)
                  ELSE TranslateCondition(S, a.condition[1], variables),
                  a, variables)

ActionParameters(vs, a) == ActionCondition(PushParameters(vs, vs.ret), a, vs.ret)

TranslateAction(S, a) == ActionParameters(Each(TranslateVariable, S, a.parameters), a)

AxiomOf(head, variables, body) ==
    IF head.ret.k # <<"Literal", "derived">> THEN Throw(PopParameters(head, variables))
    ELSE Create(PopParameters(head, variables),
                AxiomData(variables, body, At(head.R, head.dst, head.ret).atom))

AxiomHead(body, x, variables) == AxiomOf(TranslateLiteral(body, x.literal), variables, body.ret)

AxiomParameters(vs, x) ==
    AxiomHead(TranslateCondition(PushParameters(vs, vs.ret), x.condition, vs.ret), x, vs.ret)

TranslateAxiom(S, x) == AxiomParameters(Each(TranslateVariable, S, x.parameters), x)

(***************************************************************************)
(* Grounded translations.                                                  *)
(***************************************************************************)

TranslateGroundTerm(S, term) == IF term.t = "object" THEN TranslateObject(S, term.name) ELSE Throw(S)

\* The tuple of the objects, as a row of the relation.
RowOf(os, relation) == ToBinding(os, relation, os.ret)

GroundRow(p, terms) == RowOf(Each(TranslateGroundTerm, p, terms), p.ret)

TranslateGroundAtom(S, atom) ==
    NewGroundAtom(GroundRow(TranslatePredicate(S, atom.predicate), atom.terms))

TranslateGroundLiteral(S, literal) ==
    NewGroundLiteral(TranslateGroundAtom(S, literal.atom), literal.polarity)

\* A fluent literal is a fact of the finite-domain context with a polarity.
WithPolarity(f, polarity) ==
    Return(f, [k |-> <<"Fact", IF polarity THEN "positive" ELSE "negative">>, n |-> 0, fact |-> f.ret])

LiteralOrFact(l, polarity) ==
    IF l.ret.k[2] # "fluent" THEN l
    ELSE WithPolarity(GetFact(l, At(l.R, l.dst, l.ret).atom), polarity)

TranslateGroundLiteralOrFact(S, literal) ==
    LiteralOrFact(TranslateGroundLiteral(S, literal), literal.polarity)

TranslateGroundFunction(S, function) ==
    NewGroundFunctionTerm(GroundRow(TranslateFunctionSkeleton(S, function.skeleton), function.terms))

RECURSIVE TranslateGroundFunctionExpression(_, _)

TranslateGroundBinaryOperator(S, x) ==
    NewBinaryOperator(Each(TranslateGroundFunctionExpression, S, <<x.lhs, x.rhs>>), x.op, "ground")

TranslateGroundMultiOperator(S, x) ==
    NewMultiOperator(Each(TranslateGroundFunctionExpression, S, x.args), x.op, "ground")

TranslateGroundMinus(S, x) ==
    NewUnaryOperator(TranslateGroundFunctionExpression(S, x.arg), "sub", "ground")

TranslateGroundFunctionExpression(S, x) ==
    CASE x.t = "number" -> Return(S, Float(x.value))
      [] x.t = "binary" -> TranslateGroundBinaryOperator(S, x)
      [] x.t = "multi" -> TranslateGroundMultiOperator(S, x)
      [] x.t = "minus" -> TranslateGroundMinus(S, x)
      [] x.t = "function" -> TranslateGroundFunction(S, x.function)

TranslateFunctionValue(S, value) ==
    NewGroundFunctionTermValue(TranslateGroundFunction(S, value.function), value.number)

\* An inequality has no ground counterpart.
TranslateGroundNumericConstraint(S, c) ==
    IF c.op = "ne" THEN Throw(S) ELSE TranslateGroundBinaryOperator(S, c)

TranslateGroundConditionPart(S, part) ==
    CASE part.t = "literal" -> TranslateGroundLiteralOrFact(S, part.literal)
      [] part.t = "numeric" -> TranslateGroundNumericConstraint(S, part)
      [] OTHER -> Throw(S)

FactsIn(list) == [i \in DOMAIN list |-> list[i].fact]

FactsOf(list, polarity) == FactsIn(OfKey(list, <<"Fact", polarity>>))

CreateGroundCondition(S, parts) ==
    Create(S, GroundConjunctiveConditionData(
                  OfKey(parts, <<"GroundLiteral", "static">>),
                  OfKey(parts, <<"GroundLiteral", "derived">>),
                  FactsOf(parts, "positive"), FactsOf(parts, "negative"), Constraints(parts)))

GroundConditionOf(parts) == CreateGroundCondition(parts, parts.ret)

TranslateGroundCondition(S, c) ==
    GroundConditionOf(Each(TranslateGroundConditionPart, S, ConjunctsOf(c)))

MetricOf(x, objective) == Create(x, MetricData(objective, x.ret))

TranslateMetric(S, m) == MetricOf(TranslateGroundFunctionExpression(S, m.expression), m.objective)

(***************************************************************************)
(* translate of a domain and of a problem.                                 *)
(***************************************************************************)

ByKind(list, type, kinds) == [kind \in kinds |-> OfKey(list, <<type, kind>>)]

LastOf(list) == IF list = <<>> THEN None ELSE list[Len(list)]

\* A member of the domain; its lists are translated in this order.
TranslateDomainList(S, list) ==
    LET Element(T, x) ==
            CASE list[1] = "constants" -> TranslateObject(T, x)
              [] list[1] = "predicates" -> TranslatePredicate(T, x)
              [] list[1] = "functions" -> TranslateFunctionSkeleton(T, x)
              [] list[1] = "actions" -> TranslateAction(T, x)
              [] list[1] = "axioms" -> TranslateAxiom(T, x)
    IN  Each(Element, S, list[2])

DomainOf(S, name) ==
    Create(S, DomainData(name,
        ByKind(S.ret[2], "Predicate", {"static", "fluent", "derived"}),
        ByKind(S.ret[3], "Function", {"static", "fluent"}),
        LastOf(OfKey(S.ret[3], <<"Function", "auxiliary">>)), S.ret[1], S.ret[4], S.ret[5]))

TranslatePrepared(S, domain) ==
    IF S.thrown THEN S
    ELSE DomainOf(Each(TranslateDomainList, S,
                       <<<<"constants", domain.constants>>, <<"predicates", domain.predicates>>,
                         <<"functions", domain.functions>>, <<"actions", domain.actions>>,
                         <<"axioms", domain.axioms>>>>),
                  domain.name)

TranslateDomain(S, domain) == TranslatePrepared(PrepareDomain(S, domain), domain)

\* func_insert_ground_atom: the polarity of an initial literal is not looked at; a derived
\* one is refused.
AtomOf(l) ==
    CASE l.ret.k = <<"GroundLiteral", "static">> -> Return(l, At(l.R, l.dst, l.ret).atom)
      [] l.ret.k[1] = "Fact" -> Return(l, At(l.R, l.dst, l.ret.fact.variable).atoms[l.ret.fact.value])
      [] OTHER -> Throw(l)

InitialAtom(S, literal) == AtomOf(TranslateGroundLiteralOrFact(S, literal))

TranslateGoal(S, goal) ==
    IF goal = <<>> THEN CreateGroundCondition(S, <<>>) ELSE TranslateGroundCondition(S, goal[1])

\* A member of the problem; its lists are translated in this order.  The goal and the metric
\* are lists of at most one element.
TranslateProblemList(S, list) ==
    LET Element(T, x) ==
            CASE list[1] = "objects" -> TranslateObject(T, x)
              [] list[1] = "predicates" -> TranslatePredicate(T, x)
              [] list[1] = "initial_literals" -> InitialAtom(T, x)
              [] list[1] = "initial_values" -> TranslateFunctionValue(T, x)
              [] list[1] = "goal" -> TranslateGoal(T, x)
              [] list[1] = "metric" -> TranslateMetric(T, x)
              [] list[1] = "axioms" -> TranslateAxiom(T, x)
    IN  Each(Element, S, list[2])

TaskOf(S, name, domain_handle) ==
    Create(S, TaskData(name, domain_handle, S.ret[2], S.ret[1],
        ByKind(S.ret[3], "GroundAtom", {"static", "fluent"}),
        ByKind(S.ret[4], "GroundFunctionTermValue", {"static", "fluent"}),
        LastOf(OfKey(S.ret[4], <<"GroundFunctionTermValue", "auxiliary">>)),
        S.ret[5][1], LastOf(S.ret[6]), S.ret[7]))

TranslatePreparedProblem(S, problem, domain_handle) ==
    IF S.thrown THEN S
    ELSE TaskOf(Each(TranslateProblemList, S,
                     <<<<"objects", problem.objects>>, <<"predicates", problem.predicates>>,
                       <<"initial_literals", problem.initial_literals>>,
                       <<"initial_values", problem.initial_values>>, <<"goal", <<problem.goal>>>>,
                       <<"metric", problem.metric>>, <<"axioms", problem.axioms>>>>),
                problem.name, domain_handle)

\* The repository of a task is a child of that of its domain; it has its own context of
\* finite-domain variables.  A predicate of the problem is derived.
TaskContext(S) ==
    [S EXCEPT !.R = CreateRepository(@, S.dst), !.dst = Len(S.R) + 1, !.variables = <<>>, !.mapping = <<>>]

TranslateProblem(S, problem, domain, domain_handle) ==
    TranslatePreparedProblem(PrepareProblem(TaskContext(S), problem, domain), problem, domain_handle)
====
