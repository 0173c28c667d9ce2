---- MODULE PlanningTypes ----
(***************************************************************************)
(* The symbols of the planning formalism: the members of the data, their   *)
(* canonical form, and what a view reads through a handle.  Lists that the *)
(* code keeps canonical are read as sets: their order is that of the       *)
(* indices, which differ from repository to repository.                    *)
(***************************************************************************)
EXTENDS Repositories, TLC

(***************************************************************************)
(* Atoms and numeric expressions.  "lifted" and "ground" operators are     *)
(* different types in the code, with the same members.                     *)
(***************************************************************************)

AtomData(kind, predicate, terms) ==
    [k |-> <<"Atom", kind>>, predicate |-> predicate, terms |-> terms]

LiteralData(kind, atom, polarity) ==
    [k |-> <<"Literal", kind>>, atom |-> atom, polarity |-> polarity]

FunctionTermData(kind, function, terms) ==
    [k |-> <<"FunctionTerm", kind>>, function |-> function, terms |-> terms]

GroundAtomData(kind, binding) == [k |-> <<"GroundAtom", kind>>, binding |-> binding]

GroundLiteralData(kind, atom, polarity) ==
    [k |-> <<"GroundLiteral", kind>>, atom |-> atom, polarity |-> polarity]

GroundFunctionTermData(kind, binding) == [k |-> <<"GroundFunctionTerm", kind>>, binding |-> binding]

GroundFunctionTermValueData(kind, fterm, value) ==
    [k |-> <<"GroundFunctionTermValue", kind>>, fterm |-> fterm, value |-> value]

UnaryOperatorData(op, side, arg) == [k |-> <<"Unary", op, side>>, arg |-> arg]

BinaryOperatorData(op, side, lhs, rhs) ==
    [k |-> <<"Binary", op, side>>, lhs |-> lhs, rhs |-> rhs]

MultiOperatorData(op, side, args) == [k |-> <<"Multi", op, side>>, args |-> args]

NumericEffectData(op, kind, fterm, fexpr) ==
    [k |-> <<"NumericEffect", op, kind>>, fterm |-> fterm, fexpr |-> fexpr]

GroundNumericEffectData(op, kind, fterm, fexpr) ==
    [k |-> <<"GroundNumericEffect", op, kind>>, fterm |-> fterm, fexpr |-> fexpr]

(***************************************************************************)
(* Conditions, effects, actions and axioms.                                *)
(***************************************************************************)

ConjunctiveConditionData(variables, static, fluent, derived, constraints) ==
    [k |-> <<"ConjunctiveCondition">>, variables |-> variables, static_literals |-> static,
     fluent_literals |-> fluent, derived_literals |-> derived, numeric_constraints |-> constraints]

ConjunctiveEffectData(literals, numeric_effects, auxiliary) ==
    [k |-> <<"ConjunctiveEffect">>, literals |-> literals, numeric_effects |-> numeric_effects,
     auxiliary_numeric_effect |-> auxiliary]

ConditionalEffectData(variables, condition, effect) ==
    [k |-> <<"ConditionalEffect">>, variables |-> variables, condition |-> condition,
     effect |-> effect]

ActionData(name, original_arity, variables, condition, effects) ==
    [k |-> <<"Action">>, name |-> name, original_arity |-> original_arity,
     variables |-> variables, condition |-> condition, effects |-> effects]

AxiomData(variables, body, head) ==
    [k |-> <<"Axiom">>, variables |-> variables, body |-> body, head |-> head]

\* A value of a finite-domain variable is the position of its atom, 0 for none of them.
FDRVariableData(kind, atoms) == [k |-> <<"FDRVariable", kind>>, atoms |-> atoms]

FDRFactData(variable, value) == [variable |-> variable, value |-> value]

GroundConjunctiveConditionData(static, derived, positive, negative, constraints) ==
    [k |-> <<"GroundConjunctiveCondition">>, static_literals |-> static,
     derived_literals |-> derived, positive_facts |-> positive, negative_facts |-> negative,
     numeric_constraints |-> constraints]

GroundConjunctiveEffectData(add, del, numeric_effects, auxiliary) ==
    [k |-> <<"GroundConjunctiveEffect">>, add_facts |-> add, del_facts |-> del,
     numeric_effects |-> numeric_effects, auxiliary_numeric_effect |-> auxiliary]

GroundConditionalEffectData(condition, effect) ==
    [k |-> <<"GroundConditionalEffect">>, condition |-> condition, effect |-> effect]

GroundActionData(binding, condition, effects) ==
    [k |-> <<"GroundAction">>, binding |-> binding, condition |-> condition, effects |-> effects]

GroundAxiomData(binding, body, head) ==
    [k |-> <<"GroundAxiom">>, binding |-> binding, body |-> body, head |-> head]

MetricData(objective, fexpr) == [k |-> <<"Metric">>, objective |-> objective, fexpr |-> fexpr]

(***************************************************************************)
(* Domains and tasks.                                                      *)
(***************************************************************************)

DomainData(name, predicates, functions, auxiliary, constants, actions, axioms) ==
    [k |-> <<"Domain">>, name |-> name,
     static_predicates |-> predicates["static"], fluent_predicates |-> predicates["fluent"],
     derived_predicates |-> predicates["derived"],
     static_functions |-> functions["static"], fluent_functions |-> functions["fluent"],
     auxiliary_function |-> auxiliary, constants |-> constants, actions |-> actions,
     axioms |-> axioms]

TaskData(name, domain, derived, objects, atoms, values, total_cost, goal, metric, axioms) ==
    [k |-> <<"Task">>, name |-> name, domain |-> domain, derived_predicates |-> derived,
     objects |-> objects, static_atoms |-> atoms["static"], fluent_atoms |-> atoms["fluent"],
     static_fterm_values |-> values["static"], fluent_fterm_values |-> values["fluent"],
     auxiliary_fterm_value |-> total_cost, goal |-> goal, metric |-> metric, axioms |-> axioms]

(***************************************************************************)
(* Canonical data.  The lists named here are sorted without duplicates     *)
(* before get_or_create; the operands of a commutative operator likewise.  *)
(***************************************************************************)

CanonicalConditionLists ==
    {"static_literals", "fluent_literals", "derived_literals", "positive_facts", "negative_facts",
     "numeric_constraints"}

CanonicalEffectLists ==
    {"literals", "numeric_effects", "add_facts", "del_facts", "effects"}

CanonicalTaskLists ==
    {"static_predicates", "fluent_predicates", "derived_predicates", "static_functions",
     "fluent_functions", "constants", "objects", "static_atoms", "fluent_atoms",
     "static_fterm_values", "fluent_fterm_values", "actions", "axioms"}

WithOperands(d, pair) == [d EXCEPT !.lhs = pair[1], !.rhs = pair[2]]

CanonicalOperator(d) ==
    IF d.k[1] = "Multi" /\ d.k[2] \in ToSet(MultiOps) THEN [d EXCEPT !.args = CanonicalList(@)]
    ELSE IF d.k[1] = "Binary" /\ d.k[2] \in {"add", "mul"}
         THEN WithOperands(d, CanonicalPair(d.lhs, d.rhs))
    ELSE d

Canonicalize(d) ==
    IF d.k[1] \in {"Multi", "Binary"} THEN CanonicalOperator(d)
    ELSE IF IsRow(d.k) THEN d
    ELSE [f \in DOMAIN d |->
            IF f \in CanonicalConditionLists \cup CanonicalEffectLists \cup CanonicalTaskLists
            THEN CanonicalList(d[f]) ELSE d[f]]

Create(S, d) == Intern(S, Canonicalize(d))

(***************************************************************************)
(* Calls that make a symbol out of the results of the calls before.        *)
(***************************************************************************)

\* The last result is the list of terms.
NewAtom(ts, predicate) == Create(ts, AtomData(predicate.k[2], predicate, ts.ret))

NewFunctionTerm(ts, function) == Create(ts, FunctionTermData(function.k[2], function, ts.ret))

\* The last result is the binding.
NewGroundAtom(b) == Create(b, GroundAtomData(b.ret.k[2].k[2], b.ret))

NewGroundFunctionTerm(b) == Create(b, GroundFunctionTermData(b.ret.k[2].k[2], b.ret))

\* The last result is the atom or the function term.
NewLiteral(a, polarity) == Create(a, LiteralData(a.ret.k[2], a.ret, polarity))

NewGroundLiteral(a, polarity) == Create(a, GroundLiteralData(a.ret.k[2], a.ret, polarity))

NewGroundFunctionTermValue(f, value) ==
    Create(f, GroundFunctionTermValueData(f.ret.k[2], f.ret, value))

\* The last result is the operand or the list of operands.
NewUnaryOperator(arg, op, side) == Create(arg, UnaryOperatorData(op, side, arg.ret))

NewBinaryOperator(args, op, side) ==
    Create(args, BinaryOperatorData(op, side, args.ret[1], args.ret[2]))

NewMultiOperator(args, op, side) == Create(args, MultiOperatorData(op, side, args.ret))

\* The last result is the function term and the expression.
NewNumericEffect(fe, op) ==
    Create(fe, NumericEffectData(op, fe.ret[1].k[2], fe.ret[1], fe.ret[2]))

NewGroundNumericEffect(fe, op) ==
    Create(fe, GroundNumericEffectData(op, fe.ret[1].k[2], fe.ret[1], fe.ret[2]))

\* The last result is the list of the variables and of the literals and constraints.
NewConjunctiveCondition(c) ==
    Create(c, ConjunctiveConditionData(c.ret[1], c.ret[2], c.ret[3], c.ret[4], c.ret[5]))

(***************************************************************************)
(* FDRContext: the finite-domain variables of a task and the fact every    *)
(* fluent atom stands for.                                                 *)
(***************************************************************************)

\* FDRContext::get_fact: an atom without a variable gets a binary one.
NewFact(v, atom, fact) ==
    [v EXCEPT !.variables = Append(@, fact.variable), !.mapping = @ @@ (atom :> fact), !.ret = fact]

NewVariable(v, atom) == NewFact(v, atom, FDRFactData(v.ret, 1))

GetFact(S, atom) ==
    IF atom \in DOMAIN S.mapping THEN Return(S, S.mapping[atom])
    ELSE NewVariable(Create(S, FDRVariableData("fluent", <<atom>>)), atom)

(***************************************************************************)
(* Views of atoms and expressions.                                         *)
(***************************************************************************)

AtomView(R, r, h) ==
    LET d == At(R, r, h) IN <<RelationView(R, r, d.predicate), TermsView(R, r, d.terms)>>

LiteralView(R, r, h) ==
    LET d == At(R, r, h) IN <<AtomView(R, r, d.atom), d.polarity>>

ObjectTerms(names) == [i \in DOMAIN names |-> <<"object", names[i]>>]

GroundAtomView(R, r, h) ==
    LET d == At(R, r, h)
    IN  <<RelationView(R, r, d.binding.k[2]), ObjectTerms(BindingView(R, r, d.binding))>>

GroundLiteralView(R, r, h) ==
    LET d == At(R, r, h) IN <<GroundAtomView(R, r, d.atom), d.polarity>>

FunctionTermView(R, r, h) ==
    LET d == At(R, r, h)
    IN  <<"fterm", RelationView(R, r, d.function), TermsView(R, r, d.terms)>>

GroundFunctionTermView(R, r, h) ==
    LET d == At(R, r, h)
    IN  <<"fterm", RelationView(R, r, d.binding.k[2]), ObjectTerms(BindingView(R, r, d.binding))>>

GroundFunctionTermValueView(R, r, h) ==
    LET d == At(R, r, h) IN <<GroundFunctionTermView(R, r, d.fterm), d.value>>

\* FunctionExpression, GroundFunctionExpression, ArithmeticOperator and BooleanOperator are
\* variants: the handle is that of the alternative.
RECURSIVE FunctionExpressionView(_, _, _)

UnaryOperatorView(R, r, h) ==
    <<"unary", h.k[2], FunctionExpressionView(R, r, At(R, r, h).arg)>>

Operands(op, list) == IF op \in {"add", "mul"} THEN ToSet(list) ELSE list

BinaryOperatorView(R, r, h) ==
    LET d == At(R, r, h)
        operands == [i \in 1..2 |-> FunctionExpressionView(R, r, IF i = 1 THEN d.lhs ELSE d.rhs)]
    IN  <<"binary", h.k[2], Operands(h.k[2], operands)>>

MultiOperatorView(R, r, h) ==
    <<"multi", h.k[2], {FunctionExpressionView(R, r, x) : x \in ToSet(At(R, r, h).args)}>>

FunctionExpressionView(R, r, h) ==
    CASE h.k[1] = "Float" -> <<"float", h.n>>
      [] h.k[1] = "Unary" -> UnaryOperatorView(R, r, h)
      [] h.k[1] = "Binary" -> BinaryOperatorView(R, r, h)
      [] h.k[1] = "Multi" -> MultiOperatorView(R, r, h)
      [] h.k[1] = "FunctionTerm" -> FunctionTermView(R, r, h)
      [] h.k[1] = "GroundFunctionTerm" -> GroundFunctionTermView(R, r, h)

NumericEffectView(R, r, h) ==
    LET d == At(R, r, h)
    IN  <<h.k[2], FunctionExpressionView(R, r, d.fterm), FunctionExpressionView(R, r, d.fexpr)>>

\* FDRFactView::get_atom: the atom of the value, nothing for value 0.
FDRFactView(R, r, fact) ==
    IF fact.value = 0 THEN <<>>
    ELSE GroundAtomView(R, r, At(R, r, fact.variable).atoms[fact.value])

FDRVariableView(R, r, h) ==
    LET atoms == At(R, r, h).atoms IN [i \in DOMAIN atoms |-> GroundAtomView(R, r, atoms[i])]

(***************************************************************************)
(* Views of conditions, effects, actions, axioms and tasks.                *)
(***************************************************************************)

Views(V(_, _, _), R, r, list) == {V(R, r, x) : x \in ToSet(list)}

OptionalEffectView(R, r, h) == IF h = None THEN {} ELSE {NumericEffectView(R, r, h)}

ConjunctiveConditionView(R, r, h) ==
    LET d == At(R, r, h)
    IN  [variables |-> NamesView(R, r, d.variables),
         static |-> Views(LiteralView, R, r, d.static_literals),
         fluent |-> Views(LiteralView, R, r, d.fluent_literals),
         derived |-> Views(LiteralView, R, r, d.derived_literals),
         constraints |-> Views(FunctionExpressionView, R, r, d.numeric_constraints)]

ConjunctiveEffectView(R, r, h) ==
    LET d == At(R, r, h)
    IN  [literals |-> Views(LiteralView, R, r, d.literals),
         numeric |-> Views(NumericEffectView, R, r, d.numeric_effects),
         auxiliary |-> OptionalEffectView(R, r, d.auxiliary_numeric_effect)]

ConditionalEffectView(R, r, h) ==
    LET d == At(R, r, h)
    IN  [variables |-> NamesView(R, r, d.variables),
         condition |-> ConjunctiveConditionView(R, r, d.condition),
         effect |-> ConjunctiveEffectView(R, r, d.effect)]

ActionView(R, r, h) ==
    LET d == At(R, r, h)
    IN  [name |-> d.name, original_arity |-> d.original_arity,
         variables |-> NamesView(R, r, d.variables),
         condition |-> ConjunctiveConditionView(R, r, d.condition),
         effects |-> Views(ConditionalEffectView, R, r, d.effects)]

AxiomView(R, r, h) ==
    LET d == At(R, r, h)
    IN  [variables |-> NamesView(R, r, d.variables),
         body |-> ConjunctiveConditionView(R, r, d.body), head |-> AtomView(R, r, d.head)]

GroundConjunctiveConditionView(R, r, h) ==
    LET d == At(R, r, h)
    IN  [static |-> Views(GroundLiteralView, R, r, d.static_literals),
         derived |-> Views(GroundLiteralView, R, r, d.derived_literals),
         positive |-> Views(FDRFactView, R, r, d.positive_facts),
         negative |-> Views(FDRFactView, R, r, d.negative_facts),
         constraints |-> Views(FunctionExpressionView, R, r, d.numeric_constraints)]

GroundConjunctiveEffectView(R, r, h) ==
    LET d == At(R, r, h)
    IN  [add |-> Views(FDRFactView, R, r, d.add_facts),
         del |-> Views(FDRFactView, R, r, d.del_facts),
         numeric |-> Views(NumericEffectView, R, r, d.numeric_effects),
         auxiliary |-> OptionalEffectView(R, r, d.auxiliary_numeric_effect)]

GroundConditionalEffectView(R, r, h) ==
    LET d == At(R, r, h)
    IN  [condition |-> GroundConjunctiveConditionView(R, r, d.condition),
         effect |-> GroundConjunctiveEffectView(R, r, d.effect)]

GroundActionView(R, r, h) ==
    LET d == At(R, r, h)
    IN  [action |-> NameView(R, r, d.binding.k[2]), objects |-> BindingView(R, r, d.binding),
         condition |-> GroundConjunctiveConditionView(R, r, d.condition),
         effects |-> Views(GroundConditionalEffectView, R, r, d.effects)]

GroundAxiomView(R, r, h) ==
    LET d == At(R, r, h)
    IN  [objects |-> BindingView(R, r, d.binding),
         body |-> GroundConjunctiveConditionView(R, r, d.body),
         head |-> GroundAtomView(R, r, d.head)]

MetricView(R, r, h) ==
    LET d == At(R, r, h) IN <<d.objective, FunctionExpressionView(R, r, d.fexpr)>>

DomainView(R, r, h) ==
    LET d == At(R, r, h)
    IN  [name |-> d.name,
         static |-> Views(RelationView, R, r, d.static_predicates),
         fluent |-> Views(RelationView, R, r, d.fluent_predicates),
         derived |-> Views(RelationView, R, r, d.derived_predicates),
         functions |-> <<Views(RelationView, R, r, d.static_functions),
                         Views(RelationView, R, r, d.fluent_functions)>>,
         costed |-> d.auxiliary_function # None,
         constants |-> Views(NameView, R, r, d.constants),
         actions |-> Views(ActionView, R, r, d.actions),
         axioms |-> Views(AxiomView, R, r, d.axioms)]

TaskView(R, r, h) ==
    LET d == At(R, r, h)
    IN  [name |-> d.name, domain |-> DomainView(R, r, d.domain),
         derived |-> Views(RelationView, R, r, d.derived_predicates),
         objects |-> Views(NameView, R, r, d.objects),
         static |-> Views(GroundAtomView, R, r, d.static_atoms),
         fluent |-> Views(GroundAtomView, R, r, d.fluent_atoms),
         values |-> Views(GroundFunctionTermValueView, R, r,
                          d.static_fterm_values \o d.fluent_fterm_values),
         total_cost |-> IF d.auxiliary_fterm_value = None THEN {}
                        ELSE {GroundFunctionTermValueView(R, r, d.auxiliary_fterm_value)},
         goal |-> GroundConjunctiveConditionView(R, r, d.goal),
         metric |-> IF d.metric = None THEN {} ELSE {MetricView(R, r, d.metric)},
         axioms |-> Views(AxiomView, R, r, d.axioms)]
====
