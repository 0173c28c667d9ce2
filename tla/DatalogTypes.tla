---- MODULE DatalogTypes ----
(***************************************************************************)
(* The symbols of the Datalog formalism: the members of the data, their    *)
(* canonical form, and what a view reads through a handle.  The names are  *)
(* those of the planning formalism where the types correspond, so that the *)
(* views of a symbol before and after a translation can be compared.       *)
(***************************************************************************)
EXTENDS Repositories

(***************************************************************************)
(* Data.  Predicates and functions are static or fluent only.              *)
(***************************************************************************)

AtomData(kind, predicate, terms) ==
    [k |-> <<"Atom", kind>>, predicate |-> predicate, terms |-> terms]

LiteralData(kind, atom, polarity) ==
    [k |-> <<"Literal", kind>>, atom |-> atom, polarity |-> polarity]

FunctionTermData(kind, function, terms) ==
    [k |-> <<"FunctionTerm", kind>>, function |-> function, terms |-> terms]

GroundAtomData(kind, binding) == [k |-> <<"GroundAtom", kind>>, binding |-> binding]

GroundLiteralData(kind, atom, polarity) ==
    [k |-> <<"GroundLiteral", kind>>, atom |-> atom, polarity |-> polarity]

GroundFunctionTermData(kind, binding) == [k |-> <<"GroundFunctionTerm", kind>>, binding |-> binding]

GroundFunctionTermValueData(kind, fterm, value) ==
    [k |-> <<"GroundFunctionTermValue", kind>>, fterm |-> fterm, value |-> value]

UnaryOperatorData(op, side, arg) == [k |-> <<"Unary", op, side>>, arg |-> arg]

BinaryOperatorData(op, side, lhs, rhs) ==
    [k |-> <<"Binary", op, side>>, lhs |-> lhs, rhs |-> rhs]

MultiOperatorData(op, side, args) == [k |-> <<"Multi", op, side>>, args |-> args]

ConjunctiveConditionData(variables, static, fluent, constraints) ==
    [k |-> <<"ConjunctiveCondition">>, variables |-> variables, static_literals |-> static,
     fluent_literals |-> fluent, numeric_constraints |-> constraints]

GroundConjunctiveConditionData(static, fluent, constraints) ==
    [k |-> <<"GroundConjunctiveCondition">>, static_literals |-> static,
     fluent_literals |-> fluent, numeric_constraints |-> constraints]

RuleData(variables, body, head, cost) ==
    [k |-> <<"Rule">>, variables |-> variables, body |-> body, head |-> head, cost |-> cost]

GroundRuleData(binding, body, head) ==
    [k |-> <<"GroundRule">>, binding |-> binding, body |-> body, head |-> head]

(***************************************************************************)
(* Canonical data.                                                         *)
(***************************************************************************)

CanonicalLists == {"static_literals", "fluent_literals", "numeric_constraints"}

WithOperands(d, pair) == [d EXCEPT !.lhs = pair[1], !.rhs = pair[2]]

CanonicalOperator(d) ==
    IF d.k[1] = "Multi" THEN [d EXCEPT !.args = CanonicalList(@)]
    ELSE IF d.k[2] \in {"add", "mul"}
         THEN WithOperands(d, CanonicalPair(d.lhs, d.rhs))
    ELSE d

Canonicalize(d) ==
    IF d.k[1] \in {"Multi", "Binary"} THEN CanonicalOperator(d)
    ELSE [f \in DOMAIN d |-> IF f \in CanonicalLists THEN CanonicalList(d[f]) ELSE d[f]]

Create(S, d) == Intern(S, Canonicalize(d))

(***************************************************************************)
(* Calls that make a symbol out of the results of the calls before.        *)
(***************************************************************************)

\* The last result is the list of terms.
NewAtom(ts, predicate) == Create(ts, AtomData(predicate.k[2], predicate, ts.ret))

NewFunctionTerm(ts, function) == Create(ts, FunctionTermData(function.k[2], function, ts.ret))

\* The last result is the binding.
NewGroundAtom(b) == Create(b, GroundAtomData(b.ret.k[2].k[2], b.ret))

NewGroundFunctionTerm(b) == Create(b, GroundFunctionTermData(b.ret.k[2].k[2], b.ret))

\* The last result is the atom or the function term.
NewLiteral(a, polarity) == Create(a, LiteralData(a.ret.k[2], a.ret, polarity))

NewGroundLiteral(a, polarity) == Create(a, GroundLiteralData(a.ret.k[2], a.ret, polarity))

NewGroundFunctionTermValue(f, value) ==
    Create(f, GroundFunctionTermValueData(f.ret.k[2], f.ret, value))

\* The last result is the operand or the list of operands.
NewUnaryOperator(arg, op, side) == Create(arg, UnaryOperatorData(op, side, arg.ret))

NewBinaryOperator(args, op, side) ==
    Create(args, BinaryOperatorData(op, side, args.ret[1], args.ret[2]))

NewMultiOperator(args, op, side) == Create(args, MultiOperatorData(op, side, args.ret))

\* The last result is the list of the variables and of the literals and constraints.
NewConjunctiveCondition(c) ==
    Create(c, ConjunctiveConditionData(c.ret[1], c.ret[2], c.ret[3], c.ret[4]))

NewGroundConjunctiveCondition(c) ==
    Create(c, GroundConjunctiveConditionData(c.ret[1], c.ret[2], c.ret[3]))

(***************************************************************************)
(* Views.                                                                  *)
(***************************************************************************)

AtomView(R, r, h) ==
    LET d == At(R, r, h) IN <<RelationView(R, r, d.predicate), TermsView(R, r, d.terms)>>

LiteralView(R, r, h) ==
    LET d == At(R, r, h) IN <<AtomView(R, r, d.atom), d.polarity>>

ObjectTerms(names) == [i \in DOMAIN names |-> <<"object", names[i]>>]

GroundAtomView(R, r, h) ==
    LET d == At(R, r, h)
    IN  <<RelationView(R, r, d.binding.k[2]), ObjectTerms(BindingView(R, r, d.binding))>>

GroundLiteralView(R, r, h) ==
    LET d == At(R, r, h) IN <<GroundAtomView(R, r, d.atom), d.polarity>>

FunctionTermView(R, r, h) ==
    LET d == At(R, r, h)
    IN  <<"fterm", RelationView(R, r, d.function), TermsView(R, r, d.terms)>>

GroundFunctionTermView(R, r, h) ==
    LET d == At(R, r, h)
    IN  <<"fterm", RelationView(R, r, d.binding.k[2]), ObjectTerms(BindingView(R, r, d.binding))>>

GroundFunctionTermValueView(R, r, h) ==
    LET d == At(R, r, h) IN <<GroundFunctionTermView(R, r, d.fterm), d.value>>

RECURSIVE FunctionExpressionView(_, _, _)

UnaryOperatorView(R, r, h) ==
    <<"unary", h.k[2], FunctionExpressionView(R, r, At(R, r, h).arg)>>

Operands(op, list) == IF op \in {"add", "mul"} THEN ToSet(list) ELSE list

BinaryOperatorView(R, r, h) ==
    LET d == At(R, r, h)
        operands == [i \in 1..2 |-> FunctionExpressionView(R, r, IF i = 1 THEN d.lhs ELSE d.rhs)]
    IN  <<"binary", h.k[2], Operands(h.k[2], operands)>>

MultiOperatorView(R, r, h) ==
    <<"multi", h.k[2], {FunctionExpressionView(R, r, x) : x \in ToSet(At(R, r, h).args)}>>

FunctionExpressionView(R, r, h) ==
    CASE h.k[1] = "Float" -> <<"float", h.n>>
      [] h.k[1] = "Unary" -> UnaryOperatorView(R, r, h)
      [] h.k[1] = "Binary" -> BinaryOperatorView(R, r, h)
      [] h.k[1] = "Multi" -> MultiOperatorView(R, r, h)
      [] h.k[1] = "FunctionTerm" -> FunctionTermView(R, r, h)
      [] h.k[1] = "GroundFunctionTerm" -> GroundFunctionTermView(R, r, h)

Views(V(_, _, _), R, r, list) == {V(R, r, x) : x \in ToSet(list)}

ConjunctiveConditionView(R, r, h) ==
    LET d == At(R, r, h)
    IN  [variables |-> NamesView(R, r, d.variables),
         static |-> Views(LiteralView, R, r, d.static_literals),
         fluent |-> Views(LiteralView, R, r, d.fluent_literals),
         constraints |-> Views(FunctionExpressionView, R, r, d.numeric_constraints)]

GroundConjunctiveConditionView(R, r, h) ==
    LET d == At(R, r, h)
    IN  [static |-> Views(GroundLiteralView, R, r, d.static_literals),
         fluent |-> Views(GroundLiteralView, R, r, d.fluent_literals),
         constraints |-> Views(FunctionExpressionView, R, r, d.numeric_constraints)]

RuleView(R, r, h) ==
    LET d == At(R, r, h)
    IN  [variables |-> NamesView(R, r, d.variables),
         body |-> ConjunctiveConditionView(R, r, d.body), head |-> AtomView(R, r, d.head),
         cost |-> d.cost]

GroundRuleView(R, r, h) ==
    LET d == At(R, r, h)
    IN  [objects |-> BindingView(R, r, d.binding),
         body |-> GroundConjunctiveConditionView(R, r, d.body),
         head |-> GroundAtomView(R, r, d.head)]
====
