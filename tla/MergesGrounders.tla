------------------------ MODULE MergesGrounders -------------------------
(***************************************************************************)
(* Copying symbols from one repository to another: inside the planning     *)
(* formalism (p2p), from planning to Datalog (p2d) and back (d2p), and     *)
(* inside Datalog (d2d).  A merge reads the repository src and interns in  *)
(* dst.  What a merge copies by index instead of merging (the objects of a *)
(* binding everywhere, the function of a function term, and, inside one    *)
(* formalism, the relation of a binding) is right only if that index means *)
(* the same symbol in both repositories; the callers arrange it by merging *)
(* predicates, functions and objects first, in the order of their indices, *)
(* or by giving both repositories a common ancestor.                       *)
(*                                                                         *)
(* Grounding of planning and of Datalog symbols: the parameters of a       *)
(* symbol read from src are replaced by the objects of a binding, and the  *)
(* ground symbol is interned in dst, whose chain contains src.             *)
(***************************************************************************)
EXTENDS Repositories, TLC

P == INSTANCE PlanningTypes
D == INSTANCE DatalogTypes

\* The predicates of a translation: from source to destination.
MergeContext(R, src, dst, predicate_mapping) ==
    [R |-> R, src |-> src, dst |-> dst, ret |-> None, thrown |-> FALSE, predicate_mapping |-> predicate_mapping]

Read(S, h) == At(S.R, S.src, h)

MergeThrow(S) == [S EXCEPT !.thrown = TRUE, !.ret = None]

(***************************************************************************)
(* Planning to planning.                                                   *)
(***************************************************************************)

P2PVariable(S, h) == Intern(S, VariableData(Read(S, h).name))

P2PObject(S, h) == Intern(S, ObjectData(Read(S, h).name))

P2PTerm(S, term) == IF IsParameter(term) THEN Return(S, term) ELSE P2PObject(S, term)

P2PPredicate(S, h) == Intern(S, PredicateData(h.k[2], Read(S, h).name, Read(S, h).arity))

\* The relation and the objects keep their indices.
P2PBinding(S, row) == Intern(S, RelationBindingData(row.k[2], Read(S, row).objects))

P2PAtomTerms(p, terms) == P!NewAtom(Each(P2PTerm, p, terms), p.ret)

P2PAtom(S, h) == P2PAtomTerms(P2PPredicate(S, Read(S, h).predicate), Read(S, h).terms)

P2PGroundAtom(S, h) == P!NewGroundAtom(P2PBinding(S, Read(S, h).binding))

P2PLiteral(S, h) == P!NewLiteral(P2PAtom(S, Read(S, h).atom), Read(S, h).polarity)

P2PGroundLiteral(S, h) ==
    P!NewGroundLiteral(P2PGroundAtom(S, Read(S, h).atom), Read(S, h).polarity)

P2PFunction(S, h) == Intern(S, FunctionData(h.k[2], Read(S, h).name, Read(S, h).arity))

\* The function keeps its index.
P2PFunctionTerm(S, h) ==
    P!NewFunctionTerm(Each(P2PTerm, S, Read(S, h).terms), Read(S, h).function)

P2PGroundFunctionTerm(S, h) == P!NewGroundFunctionTerm(P2PBinding(S, Read(S, h).binding))

P2PGroundFunctionTermValue(S, h) ==
    P!NewGroundFunctionTermValue(P2PGroundFunctionTerm(S, Read(S, h).fterm), Read(S, h).value)

RECURSIVE P2PFunctionExpression(_, _)

P2PUnaryOperator(S, h) ==
    P!NewUnaryOperator(P2PFunctionExpression(S, Read(S, h).arg), h.k[2], h.k[3])

P2PBinaryOperator(S, h) ==
    P!NewBinaryOperator(Each(P2PFunctionExpression, S, <<Read(S, h).lhs, Read(S, h).rhs>>),
                        h.k[2], h.k[3])

P2PMultiOperator(S, h) ==
    P!NewMultiOperator(Each(P2PFunctionExpression, S, Read(S, h).args), h.k[2], h.k[3])

P2PFunctionExpression(S, h) ==
    CASE h.k[1] = "Float" -> Return(S, h)
      [] h.k[1] = "Unary" -> P2PUnaryOperator(S, h)
      [] h.k[1] = "Binary" -> P2PBinaryOperator(S, h)
      [] h.k[1] = "Multi" -> P2PMultiOperator(S, h)
      [] h.k[1] = "FunctionTerm" -> P2PFunctionTerm(S, h)
      [] h.k[1] = "GroundFunctionTerm" -> P2PGroundFunctionTerm(S, h)

P2PNumericEffect(S, h) ==
    P!NewNumericEffect(Each(P2PFunctionExpression, S, <<Read(S, h).fterm, Read(S, h).fexpr>>), h.k[2])

P2PGroundNumericEffect(S, h) ==
    P!NewGroundNumericEffect(Each(P2PFunctionExpression, S, <<Read(S, h).fterm, Read(S, h).fexpr>>),
                             h.k[2])

\* A variable, literal or constraint of a condition.
P2PConjunct(S, h) ==
    CASE h.k[1] = "Variable" -> P2PVariable(S, h)
      [] h.k[1] = "Literal" -> P2PLiteral(S, h)
      [] OTHER -> P2PFunctionExpression(S, h)

P2PConjuncts(S, list) == Each(P2PConjunct, S, list)

P2PConjunctiveCondition(S, h) ==
    LET d == Read(S, h)
    IN  P!NewConjunctiveCondition(
            Each(P2PConjuncts, S, <<d.variables, d.static_literals, d.fluent_literals, d.derived_literals,
                                    d.numeric_constraints>>))

P2PAxiomHead(head, variables, body) == P!Create(head, P!AxiomData(variables, body, head.ret))
P2PAxiomBody(body, variables, head) == P2PAxiomHead(P2PAtom(body, head), variables, body.ret)
P2PAxiomVariables(vs, body, head) ==
    P2PAxiomBody(P2PConjunctiveCondition(vs, body), vs.ret, head)

P2PAxiom(S, h) ==
    P2PAxiomVariables(Each(P2PVariable, S, Read(S, h).variables), Read(S, h).body, Read(S, h).head)

P2PNewMetric(e, objective) == P!Create(e, P!MetricData(objective, e.ret))

P2PMetric(S, h) == P2PNewMetric(P2PFunctionExpression(S, Read(S, h).fexpr), Read(S, h).objective)

P2PNewFDRVariable(atoms, kind) == P!Create(atoms, P!FDRVariableData(kind, atoms.ret))

P2PFDRVariable(S, h) == P2PNewFDRVariable(Each(P2PGroundAtom, S, Read(S, h).atoms), h.k[2])

P2PNewFDRFact(v, value) == Return(v, P!FDRFactData(v.ret, value))

P2PFDRFact(S, fact) == P2PNewFDRFact(P2PFDRVariable(S, fact.variable), fact.value)

(***************************************************************************)
(* Planning to Datalog.                                                    *)
(***************************************************************************)

P2DVariable(S, h) == Intern(S, VariableData(Read(S, h).name))

P2DObject(S, h) == Intern(S, ObjectData(Read(S, h).name))

P2DTerm(S, term) == IF IsParameter(term) THEN Return(S, term) ELSE P2DObject(S, term)

\* A derived predicate is a fluent one in a program.
P2DPredicate(S, h, kind) == Intern(S, PredicateData(kind, Read(S, h).name, Read(S, h).arity))

P2DAtom(S, h) ==
    D!NewAtom(Each(P2DTerm, S, Read(S, h).terms), S.predicate_mapping[Read(S, h).predicate])

\* The relation is mapped, the objects keep their indices.
P2DPredicateBinding(S, row) ==
    Intern(S, RelationBindingData(S.predicate_mapping[row.k[2]], Read(S, row).objects))

P2DGroundAtom(S, h) == D!NewGroundAtom(P2DPredicateBinding(S, Read(S, h).binding))

P2DLiteral(S, h) == D!NewLiteral(P2DAtom(S, Read(S, h).atom), Read(S, h).polarity)

P2DGroundLiteral(S, h) ==
    D!NewGroundLiteral(P2DGroundAtom(S, Read(S, h).atom), Read(S, h).polarity)

P2DFunction(S, h) == Intern(S, FunctionData(h.k[2], Read(S, h).name, Read(S, h).arity))

\* The function keeps its index.
P2DFunctionTerm(S, h) ==
    D!NewFunctionTerm(Each(P2DTerm, S, Read(S, h).terms), Read(S, h).function)

P2DRow(f, objects) == Intern(f, RelationBindingData(f.ret, objects))

P2DFunctionBinding(S, row) == P2DRow(P2DFunction(S, row.k[2]), Read(S, row).objects)

P2DGroundFunctionTerm(S, h) == D!NewGroundFunctionTerm(P2DFunctionBinding(S, Read(S, h).binding))

P2DGroundFunctionTermValue(S, h) ==
    D!NewGroundFunctionTermValue(P2DGroundFunctionTerm(S, Read(S, h).fterm), Read(S, h).value)

RECURSIVE P2DFunctionExpression(_, _)

P2DUnaryOperator(S, h) ==
    D!NewUnaryOperator(P2DFunctionExpression(S, Read(S, h).arg), h.k[2], h.k[3])

P2DBinaryOperator(S, h) ==
    D!NewBinaryOperator(Each(P2DFunctionExpression, S, <<Read(S, h).lhs, Read(S, h).rhs>>),
                        h.k[2], h.k[3])

P2DMultiOperator(S, h) ==
    D!NewMultiOperator(Each(P2DFunctionExpression, S, Read(S, h).args), h.k[2], h.k[3])

P2DFunctionExpression(S, h) ==
    CASE h.k[1] = "Float" -> Return(S, h)
      [] h.k[1] = "Unary" -> P2DUnaryOperator(S, h)
      [] h.k[1] = "Binary" -> P2DBinaryOperator(S, h)
      [] h.k[1] = "Multi" -> P2DMultiOperator(S, h)
      [] h.k[1] \in {"FunctionTerm", "GroundFunctionTerm"} /\ h.k[2] = "auxiliary" -> MergeThrow(S)
      [] h.k[1] = "FunctionTerm" /\ h.k[2] # "auxiliary" -> P2DFunctionTerm(S, h)
      [] h.k[1] = "GroundFunctionTerm" /\ h.k[2] # "auxiliary" -> P2DGroundFunctionTerm(S, h)

(***************************************************************************)
(* Datalog to planning.                                                    *)
(***************************************************************************)

D2PVariable(S, h) == Intern(S, VariableData(Read(S, h).name))

D2PObject(S, h) == Intern(S, ObjectData(Read(S, h).name))

D2PTerm(S, term) == IF IsParameter(term) THEN Return(S, term) ELSE D2PObject(S, term)

\* A derived predicate is a fluent one in a program.
D2PPredicate(S, h, kind) == Intern(S, PredicateData(kind, Read(S, h).name, Read(S, h).arity))

D2PAtom(S, h) ==
    P!NewAtom(Each(D2PTerm, S, Read(S, h).terms), S.predicate_mapping[Read(S, h).predicate])

\* The relation is mapped, the objects keep their indices.
D2PPredicateBinding(S, row) ==
    Intern(S, RelationBindingData(S.predicate_mapping[row.k[2]], Read(S, row).objects))

MergeAtomD2P(S, row) == P!NewGroundAtom(D2PPredicateBinding(S, row))

D2PGroundAtom(S, h) == P!NewGroundAtom(D2PPredicateBinding(S, Read(S, h).binding))

D2PLiteral(S, h) == P!NewLiteral(D2PAtom(S, Read(S, h).atom), Read(S, h).polarity)

D2PGroundLiteral(S, h) ==
    P!NewGroundLiteral(D2PGroundAtom(S, Read(S, h).atom), Read(S, h).polarity)

D2PFunction(S, h) == Intern(S, FunctionData(h.k[2], Read(S, h).name, Read(S, h).arity))

\* The function keeps its index.
D2PFunctionTerm(S, h) ==
    P!NewFunctionTerm(Each(D2PTerm, S, Read(S, h).terms), Read(S, h).function)

D2PRow(f, objects) == Intern(f, RelationBindingData(f.ret, objects))

D2PFunctionBinding(S, row) == D2PRow(D2PFunction(S, row.k[2]), Read(S, row).objects)

D2PGroundFunctionTerm(S, h) == P!NewGroundFunctionTerm(D2PFunctionBinding(S, Read(S, h).binding))

D2PGroundFunctionTermValue(S, h) ==
    P!NewGroundFunctionTermValue(D2PGroundFunctionTerm(S, Read(S, h).fterm), Read(S, h).value)

RECURSIVE D2PFunctionExpression(_, _)

D2PUnaryOperator(S, h) ==
    P!NewUnaryOperator(D2PFunctionExpression(S, Read(S, h).arg), h.k[2], h.k[3])

D2PBinaryOperator(S, h) ==
    P!NewBinaryOperator(Each(D2PFunctionExpression, S, <<Read(S, h).lhs, Read(S, h).rhs>>),
                        h.k[2], h.k[3])

D2PMultiOperator(S, h) ==
    P!NewMultiOperator(Each(D2PFunctionExpression, S, Read(S, h).args), h.k[2], h.k[3])

D2PFunctionExpression(S, h) ==
    CASE h.k[1] = "Float" -> Return(S, h)
      [] h.k[1] = "Unary" -> D2PUnaryOperator(S, h)
      [] h.k[1] = "Binary" -> D2PBinaryOperator(S, h)
      [] h.k[1] = "Multi" -> D2PMultiOperator(S, h)
      [] h.k[1] \in {"FunctionTerm", "GroundFunctionTerm"} /\ h.k[2] = "auxiliary" -> MergeThrow(S)
      [] h.k[1] = "FunctionTerm" /\ h.k[2] # "auxiliary" -> D2PFunctionTerm(S, h)
      [] h.k[1] = "GroundFunctionTerm" /\ h.k[2] # "auxiliary" -> D2PGroundFunctionTerm(S, h)

(***************************************************************************)
(* Datalog to Datalog.                                                     *)
(***************************************************************************)

D2DVariable(S, h) == Intern(S, VariableData(Read(S, h).name))

D2DObject(S, h) == Intern(S, ObjectData(Read(S, h).name))

D2DTerm(S, term) == IF IsParameter(term) THEN Return(S, term) ELSE D2DObject(S, term)

D2DPredicate(S, h) == Intern(S, PredicateData(h.k[2], Read(S, h).name, Read(S, h).arity))

\* The predicate keeps its index.
D2DAtom(S, h) == D!NewAtom(Each(D2DTerm, S, Read(S, h).terms), Read(S, h).predicate)

\* The relation and the objects keep their indices.
D2DPredicateBinding(S, row) == Intern(S, RelationBindingData(row.k[2], Read(S, row).objects))

D2DGroundAtom(S, h) == D!NewGroundAtom(D2DPredicateBinding(S, Read(S, h).binding))

D2DLiteral(S, h) == D!NewLiteral(D2DAtom(S, Read(S, h).atom), Read(S, h).polarity)

D2DGroundLiteral(S, h) ==
    D!NewGroundLiteral(D2DGroundAtom(S, Read(S, h).atom), Read(S, h).polarity)

D2DFunction(S, h) == Intern(S, FunctionData(h.k[2], Read(S, h).name, Read(S, h).arity))

\* The function keeps its index.
D2DFunctionTerm(S, h) ==
    D!NewFunctionTerm(Each(D2DTerm, S, Read(S, h).terms), Read(S, h).function)

D2DFunctionBinding(S, row) == Intern(S, RelationBindingData(row.k[2], Read(S, row).objects))

D2DGroundFunctionTerm(S, h) == D!NewGroundFunctionTerm(D2DFunctionBinding(S, Read(S, h).binding))

D2DGroundFunctionTermValue(S, h) ==
    D!NewGroundFunctionTermValue(D2DGroundFunctionTerm(S, Read(S, h).fterm), Read(S, h).value)

RECURSIVE D2DFunctionExpression(_, _)

D2DUnaryOperator(S, h) ==
    D!NewUnaryOperator(D2DFunctionExpression(S, Read(S, h).arg), h.k[2], h.k[3])

D2DBinaryOperator(S, h) ==
    D!NewBinaryOperator(Each(D2DFunctionExpression, S, <<Read(S, h).lhs, Read(S, h).rhs>>),
                        h.k[2], h.k[3])

D2DMultiOperator(S, h) ==
    D!NewMultiOperator(Each(D2DFunctionExpression, S, Read(S, h).args), h.k[2], h.k[3])

D2DFunctionExpression(S, h) ==
    CASE h.k[1] = "Float" -> Return(S, h)
      [] h.k[1] = "Unary" -> D2DUnaryOperator(S, h)
      [] h.k[1] = "Binary" -> D2DBinaryOperator(S, h)
      [] h.k[1] = "Multi" -> D2DMultiOperator(S, h)
      [] h.k[1] = "FunctionTerm" -> D2DFunctionTerm(S, h)
      [] h.k[1] = "GroundFunctionTerm" -> D2DGroundFunctionTerm(S, h)

D2DLiterals(S, list) == Each(D2DLiteral, S, list)
D2DGroundLiterals(S, list) == Each(D2DGroundLiteral, S, list)

\* The literals, then the constraints; the result is prefix and the three lists.
D2DConstraints(ls, constraints, prefix) ==
    LET cs == Each(D2DFunctionExpression, ls, constraints) IN Return(cs, prefix \o ls.ret \o <<cs.ret>>)

\* The variables of a condition and the cost of a rule are not copied.
D2DConjunctiveCondition(S, h) ==
    D!NewConjunctiveCondition(
        D2DConstraints(Each(D2DLiterals, S, <<Read(S, h).static_literals, Read(S, h).fluent_literals>>),
                       Read(S, h).numeric_constraints, <<<<>>>>))

D2DGroundConjunctiveCondition(S, h) ==
    D!NewGroundConjunctiveCondition(
        D2DConstraints(Each(D2DGroundLiterals, S, <<Read(S, h).static_literals, Read(S, h).fluent_literals>>),
                       Read(S, h).numeric_constraints, <<>>))

D2DRuleHead(head, variables, body) == D!Create(head, D!RuleData(variables, body, head.ret, 0))
D2DRuleBody(body, variables, head) == D2DRuleHead(D2DAtom(body, head), variables, body.ret)
D2DRuleVariables(vs, body, head) == D2DRuleBody(D2DConjunctiveCondition(vs, body), vs.ret, head)

D2DRule(S, h) ==
    D2DRuleVariables(Each(D2DVariable, S, Read(S, h).variables), Read(S, h).body, Read(S, h).head)

(***************************************************************************)
(* Grounding.                                                              *)
(***************************************************************************)

\* The grounder context: the binding; the finite-domain context of the task (variables and
\* mapping); the cache from the bindings of actions and axioms to ground ones.
GrounderContext(R, src, dst, variables, mapping, cache, binding) ==
    [R |-> R, src |-> src, dst |-> dst, ret |-> None, variables |-> variables, mapping |-> mapping,
     cache |-> cache, binding |-> binding]

\* The objects of a list of terms under the binding.
BoundObjects(S, terms) ==
    [i \in DOMAIN terms |->
        IF IsParameter(terms[i]) THEN S.binding[terms[i].n + 1] ELSE terms[i]]

(***************************************************************************)
(* Planning.                                                               *)
(***************************************************************************)

GroundFunctionBinding(S, function, terms) ==
    Intern(S, RelationBindingData(function, BoundObjects(S, terms)))

GroundFunctionTerm(S, h) ==
    P!NewGroundFunctionTerm(GroundFunctionBinding(S, Read(S, h).function, Read(S, h).terms))

RECURSIVE GroundFunctionExpression(_, _)

GroundUnaryOperator(S, h) ==
    P!NewUnaryOperator(GroundFunctionExpression(S, Read(S, h).arg), h.k[2], "ground")

GroundBinaryOperator(S, h) ==
    P!NewBinaryOperator(Each(GroundFunctionExpression, S, <<Read(S, h).lhs, Read(S, h).rhs>>), h.k[2], "ground")

GroundMultiOperator(S, h) ==
    P!NewMultiOperator(Each(GroundFunctionExpression, S, Read(S, h).args), h.k[2], "ground")

GroundFunctionExpression(S, h) ==
    CASE h.k[1] = "Float" -> Return(S, h)
      [] h.k[1] = "Unary" -> GroundUnaryOperator(S, h)
      [] h.k[1] = "Binary" -> GroundBinaryOperator(S, h)
      [] h.k[1] = "Multi" -> GroundMultiOperator(S, h)
      [] h.k[1] = "FunctionTerm" -> GroundFunctionTerm(S, h)

GroundPredicateBinding(S, predicate, terms) ==
    Intern(S, RelationBindingData(predicate, BoundObjects(S, terms)))

GroundAtom(S, h) ==
    P!NewGroundAtom(GroundPredicateBinding(S, Read(S, h).predicate, Read(S, h).terms))

FactOf(a) == P!GetFact(a, a.ret)

GroundAtomFact(S, h) == FactOf(GroundAtom(S, h))

GroundLiteral(S, h) ==
    P!NewGroundLiteral(GroundAtom(S, Read(S, h).atom), Read(S, h).polarity)

GroundLiteralFact(S, h) == GroundAtomFact(S, Read(S, h).atom)

SelectedFacts(facts, positions) == [i \in DOMAIN positions |-> facts[positions[i]]]

\* The facts of the literals with a polarity, in the order of the list.
OfPolarity(S, literals, facts, polarity) ==
    SelectedFacts(facts, SelectSeq([i \in DOMAIN literals |-> i],
                                   LAMBDA i : Read(S, literals[i]).polarity = polarity))

\* A conjunct becomes a ground literal, a fact or a constraint.
GroundConjunct(S, h) ==
    CASE h.k = <<"Literal", "fluent">> -> GroundLiteralFact(S, h)
      [] h.k \in {<<"Literal", "static">>, <<"Literal", "derived">>} -> GroundLiteral(S, h)
      [] OTHER -> GroundFunctionExpression(S, h)

GroundConjuncts(S, list) == Each(GroundConjunct, S, list)

NewGroundConjunctiveCondition(c, fluent_literals) ==
    P!Create(c, P!GroundConjunctiveConditionData(c.ret[1], c.ret[3],
                    OfPolarity(c, fluent_literals, c.ret[2], TRUE),
                    OfPolarity(c, fluent_literals, c.ret[2], FALSE), c.ret[4]))

GroundCondition(S, d) ==
    NewGroundConjunctiveCondition(
        Each(GroundConjuncts, S,
             <<d.static_literals, d.fluent_literals, d.derived_literals, d.numeric_constraints>>),
        d.fluent_literals)

GroundConjunctiveCondition(S, h) == GroundCondition(S, Read(S, h))

GroundNumericEffect(S, h) ==
    P!NewGroundNumericEffect(Each(GroundFunctionExpression, S, <<Read(S, h).fterm, Read(S, h).fexpr>>),
                             h.k[2])

\* An optional effect is a list of at most one.
GroundEffectMember(S, h) ==
    IF h.k[1] = "Literal" THEN GroundLiteralFact(S, h) ELSE GroundNumericEffect(S, h)

GroundEffectMembers(S, list) == Each(GroundEffectMember, S, list)

NewGroundConjunctiveEffect(c, literals) ==
    P!Create(c, P!GroundConjunctiveEffectData(
                    OfPolarity(c, literals, c.ret[1], TRUE), OfPolarity(c, literals, c.ret[1], FALSE),
                    c.ret[2], IF c.ret[3] = <<>> THEN None ELSE c.ret[3][1]))

GroundEffects(S, d) ==
    NewGroundConjunctiveEffect(
        Each(GroundEffectMembers, S,
             <<d.literals, d.numeric_effects,
               IF d.auxiliary_numeric_effect = None THEN <<>> ELSE <<d.auxiliary_numeric_effect>>>>),
        d.literals)

GroundConjunctiveEffect(S, h) == GroundEffects(S, Read(S, h))

NewGroundConditionalEffect(e, condition) ==
    P!Create(e, P!GroundConditionalEffectData(condition, e.ret))

GroundGuardedEffect(c, effect) == NewGroundConditionalEffect(GroundConjunctiveEffect(c, effect), c.ret)

GroundConditionalEffect(S, h) ==
    GroundGuardedEffect(GroundConjunctiveCondition(S, Read(S, h).condition), Read(S, h).effect)

\* The binding of an action or axiom: the objects of its own parameters.
GroundRelationBinding(S, h) ==
    Intern(S, RelationBindingData(h, SubSeq(S.binding, 1, Len(Read(S, h).variables))))

ProductOf(ds) ==
    {b \in [DOMAIN ds -> UNION {ds[i] : i \in DOMAIN ds}] : \A i \in DOMAIN ds : b[i] \in ds[i]}

\* The tuples of objects for the universal variables of an effect, from the domains of the
\* effect; those of the parameters of the action are skipped.
EffectBindings(domains, effect, arity) ==
    ProductOf(SubSeq(domains[effect], arity + 1, Len(domains[effect])))

\* Mutant: the binding keeps the objects of the universal variables.
GroundEffectKeepsBinding(S, effect, domains, arity) ==
    LET Extended(T, b) == GroundConditionalEffect([T EXCEPT !.binding = S.binding \o b], effect)
    IN  Each(Extended, S, SetToSeq(EffectBindings(domains, effect, arity)))

\* One effect under every extension of the binding; the binding is restored afterwards.
GroundEffect(S, effect, domains, arity) ==
    LET Extended(T, b) == GroundConditionalEffect([T EXCEPT !.binding = S.binding \o b], effect)
    IN  [Each(Extended, S, SetToSeq(EffectBindings(domains, effect, arity))) EXCEPT !.binding = S.binding]

\* The cache from bindings to ground actions and axioms.
Cached(g, row) == [g EXCEPT !.cache = @ @@ (row :> g.ret)]

NewGroundAction(es, row, condition) ==
    Cached(P!Create(es, P!GroundActionData(row, condition, FlattenSeq(es.ret))), row)

GroundActionEffects(c, row, a, domains) ==
    LET Effect(T, effect) == GroundEffect(T, effect, domains, Len(a.variables))
    IN  NewGroundAction(Each(Effect, c, a.effects), row, c.ret)

GroundActionOf(b, a, domains) ==
    IF b.ret \in DOMAIN b.cache THEN Return(b, b.cache[b.ret])
    ELSE GroundActionEffects(GroundConjunctiveCondition(b, a.condition), b.ret, a, domains)

GroundAction(S, h, domains) == GroundActionOf(GroundRelationBinding(S, h), Read(S, h), domains)

NewGroundAxiom(head, row, body) == Cached(P!Create(head, P!GroundAxiomData(row, body, head.ret)), row)

GroundAxiomHead(body, row, head) == NewGroundAxiom(GroundAtom(body, head), row, body.ret)

GroundAxiomOf(b, x) ==
    IF b.ret \in DOMAIN b.cache THEN Return(b, b.cache[b.ret])
    ELSE GroundAxiomHead(GroundConjunctiveCondition(b, x.body), b.ret, x.head)

GroundAxiom(S, h) == GroundAxiomOf(GroundRelationBinding(S, h), Read(S, h))

\* try_ground: the ground symbol if it exists; nothing is created.
TryGroundFunctionTerm(S, h) ==
    LET row == Find(S.R, S.dst, RelationBindingData(Read(S, h).function, BoundObjects(S, Read(S, h).terms)))
    IN  IF row = None THEN None ELSE Find(S.R, S.dst, P!GroundFunctionTermData(h.k[2], row))

TryGroundAtom(S, h) ==
    LET row == Find(S.R, S.dst, RelationBindingData(Read(S, h).predicate, BoundObjects(S, Read(S, h).terms)))
    IN  IF row = None THEN None ELSE Find(S.R, S.dst, P!GroundAtomData(h.k[2], row))

(***************************************************************************)
(* Datalog.                                                                *)
(***************************************************************************)

DatalogFunctionBinding(S, function, terms) ==
    Intern(S, RelationBindingData(function, BoundObjects(S, terms)))

DatalogFunctionTerm(S, h) ==
    D!NewGroundFunctionTerm(DatalogFunctionBinding(S, Read(S, h).function, Read(S, h).terms))

RECURSIVE DatalogFunctionExpression(_, _)

DatalogUnaryOperator(S, h) ==
    D!NewUnaryOperator(DatalogFunctionExpression(S, Read(S, h).arg), h.k[2], "ground")

DatalogBinaryOperator(S, h) ==
    D!NewBinaryOperator(Each(DatalogFunctionExpression, S, <<Read(S, h).lhs, Read(S, h).rhs>>), h.k[2], "ground")

DatalogMultiOperator(S, h) ==
    D!NewMultiOperator(Each(DatalogFunctionExpression, S, Read(S, h).args), h.k[2], "ground")

DatalogFunctionExpression(S, h) ==
    CASE h.k[1] = "Float" -> Return(S, h)
      [] h.k[1] = "Unary" -> DatalogUnaryOperator(S, h)
      [] h.k[1] = "Binary" -> DatalogBinaryOperator(S, h)
      [] h.k[1] = "Multi" -> DatalogMultiOperator(S, h)
      [] h.k[1] = "FunctionTerm" -> DatalogFunctionTerm(S, h)

DatalogPredicateBinding(S, predicate, terms) ==
    Intern(S, RelationBindingData(predicate, BoundObjects(S, terms)))

DatalogAtom(S, h) ==
    D!NewGroundAtom(DatalogPredicateBinding(S, Read(S, h).predicate, Read(S, h).terms))

DatalogLiteral(S, h) ==
    D!NewGroundLiteral(DatalogAtom(S, Read(S, h).atom), Read(S, h).polarity)

DatalogConjunct(S, h) ==
    IF h.k[1] = "Literal" THEN DatalogLiteral(S, h) ELSE DatalogFunctionExpression(S, h)

DatalogConjuncts(S, list) == Each(DatalogConjunct, S, list)

DatalogCondition(S, d) ==
    D!NewGroundConjunctiveCondition(
        Each(DatalogConjuncts, S, <<d.static_literals, d.fluent_literals, d.numeric_constraints>>))

DatalogConjunctiveCondition(S, h) == DatalogCondition(S, Read(S, h))

\* ground_binding: only the row of the head, or of the rule itself.
DatalogAtomBinding(S, h) ==
    Intern(S, RelationBindingData(Read(S, h).predicate, BoundObjects(S, Read(S, h).terms)))

DatalogRuleBinding(S, h) == Intern(S, RelationBindingData(h, S.binding))

DatalogRuleHead(head, row, body) == D!Create(head, D!GroundRuleData(row, body, head.ret))
DatalogRuleBody(body, row, head) == DatalogRuleHead(DatalogAtom(body, head), row, body.ret)
DatalogRuleOf(b, rule) == DatalogRuleBody(DatalogConjunctiveCondition(b, rule.body), b.ret, rule.head)

DatalogRule(S, h) == DatalogRuleOf(DatalogRuleBinding(S, h), Read(S, h))

TryDatalogFunctionBinding(S, h) ==
    Find(S.R, S.dst, RelationBindingData(Read(S, h).function, BoundObjects(S, Read(S, h).terms)))

TryDatalogAtomBinding(S, h) ==
    Find(S.R, S.dst, RelationBindingData(Read(S, h).predicate, BoundObjects(S, Read(S, h).terms)))
=========================================================================
