----------------------------- MODULE RuleBodies -----------------------------
(***************************************************************************)
(* What the consistency graph of a rule knows about its body. The facts of  *)
(* a symbol are kept twice: as fact sets, for exact tests, and as           *)
(* assignment sets, bit vectors over what single arguments and pairs of     *)
(* arguments occur in some fact. A binding of one parameter (a vertex) or   *)
(* of two (an edge) is consistent if the assignment sets do not exclude it; *)
(* what they cannot decide is left to an applicability check.               *)
(*                                                                          *)
(* A term is <<"o", object>> or <<"p", parameter>>. A literal is a record   *)
(* [sym, sort, terms, pos], a function term [sym, sort, terms]; the sort is *)
(* "static", "fluent" or "derived". An expression is [kind, ...]: a "num"   *)
(* with its value, a "fterm", or an arithmetic operator with its args.      *)
(* Facts are records of atoms <<symbol, objects>> and values <<symbol,      *)
(* objects, value>>. The domains of parameters and positions come first.    *)
(***************************************************************************)
EXTENDS Integers, Sequences, FiniteSets, SequencesExt, FiniteSetsExt

-----------------------------------------------------------------------------
(* compute_variable_domains of a Datalog program (analysis): which objects   *)
(* can occur at which position of a predicate or function, and which can be  *)
(* bound to a parameter of a rule. Static symbols bound the parameters, and  *)
(* the parameters bound the fluent symbols; the consistency graph of a rule  *)
(* and the tables of the assignment sets have no place for other objects.    *)

IsParameter(t) == t[1] = "p"
IsObject(t) == t[1] = "o"

\* The function terms of an expression, by which the policies reach it.
RECURSIVE FunctionTermsOf(_)
FunctionTermsOf(e) ==
    CASE e.kind = "num" -> {}
      [] e.kind = "fterm" -> {e.fterm}
      [] OTHER -> UNION {FunctionTermsOf(e.args[i]) : i \in DOMAIN e.args}

\* A constraint compares two expressions.
ConstraintTerms(c) == FunctionTermsOf(c.lhs) \cup FunctionTermsOf(c.rhs)
TermsOfConstraints(C) == UNION {ConstraintTerms(c) : c \in C}

\* The occurrences of terms in a set of literals and function terms.
Occurrences(U) == UNION {{[sym |-> u.sym, pos |-> i, term |-> u.terms[i]] : i \in DOMAIN u.terms} : u \in U}

-----------------------------------------------------------------------------
(* The domains of symbols are triples <<symbol, position, object>>.         *)

\* insert_into_predicate_domain_sets: the arguments of ground atoms <<symbol, objects>>.
AtomDomains(A) == UNION {{<<a[1], i, a[2][i]>> : i \in DOMAIN a[2]} : a \in A}

\* insert_into_function_domain_sets: those of function values <<symbol, objects, value>>.
ValueDomains(V) == UNION {{<<v[1], i, v[2][i]>> : i \in DOMAIN v[2]} : v \in V}

\* Constants among the occurrences O.
ConstantDomains(O) == {<<o.sym, o.pos, o.term[2]>> : o \in {x \in O : IsObject(x.term)}}

\* InsertConstantPolicy: the constants of atoms of either polarity and of static functions.
InsertConstants(dom, literals, fterms) ==
    dom \cup ConstantDomains(Occurrences(literals \cup {t \in fterms : t.sort # "fluent"}))

\* Mutant: a parameter is bounded by negative literals, too.
RestrictByAll(dom, params, literals, fterms) ==
    LET O == Occurrences(literals \cup {t \in fterms : t.sort # "fluent"})
    IN  [p \in DOMAIN params |->
            {x \in params[p] : \A o \in O : o.term = <<"p", p>> => <<o.sym, o.pos, x>> \in dom}]

\* RestrictPolicy: a parameter is bounded by the positive literals and the static
\* functions it occurs in.
RestrictDomains(dom, params, literals, fterms) ==
    LET O == Occurrences({l \in literals : l.pos} \cup {t \in fterms : t.sort # "fluent"})
    IN  [p \in DOMAIN params |->
            {x \in params[p] : \A o \in O : o.term = <<"p", p>> => <<o.sym, o.pos, x>> \in dom}]

\* LiftPolicy: literals and fluent functions get their constants and all that
\* their parameters can be.
Lift(dom, params, literals, fterms) ==
    LET O == Occurrences(literals \cup {t \in fterms : t.sort = "fluent"})
    IN  dom \cup ConstantDomains(O)
            \cup UNION {{<<o.sym, o.pos, x>> : x \in params[o.term[2]]} : o \in {y \in O : IsParameter(y.term)}}

-----------------------------------------------------------------------------
(* A program is a record of objects, of static and initial fluent facts,    *)
(* each with atoms and function values, and of the sequence of its rules,   *)
(* records [arity, literals, constraints, head]; parameters are 1 .. arity. *)

OfSort(L, sort) == {l \in L : l.sort = sort}

\* Steps 1 and 2: what the initial facts say.
InitialDomains(prog) ==
    AtomDomains(prog.static.atoms \cup prog.fluent.atoms)
        \cup ValueDomains(prog.static.values \cup prog.fluent.values)

\* Step 2.5: the constants of the static literals and constraints of the bodies.
WithConstants(prog, dom) ==
    UNION {InsertConstants(dom, OfSort(r.literals, "static"), TermsOfConstraints(r.constraints))
           : r \in ToSet(prog.rules)} \cup dom

\* Step 3: the domains of a rule's parameters, from the static literals and constraints.
RuleDomains(prog, dom, r) ==
    RestrictDomains(dom, [p \in 1 .. r.arity |-> prog.objects], OfSort(r.literals, "static"), TermsOfConstraints(r.constraints))

\* Step 4: body and head of every rule.
LiftedDomains(prog, dom) ==
    dom \cup UNION {Lift(dom, RuleDomains(prog, dom, r), r.literals \cup {r.head}, TermsOfConstraints(r.constraints))
                    : r \in ToSet(prog.rules)}

StaticDomains(prog) == WithConstants(prog, InitialDomains(prog))

\* The domains of one rule and of all symbols.
DomainsOfRule(prog, r) == RuleDomains(prog, StaticDomains(prog), r)
DomainsOfSymbols(prog) == LiftedDomains(prog, StaticDomains(prog))

\* The domain of the position i of a symbol.
DomainAt(dom, sym, i) == {d[3] : d \in {e \in dom : e[1] = sym /\ e[2] = i}}

-----------------------------------------------------------------------------
(* The shape of a body                                                      *)

\* collect_parameters
Parameters(terms) == {terms[i][2] : i \in {j \in DOMAIN terms : IsParameter(terms[j])}}

\* collect_parameters of a constraint
ConstraintParameters(c) == UNION {Parameters(t.terms) : t \in ConstraintTerms(c)}

\* kpkc_arity: of a literal the arity of its predicate, of a constraint the number of
\* its parameters (max_fterm_arity ends in a number, whose arity is 0).
LiteralArity(l) == Len(l.terms)
ConstraintArity(c) == Cardinality(ConstraintParameters(c))

\* A body is a record of literals and constraints.
Body(literals, constraints) == [literals |-> literals, constraints |-> constraints]

\* Mutant: a negative literal of a higher arity is kept like a positive one.
OverapproximationOfAll(k, r) ==
    Body({l \in r.literals : LiteralArity(l) >= k}, {c \in r.constraints : ConstraintArity(c) >= k})

\* create_overapproximation_conjunctive_condition: a projection of a negative literal
\* says nothing, so it is kept at its own arity only.
Overapproximation(k, r) ==
    Body({l \in r.literals : IF l.pos THEN LiteralArity(l) >= k ELSE LiteralArity(l) = k},
         {c \in r.constraints : ConstraintArity(c) >= k})

\* create_overapproximation_conflicting_conjunctive_condition
Conflicting(k, r) ==
    Body({l \in r.literals : LiteralArity(l) > k}, {c \in r.constraints : ConstraintArity(c) > k})

\* create_ground_nullary_conjunctive_condition
Nullary(r) ==
    Body({l \in r.literals : Parameters(l.terms) = {}}, {c \in r.constraints : ConstraintParameters(c) = {}})

\* ConstRuleWorkspace: a rule of one parameter has no edges to check pairs with.
ConflictingOf(r) == Conflicting(IF r.arity = 1 THEN 1 ELSE 2, r)

-----------------------------------------------------------------------------
(* VariableDependencyGraph                                                  *)

\* The parameter sets of the literals of the given sorts, and of the constraints.
Scopes(body, sorts) ==
    {Parameters(l.terms) : l \in {m \in body.literals : m.sort \in sorts}}
        \cup {ConstraintParameters(c) : c \in body.constraints}

UnaryDependencies(body, sorts) == UNION Scopes(body, sorts)

BinaryDependencies(body, sorts) ==
    UNION {{pq \in s \X s : pq[1] < pq[2]} : s \in Scopes(body, sorts)}

-----------------------------------------------------------------------------
(* PerfectAssignmentHash                                                    *)

\* The constructor: every position has a slot for each object of its domain, after
\* one for all the others; slot 0 is the empty assignment's. offsets[n + 1] is the
\* number of slots.
AssignmentHash(domains) ==
    [domains |-> domains,
     offsets |-> [i \in 1 .. Len(domains) + 1 |->
                    1 + MapThenSumSet(LAMBDA j : 1 + Cardinality(domains[j]), 1 .. i - 1)]]

\* get_rank of a vertex assignment: object o at position i
VertexRank(hash, i, o) ==
    hash.offsets[i] + (IF o \in hash.domains[i] THEN Cardinality({x \in hash.domains[i] : x <= o}) ELSE 0)

\* get_rank of an edge assignment: objects o and u at the positions i < j
EdgeRank(hash, i, o, j, u) ==
    VertexRank(hash, i, o) * hash.offsets[Len(hash.offsets)] + VertexRank(hash, j, u)

\* EmptyAssignment::rank
EmptyRank == 0

\* The bits an argument list sets: each position, each pair of positions in order.
RanksOf(hash, objects) ==
    {VertexRank(hash, i, objects[i]) : i \in DOMAIN objects}
        \cup {EdgeRank(hash, ij[1], objects[ij[1]], ij[2], objects[ij[2]])
              : ij \in {x \in (DOMAIN objects) \X (DOMAIN objects) : x[1] < x[2]}}

\* PredicateAssignmentSet::insert, of all atoms of a predicate
PredicateSet(hash, sym, atoms) == UNION {RanksOf(hash, a[2]) : a \in {b \in atoms : b[1] = sym}}

\* FunctionAssignmentSet::insert, of all values of a function: what was inserted at
\* a rank; the interval stored there is the hull of these values.
FunctionSet(hash, sym, values) ==
    UNION {{<<rank, v[3]>> : rank \in RanksOf(hash, v[2]) \cup {EmptyRank}} : v \in {w \in values : w[1] = sym}}

\* TaggedAssignmentSets::insert, of all fact sets: per symbol its set.
AssignmentSets(hashes, facts) ==
    [predicate |-> [s \in DOMAIN hashes |-> PredicateSet(hashes[s], s, facts.atoms)],
     function |-> [s \in DOMAIN hashes |-> FunctionSet(hashes[s], s, facts.values)]]

-----------------------------------------------------------------------------
(* Closed intervals; every interval with lo > hi is empty                   *)

Interval(lo, hi) == [lo |-> lo, hi |-> hi]
NoInterval == Interval(1, 0)
IsEmpty(x) == x.lo > x.hi

Hull(V) == IF V = {} THEN NoInterval ELSE Interval(Min(V), Max(V))

Intersection(x, y) == Interval(Max({x.lo, y.lo}), Min({x.hi, y.hi}))
IntersectionOf(I) == FoldSet(Intersection, CHOOSE x \in I : TRUE, I)

\* apply of an arithmetic operator, to two numbers
ApplyScalar(op, a, b) ==
    CASE op = "+" -> a + b
      [] op = "-" -> a - b
      [] op = "*" -> a * b

\* apply, to two intervals: monotone operators are extreme in the corners.
ApplyInterval(op, x, y) ==
    IF IsEmpty(x) \/ IsEmpty(y) THEN NoInterval
    ELSE Hull({ApplyScalar(op, a, b) : a \in {x.lo, x.hi}, b \in {y.lo, y.hi}})

Negated(x) == IF IsEmpty(x) THEN NoInterval ELSE Interval(-x.hi, -x.lo)

\* apply of a boolean operator, to two numbers
Compare(op, a, b) ==
    CASE op = "=" -> a = b
      [] op = "!=" -> a # b
      [] op = ">=" -> a >= b
      [] op = ">" -> a > b
      [] op = "<=" -> a <= b
      [] op = "<" -> a < b

\* apply_existential: some numbers of the intervals satisfy the comparison.
CompareExistential(op, x, y) ==
    /\ ~IsEmpty(x) /\ ~IsEmpty(y)
    /\ CASE op = "=" -> x.lo <= y.hi /\ x.hi >= y.lo
         [] op = "!=" -> x.lo = x.hi /\ y.lo = y.hi => x.lo # y.lo
         [] op \in {">=", ">"} -> Compare(op, x.hi, y.lo)
         [] op \in {"<=", "<"} -> Compare(op, x.lo, y.hi)

-----------------------------------------------------------------------------
(* Consistency. A structure is a vertex <<po>> or an edge <<po, qu>> of     *)
(* pairs <<parameter, object>>, the parameters in order.                    *)

PositionsOf(terms, p) == {i \in DOMAIN terms : terms[i] = <<"p", p>>}
ConstantPositions(terms) == {i \in DOMAIN terms : IsObject(terms[i])}

PairRank(hash, i, o, j, u) == IF i < j THEN EdgeRank(hash, i, o, j, u) ELSE EdgeRank(hash, j, u, i, o)

\* The ranks of one parameter together with the constants of the terms.
WithConstantRanks(hash, terms, po) ==
    {PairRank(hash, i, po[2], c, terms[c][2]) : i \in PositionsOf(terms, po[1]), c \in ConstantPositions(terms)}

ConstantRanks(hash, terms) == {VertexRank(hash, c, terms[c][2]) : c \in ConstantPositions(terms)}

\* The ranks tested for a vertex: the parameter's positions, alone and together with
\* the constants, and the constants.
VertexRanks(hash, terms, po) ==
    {VertexRank(hash, i, po[2]) : i \in PositionsOf(terms, po[1])}
        \cup WithConstantRanks(hash, terms, po) \cup ConstantRanks(hash, terms)

\* The ranks tested for an edge: both parameters' positions together, and each one's
\* together with the constants.
EdgeRanks(hash, terms, po, qu) ==
    {PairRank(hash, i, po[2], j, qu[2]) : i \in PositionsOf(terms, po[1]), j \in PositionsOf(terms, qu[1])}
        \cup WithConstantRanks(hash, terms, po) \cup WithConstantRanks(hash, terms, qu)

ConstantPairRanks(hash, terms) ==
    {EdgeRank(hash, cd[1], terms[cd[1]][2], cd[2], terms[cd[2]][2])
     : cd \in {x \in ConstantPositions(terms) \X ConstantPositions(terms) : x[1] < x[2]}}

\* consistent_literals of a vertex: the literals its parameter occurs in.
VertexConsistent(hashes, sets, literals, po) ==
    \A l \in literals : po[1] \in Parameters(l.terms) =>
        \A rank \in VertexRanks(hashes[l.sym], l.terms, po) : (rank \in sets.predicate[l.sym]) = l.pos

\* consistent_literals of an edge
EdgeConsistent(hashes, sets, literals, po, qu) ==
    \A l \in literals :
        \A rank \in EdgeRanks(hashes[l.sym], l.terms, po, qu) : (rank \in sets.predicate[l.sym]) = l.pos

\* The hulls stored at the ranks, intersected.
BoundsAt(set, ranks) == IntersectionOf({Hull({x[2] : x \in {y \in set : y[1] = r}}) : r \in ranks})

\* consistent_interval of a function term for a vertex
VertexInterval(hash, set, terms, po) == BoundsAt(set, {EmptyRank} \cup VertexRanks(hash, terms, po))

\* consistent_interval of a function term for an edge
EdgeInterval(hash, set, terms, po, qu) ==
    BoundsAt(set, {EmptyRank} \cup VertexRanks(hash, terms, po) \cup VertexRanks(hash, terms, qu)
                    \cup EdgeRanks(hash, terms, po, qu) \cup ConstantPairRanks(hash, terms))

\* consistent_interval of an expression; several arguments are folded from the left.
RECURSIVE ConsistentInterval(_, _, _, _)
ConsistentInterval(hashes, sets, e, structure) ==
    CASE e.kind = "num" -> Interval(e.value, e.value)
      [] e.kind = "fterm" ->
            IF Len(structure) = 1
            THEN VertexInterval(hashes[e.fterm.sym], sets.function[e.fterm.sym], e.fterm.terms, structure[1])
            ELSE EdgeInterval(hashes[e.fterm.sym], sets.function[e.fterm.sym], e.fterm.terms, structure[1], structure[2])
      [] OTHER ->
            IF Len(e.args) = 1 THEN Negated(ConsistentInterval(hashes, sets, e.args[1], structure))
            ELSE FoldLeft(LAMBDA x, a : ApplyInterval(e.kind, x, ConsistentInterval(hashes, sets, a, structure)),
                          ConsistentInterval(hashes, sets, e.args[1], structure), Tail(e.args))

\* consistent_numeric_constraints: all of them, whichever parameters they have.
ConstraintsConsistent(hashes, sets, constraints, structure) ==
    \A c \in constraints :
        CompareExistential(c.op, ConsistentInterval(hashes, sets, c.lhs, structure),
                           ConsistentInterval(hashes, sets, c.rhs, structure))

-----------------------------------------------------------------------------
(* Exact tests                                                              *)

Ground(terms, b) == [i \in DOMAIN terms |-> IF IsParameter(terms[i]) THEN b[terms[i][2]] ELSE terms[i][2]]

\* is_valid_binding of a literal
LiteralHolds(l, b, facts) == (<<l.sym, Ground(l.terms, b)>> \in facts.atoms) = l.pos

\* FunctionFactSet: the value of a ground term, or none (NaN)
ValueOf(t, b, facts) == {v[3] : v \in {w \in facts.values : w[1] = t.sym /\ w[2] = Ground(t.terms, b)}}

\* is_valid_binding of an expression: its value, or none
RECURSIVE Evaluated(_, _, _)
Evaluated(e, b, facts) ==
    CASE e.kind = "num" -> {e.value}
      [] e.kind = "fterm" -> ValueOf(e.fterm, b, facts)
      [] OTHER ->
            IF Len(e.args) = 1 THEN {-v : v \in Evaluated(e.args[1], b, facts)}
            ELSE FoldLeft(LAMBDA V, a : {ApplyScalar(e.kind, v, w) : v \in V, w \in Evaluated(a, b, facts)},
                          Evaluated(e.args[1], b, facts), Tail(e.args))

\* is_valid_binding of a constraint: NaN is different from every number.
ConstraintHolds(c, b, facts) ==
    LET holds(op) == \E v \in Evaluated(c.lhs, b, facts), w \in Evaluated(c.rhs, b, facts) : Compare(op, v, w)
    IN  IF c.op = "!=" THEN ~holds("=") ELSE holds(c.op)

\* is_valid_binding of a condition
BodyHolds(body, b, facts) ==
    /\ \A l \in body.literals : LiteralHolds(l, b, facts)
    /\ \A c \in body.constraints : ConstraintHolds(c, b, facts)

\* What the facts do not satisfy of a condition, for one binding.
UnsatisfiedOf(body, b, facts) ==
    Body({l \in body.literals : ~LiteralHolds(l, b, facts)}, {c \in body.constraints : ~ConstraintHolds(c, b, facts)})

IsSatisfied(body) == body.literals = {} /\ body.constraints = {}
=============================================================================
