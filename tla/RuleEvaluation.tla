--------------------------- MODULE RuleEvaluation ---------------------------
(***************************************************************************)
(* The enumeration of the new k-cliques of the consistency graph, that is,  *)
(* of the bindings of all k parameters of a rule that the new facts enable  *)
(* (delta_kpkc), and one rule of a Datalog program from its text to its     *)
(* heads.                                                                   *)
(*                                                                          *)
(* A clique is new if one of its edges is; the search is anchored at every  *)
(* edge of the delta graph in turn and excludes the delta edges of smaller  *)
(* rank, so that a clique with several new edges is found once, at the      *)
(* first of them. Module BottomUp takes this for granted (NewCliques).      *)
(*                                                                          *)
(* A rule goes through the domains of the program, the assignment sets, the *)
(* static consistency graph, the cliques of the dynamic one, and the        *)
(* applicability check of each clique. The facts grow from one evaluation   *)
(* of the rule to the next, within one solve; what they say is decided in   *)
(* four places, none of which sees the whole body: literals and constraints *)
(* over one parameter at the vertices, over two at the edges, without       *)
(* parameters and over more at the check.                                   *)
(***************************************************************************)
EXTENDS ConsistencyGraph, RuleBodies, Bags, Folds, TLC

CONSTANTS
    MaxIterations,  \* bound on the evaluations of a rule in one solve
    RulePrograms    \* programs; the first rule is evaluated. Two more fields say what
                    \* happens around it: starts, the fluent facts it is solved
                    \* from, and derivable, the atoms that other rules derive

VARIABLES
    found,      \* the cliques passed to the callback, a bag
    prog,
    workspace,  \* ConstRuleWorkspace
    facts,      \* fact sets, static and fluent
    pending,    \* pending_rules: applicability checks by binding
    heads       \* the head atoms found in this solve

vars == <<graphVars, found>>
ruleVars == <<prog, workspace, facts, pending, heads>>
evaluationVars == <<vars, ruleVars>>

-----------------------------------------------------------------------------
(* The cliques of the dynamic graph: delta_kpkc                             *)

Partition == 1 .. static.k

\* seed_from_anchor: the vertices adjacent to both ends of the anchor, without the
\* delta edges whose rank is below the anchor's.
SeedFromAnchor(u, v) ==
    LET pi == static.part[u]  pj == static.part[v]
    IN  [p \in Partition \ {pi, pj} |->
            ((Adjacent(full, u, p) \cap Adjacent(full, v, p))
                \ (IF p < pj THEN Adjacent(delta, u, p) ELSE {}))
                \ (IF p < pi THEN Adjacent(delta, v, p) ELSE {})]

\* choose_best_partition: the first one with the fewest candidates.
BestPartition(cv) ==
    CHOOSE p \in DOMAIN cv : \A q \in DOMAIN cv :
        \/ Cardinality(cv[p]) < Cardinality(cv[q])
        \/ Cardinality(cv[p]) = Cardinality(cv[q]) /\ p <= q

\* Mutant: the rank of an edge is taken from the vertex just chosen only.
NextDepthSource(cv, v, anchor) ==
    [q \in DOMAIN cv \ {static.part[v]} |->
        (cv[q] \cap Adjacent(full, v, q))
            \ (IF static.part[v] < anchor THEN Adjacent(delta, v, q) ELSE {})]

\* update_compatible_adjacent_vertices_at_next_depth; anchor is the smaller
\* partition of the anchor edge, and 0, below all partitions, without anchor.
NextDepth(cv, v, anchor) ==
    [q \in DOMAIN cv \ {static.part[v]} |->
        (cv[q] \cap Adjacent(full, v, q))
            \ (IF static.part[v] < anchor \/ q < anchor THEN Adjacent(delta, v, q) ELSE {})]

\* complete_from_seed: the cliques that extend sol by candidates from cv.
RECURSIVE CompleteFromSeed(_, _, _)
CompleteFromSeed(sol, cv, anchor) ==
    LET p == BestPartition(cv)
        with(v) == (p :> v) @@ sol
        deeper(v) == NextDepth(cv, v, anchor)
        below(v) ==
            IF DOMAIN deeper(v) = {} THEN SetToBag({with(v)})
            ELSE IF \E q \in DOMAIN deeper(v) : deeper(v)[q] = {} THEN EmptyBag
            ELSE CompleteFromSeed(with(v), deeper(v), anchor)
    IN  MapThenFoldSet(LAMBDA x, y : x (+) y, EmptyBag, below, LAMBDA S : CHOOSE v \in S : TRUE,
                       cv[p])

CliqueOf(e) == (static.part[e[1]] :> e[1]) @@ (static.part[e[2]] :> e[2])

\* The cliques found from one anchor edge; k = 2 needs no search.
Anchored(e) ==
    LET seed == SeedFromAnchor(e[1], e[2])
    IN  IF static.k = 2 THEN SetToBag({CliqueOf(e)})
        ELSE IF \E p \in DOMAIN seed : seed[p] = {} THEN EmptyBag
        ELSE CompleteFromSeed(CliqueOf(e), seed, static.part[e[1]])

\* for_each_k_clique
AllCliques ==
    CASE static.k = 0 -> SetToBag({<<>>})
      [] static.k = 1 -> SetToBag({1 :> v : v \in full.affected})
      [] static.k = 2 -> SetToBag({CliqueOf(e) : e \in Edges(full)})
      [] OTHER -> CompleteFromSeed(<<>>, [p \in Partition |-> full.affected \cap VerticesOf(p)], 0)

\* for_each_new_k_clique
NewCliques ==
    IF iteration = 1 THEN AllCliques
    ELSE CASE static.k = 0 -> EmptyBag
           [] static.k = 1 -> SetToBag({1 :> v : v \in delta.affected})
           [] OTHER -> MapThenFoldSet(LAMBDA x, y : x (+) y, EmptyBag, Anchored,
                                      LAMBDA S : CHOOSE e \in S : TRUE, Edges(delta))

-----------------------------------------------------------------------------

Init == GraphInit /\ found = EmptyBag

\* initialize: the context of a rule is cleared for the next solve.
Clear ==
    /\ iteration > 0
    /\ ResetGraphs
    /\ found' = EmptyBag

\* The evaluation of the rule: the graphs are updated, then the cliques enumerated.
Evaluate(V, E) ==
    /\ iteration < MaxIterations
    /\ Growing(V, E)
    /\ SetNextAssignmentSets(V, E)
    /\ found' = NewCliques'

RuntimeVertices == {v \in Vertex : static.part[v] \in static.unaryRuntime}

RuntimeEdges ==
    {e \in static.edges : <<static.part[e[1]], static.part[e[2]]>> \in static.binaryRuntime}

Next ==
    \/ Clear
    \/ \E V \in SUBSET RuntimeVertices, E \in SUBSET RuntimeEdges : Evaluate(V, E)

Spec == Init /\ [][Next]_vars

-----------------------------------------------------------------------------
(* ConstRuleWorkspace                                                       *)

\* The symbols of a program, with their arities.
Used(P) == UNION {{<<u.sym, Len(u.terms)>> : u \in r.literals \cup {r.head} \cup TermsOfConstraints(r.constraints)}
                  : r \in ToSet(P.rules)}

\* PredicateAssignmentSets, FunctionAssignmentSets: a hash per symbol.
Hashes(P, dom) ==
    [s \in {u[1] : u \in Used(P)} |->
        LET arity == (CHOOSE u \in Used(P) : u[1] = s)[2]
        IN  AssignmentHash([i \in 1 .. arity |-> DomainAt(dom, s, i)])]

\* compute_vertices: the objects of each parameter's domain in order, but for those
\* that the static literals exclude.
ComputeVertices(hashes, sets, unary, domains) ==
    FlattenSeq([p \in 1 .. Len(domains) |->
        SelectSeq([i \in 1 .. Cardinality(domains[p]) |-> <<p, SetToSortSeq(domains[p], <)[i]>>],
                  LAMBDA po : VertexConsistent(hashes, sets, OfSort(unary.literals, "static"), po))])

\* The workspace but for the vertices.
Conditions(P, dom, r) ==
    [rule |-> r, hashes |-> Hashes(P, dom),
     unary |-> Overapproximation(1, r), binary |-> Overapproximation(2, r),
     nullary |-> Nullary(r), conflicting |-> ConflictingOf(r)]

WithVertices(ws, sets, domains) == ws @@ [vertices |-> ComputeVertices(ws.hashes, sets, ws.unary, domains)]

WorkspaceOf(P, ws) ==
    WithVertices(ws, AssignmentSets(ws.hashes, P.static), DomainsOfRule(P, ws.rule))

ConstRuleWorkspace(P) == WorkspaceOf(P, Conditions(P, DomainsOfSymbols(P), P.rules[1]))

\* compute_edges: pairs of vertices that the static literals do not exclude.
ComputeEdges(ws, sets) ==
    {<<v, w>> \in (DOMAIN ws.vertices) \X (DOMAIN ws.vertices) :
        /\ ws.vertices[v][1] < ws.vertices[w][1]
        /\ EdgeConsistent(ws.hashes, sets, OfSort(ws.binary.literals, "static"), ws.vertices[v], ws.vertices[w])}

\* StaticConsistencyGraph
StaticConsistencyGraph(P, ws) ==
    [k |-> ws.rule.arity,
     part |-> [v \in Vertex |-> IF v \in DOMAIN ws.vertices THEN ws.vertices[v][1] ELSE 0],
     edges |-> ComputeEdges(ws, AssignmentSets(ws.hashes, P.static)),
     binary |-> BinaryDependencies(ws.binary, {"static", "fluent"}),
     unaryRuntime |-> UnaryDependencies(ws.unary, {"fluent"}),
     binaryRuntime |-> BinaryDependencies(ws.binary, {"fluent"})]

StaticGraphOf(P) == StaticConsistencyGraph(P, ConstRuleWorkspace(P))

-----------------------------------------------------------------------------
(* The dynamic graphs                                                       *)

\* The vertices and edges of initialize_dynamic_consistency_graphs.
ConsistentVertices(ws, sets) ==
    {v \in DOMAIN ws.vertices :
        /\ VertexConsistent(ws.hashes, sets, OfSort(ws.unary.literals, "fluent"), ws.vertices[v])
        /\ ConstraintsConsistent(ws.hashes, sets, ws.unary.constraints, <<ws.vertices[v]>>)}

ConsistentEdges(ws, sets) ==
    {e \in static.edges :
        /\ EdgeConsistent(ws.hashes, sets, OfSort(ws.binary.literals, "fluent"), ws.vertices[e[1]], ws.vertices[e[2]])
        /\ ConstraintsConsistent(ws.hashes, sets, ws.binary.constraints, <<ws.vertices[e[1]], ws.vertices[e[2]]>>)}

\* initialize: the graphs see the facts through their assignment sets.
GraphStep(ws, sets) ==
    /\ iteration < MaxIterations
    /\ SetNextAssignmentSets(ConsistentVertices(ws, sets), ConsistentEdges(ws, sets))
    /\ found' = NewCliques'

-----------------------------------------------------------------------------
(* The evaluation of the rule                                               *)

\* PredicateFactSets::insert
Inserted(F, A) == [F EXCEPT !.atoms = @ \cup A]

\* The fact sets of a state: atoms, and a value for every ground function term.
FactSets(S) == [atoms |-> prog.static.atoms \cup S.atoms, values |-> prog.static.values \cup S.values]

\* create_general_binding
BindingOf(clique) == [p \in DOMAIN clique |-> workspace.vertices[clique[p]][2]]

HeadOf(b) == <<workspace.rule.head.sym, Ground(workspace.rule.head.terms, b)>>

\* ApplicabilityCheck: a binding with what is not satisfied yet of the nullary and of
\* the conflicting condition. Nothing satisfied is tested again.
Check(b, nullary, conflicting) == [binding |-> b, nullary |-> nullary, conflicting |-> conflicting]

Fluents(body) == Body(OfSort(body.literals, "fluent"), body.constraints)

\* initialize
InitialCheck(b) == Check(b, Fluents(workspace.nullary), Fluents(workspace.conflicting))

\* is_statically_applicable
StaticallyApplicable(b, F) ==
    \A l \in OfSort(workspace.nullary.literals \cup workspace.conflicting.literals, "static") : LiteralHolds(l, b, F)

\* is_dynamically_applicable: the conflicting condition only after the nullary one.
Updated(check, F) ==
    LET nullary == UnsatisfiedOf(check.nullary, check.binding, F)
    IN  Check(check.binding, nullary,
              IF IsSatisfied(nullary) THEN UnsatisfiedOf(check.conflicting, check.binding, F) ELSE check.conflicting)

IsApplicable(check) == IsSatisfied(check.nullary) /\ IsSatisfied(check.conflicting)

\* process_clique: the checks of new cliques whose head is not a fact.
NewChecks(F, B) ==
    {Updated(InitialCheck(b), F) : b \in {c \in B : HeadOf(c) \notin F.atoms /\ StaticallyApplicable(c, F)}}

\* process_pending: those left over from earlier evaluations.
OldChecks(F) == {Updated(c, F) : c \in {d \in pending : HeadOf(d.binding) \notin F.atoms}}

\* generate_nullary_case: without parameters there is no graph, the body is tested.
NullaryHeads(F) ==
    IF BodyHolds(workspace.nullary, <<>>, F) /\ BodyHolds(workspace.rule, <<>>, F) THEN {HeadOf(<<>>)} ELSE {}

\* The heads and the pending rules after all of these checks.
Checked(C) ==
    /\ heads' = heads \cup {HeadOf(c.binding) : c \in {d \in C : IsApplicable(d)}}
    /\ pending' = {d \in C : ~IsApplicable(d)}

\* The rule under the facts F: pending rules first, then the new cliques.
Generate(F) ==
    IF workspace.rule.arity = 0 THEN heads' = heads \cup NullaryHeads(F) /\ UNCHANGED pending
    ELSE Checked(OldChecks(F) \cup NewChecks(F, {BindingOf(c) : c \in BagToSet(found')}))

-----------------------------------------------------------------------------

EvaluationInit ==
    /\ Init
    /\ prog \in RulePrograms
    /\ workspace = ConstRuleWorkspace(prog)
    /\ static = StaticConsistencyGraph(prog, workspace)
    /\ facts = prog.static
    /\ pending = {}
    /\ heads = {}

\* A solve starts: the rule's context is cleared, the fluent facts are the state's.
StartSolve(S) ==
    /\ iteration' = 0
    /\ IF iteration = 0 THEN UNCHANGED vars ELSE Clear
    /\ facts' = FactSets(S)
    /\ pending' = {}
    /\ heads' = {}
    /\ UNCHANGED <<prog, workspace>>

\* The rule is evaluated under the facts grown by A.
RunRule(A) ==
    /\ facts' = Inserted(facts, A)
    /\ GraphStep(workspace, AssignmentSets(workspace.hashes, facts'))
    /\ Generate(facts')
    /\ UNCHANGED <<prog, workspace>>

EvaluationNext ==
    \/ \E S \in prog.starts : StartSolve(S)
    \/ \E A \in SUBSET (prog.derivable \ facts.atoms) : RunRule(A)

EvaluationSpec == EvaluationInit /\ [][EvaluationNext]_evaluationVars

-----------------------------------------------------------------------------
(* Properties.                                                              *)

\* The k-cliques of the consistency graph for what is consistent.
Cliques(c) ==
    {s \in [Partition -> c.vertices] :
        \A p, q \in Partition :
            /\ static.part[s[p]] = p
            /\ p # q => Compatible(c, s[p], s[q])}

\* An evaluation passes to the callback exactly the cliques of the grown graph that
\* the graph of the previous evaluation did not have, each of them once: whatever
\* combination of new vertices, new stored edges and new implied edges makes it new.
NewCliquesOnce ==
    [][iteration' = iteration + 1 =>
        found' = SetToBag(Cliques(consistent)'
                            \ (IF iteration = 0 THEN {} ELSE Cliques(consistent)))]_vars

\* The bindings of all objects to the parameters that satisfy the whole body.
Satisfying == {b \in [1 .. workspace.rule.arity -> prog.objects] : BodyHolds(workspace.rule, b, facts)}

\* After an evaluation the rule has found the head of every binding that satisfies its
\* body, unless it is a fact already, and no other: whatever the domains, the
\* assignment sets, the graphs, the order of the new facts and the pending checks
\* leave out is wrong for the binding, and what they let through is right
\* (ensure_applicability).
HeadsExact ==
    /\ heads \subseteq {HeadOf(b) : b \in Satisfying}
    /\ iteration > 0 => {HeadOf(b) : b \in Satisfying} \subseteq heads \cup facts.atoms

\* The facts of a solve make no vertex or edge inconsistent again, which the update
\* of the graphs relies on.
GraphsGrow == [][iteration' = iteration + 1 => consistent.vertices \subseteq consistent'.vertices
                                                /\ consistent.edges \subseteq consistent'.edges]_evaluationVars
=============================================================================
