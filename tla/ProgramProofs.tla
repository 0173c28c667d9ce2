--------------------------- MODULE ProgramProofs ---------------------------
(***************************************************************************)
(* Proofs about the programs of a task and about what is done to rules      *)
(* before they are evaluated and while they are. Stratification: for every  *)
(* program and every topological order the strata are those the engine      *)
(* relies on, and the least ones. ConsistencyGraph: for any number of       *)
(* parameters, vertices, evaluations and solves the full graph is exactly   *)
(* what the facts allow, and the delta graph exactly what the last          *)
(* evaluation added. TaskGrounder: dead ends of the relaxation stay dead    *)
(* ends, and a task that is reported unsolvable is.                         *)
(***************************************************************************)
EXTENDS Stratification, ConsistencyGraph, TaskGrounder, FiniteSetTheorems, WellFoundedInduction, TLAPS

-----------------------------------------------------------------------------
(* Stratification                                                           *)

\* The inductive invariant of the loop: components are visited after the components
\* they depend on, so the stratum of a visited component is final and its successors
\* are as far up as it demands.
StrataInv ==
    /\ TypeOK
    /\ pc = "components" => visited = {}
    /\ pc \in {"strata", "done"} =>
        /\ \A u, v \in Predicate : DependsStrictly(u, v) => comp[u] # comp[v]
        /\ \A c \in visited : InOrder(c)
        /\ \A c \in visited, d \in Components :
            DagEdge(c, d) => stratum[c] + Inc(c, d) <= stratum[d]
    /\ pc = "done" =>
        /\ visited = Components
        /\ ruleStratum = [r \in program |-> stratum[comp[r.head]]]

\* No stratification puts a predicate lower than the loop has raised it so far, and a
\* rejected program has none.
NoneLower ==
    /\ pc \in {"strata", "done"} =>
        /\ comp = StrongComponents
        /\ \A f \in [Predicate -> Nat] :
            Stratifies(f) => \A v \in Predicate : stratum[comp[v]] <= f[v]
    /\ pc = "throw" => \A f \in [Predicate -> Nat] : ~Stratifies(f)

-----------------------------------------------------------------------------
(* For every program that passes the check, whatever the order in which the  *)
(* components are visited, the strata are those the engine relies on.        *)

LEMMA IncNat == \A c, d : Inc(c, d) \in Nat
  BY DEF Inc

LEMMA InitStrata == StrataInit => StrataInv
<1> SUFFICES ASSUME StrataInit PROVE StrataInv
  OBVIOUS
<1>1. TypeOK
  BY ProgramAssumption DEF StrataInit, TypeOK, Components
<1> QED BY <1>1 DEF StrataInit, StrataInv

\* The components and the check: nothing is visited yet.
LEMMA ComputeSccInv == StrataInv /\ ComputeScc => StrataInv'
<1> SUFFICES ASSUME StrataInv, ComputeScc PROVE StrataInv'
  OBVIOUS
<1>1. /\ comp' \in [Predicate -> SUBSET Predicate]
      /\ stratum' \in [Components' -> Nat]
      /\ program' = program
      /\ pc' \in {"throw", "strata"}
      /\ visited' = {}
  BY DEF ComputeScc, StrongComponents, StrataInv
<1>2. pc' = "strata" => \A u, v \in Predicate : DependsStrictly(u, v) => comp'[u] # comp'[v]
  BY DEF ComputeScc
<1>3. TypeOK'
  BY <1>1 DEF TypeOK, StrataInv
<1> QED BY <1>1, <1>2, <1>3 DEF StrataInv, DependsStrictly

\* One round of the loop over the components in topological order.
LEMMA VisitInv == ASSUME StrataInv, NEW c \in Components, Visit(c) PROVE StrataInv'
<1>1. /\ pc = "strata" /\ pc' = "strata" /\ c \notin visited /\ InOrder(c)
      /\ visited' = visited \cup {c}
      /\ program' = program /\ comp' = comp /\ ruleStratum' = ruleStratum
      /\ stratum' = [d \in Components |-> Raised(stratum, c, d)]
  BY DEF Visit
<1>2. TypeOK /\ stratum \in [Components -> Nat]
  BY <1>1 DEF StrataInv, TypeOK
<1>3. /\ Components' = Components
      /\ \A d, e : DagEdge(d, e)' = DagEdge(d, e)
      /\ \A d, e : Inc(d, e)' = Inc(d, e)
      /\ \A u, v : DependsStrictly(u, v)' = DependsStrictly(u, v)
  BY <1>1 DEF Components, DagEdge, Inc, Depends, DependsStrictly
<1>4. \A d \in Components :
        /\ stratum'[d] \in Nat
        /\ stratum[d] <= stratum'[d]
        /\ DagEdge(c, d) => stratum[c] + Inc(c, d) <= stratum'[d]
        /\ ~DagEdge(c, d) => stratum'[d] = stratum[d]
  BY <1>1, <1>2, IncNat DEF Raised
<1>5. \A d \in visited \cup {c} : d \in Components /\ ~DagEdge(c, d)
  <2>1. ~DagEdge(c, c)
    BY DEF DagEdge
  <2>2. ASSUME NEW d \in visited PROVE d \in Components /\ ~DagEdge(c, d)
    BY <1>1, <1>2 DEF StrataInv, InOrder, TypeOK
  <2> QED BY <2>1, <2>2
<1>6. TypeOK'
  BY <1>1, <1>2, <1>3, <1>4 DEF TypeOK
<1>7. \A d \in visited' : InOrder(d)'
  BY <1>1, <1>3 DEF StrataInv, InOrder
<1>8. ASSUME NEW b \in visited', NEW d \in Components, DagEdge(b, d)
      PROVE  stratum'[b] + Inc(b, d) <= stratum'[d]
  <2>1. stratum'[b] = stratum[b] /\ stratum[b] \in Nat
    BY <1>1, <1>2, <1>4, <1>5
  <2>2. CASE b = c
    BY <1>4, <1>8, <2>1, <2>2
  <2>3. CASE b \in visited
    <3>1. stratum[b] + Inc(b, d) <= stratum[d]
      BY <1>1, <1>8, <2>3 DEF StrataInv
    <3> QED BY <1>2, <1>4, <2>1, <3>1, IncNat
  <2> QED BY <1>1, <2>2, <2>3
<1>9. \A u, v \in Predicate : DependsStrictly(u, v)' => comp'[u] # comp'[v]
  BY <1>1, <1>3 DEF StrataInv
<1> QED BY <1>1, <1>3, <1>6, <1>7, <1>8, <1>9 DEF StrataInv

LEMMA BucketInv == StrataInv /\ Bucket => StrataInv'
<1> SUFFICES ASSUME StrataInv, Bucket PROVE StrataInv'
  OBVIOUS
<1>1. /\ pc = "strata" /\ pc' = "done"
      /\ visited = Components
      /\ ruleStratum' = [r \in program |-> stratum[comp[r.head]]]
      /\ program' = program /\ comp' = comp /\ stratum' = stratum /\ visited' = visited
  BY DEF Bucket
<1>2. \A r \in program : stratum[comp[r.head]] \in Nat
  BY <1>1 DEF StrataInv, TypeOK, Components, Rules
<1>3. Components' = Components
  BY <1>1 DEF Components
<1>4. TypeOK'
  BY <1>1, <1>2, <1>3 DEF StrataInv, TypeOK
<1> QED BY <1>1, <1>3, <1>4 DEF StrataInv, InOrder, DagEdge, Inc, Depends, DependsStrictly

\* Components are visited in topological order, so strata of visited ones are final.
THEOREM StrataInvariant == StrataSpec => []StrataInv
<1>1. StrataInv /\ [StrataNext]_strataVars => StrataInv'
  <2> SUFFICES ASSUME StrataInv, [StrataNext]_strataVars PROVE StrataInv'
    OBVIOUS
  <2>1. CASE ComputeScc
    BY <2>1, ComputeSccInv
  <2>2. ASSUME NEW c \in Components, Visit(c) PROVE StrataInv'
    BY <2>2, VisitInv
  <2>3. CASE Bucket
    BY <2>3, BucketInv
  <2>4. CASE UNCHANGED strataVars
    BY <2>4 DEF strataVars, StrataInv, TypeOK, Components, InOrder, DagEdge, Inc, Depends,
                DependsStrictly
  <2> QED BY <2>1, <2>2, <2>3, <2>4 DEF StrataNext
<1> QED BY <1>1, InitStrata, PTL DEF StrataSpec

\* compute_rule_stratification establishes what DatalogProgram assumes of StratumOf.
THEOREM StratificationCorrect == StrataSpec => []RulesStratified
<1>1. StrataInv => RulesStratified
  <2> SUFFICES ASSUME StrataInv, pc = "done", NEW r \in program, NEW q \in program
               PROVE  /\ q.head \in r.pos => ruleStratum[q] <= ruleStratum[r]
                      /\ q.head \in r.neg => ruleStratum[q] < ruleStratum[r]
    BY DEF RulesStratified
  <2> DEFINE b == comp[q.head]
             c == comp[r.head]
  <2>1. /\ q.head \in Predicate /\ r.head \in Predicate
        /\ b \in Components /\ c \in Components
        /\ stratum[b] \in Nat /\ stratum[c] \in Nat
        /\ ruleStratum[q] = stratum[b] /\ ruleStratum[r] = stratum[c]
    BY DEF StrataInv, TypeOK, Components, Rules
  <2>2. q.head \in r.pos \/ q.head \in r.neg => b = c \/ stratum[b] + Inc(b, c) <= stratum[c]
    <3>1. q.head \in r.pos \/ q.head \in r.neg => b = c \/ DagEdge(b, c)
      BY <2>1 DEF DagEdge, Depends
    <3>2. b \in visited
      BY <2>1 DEF StrataInv
    <3> HIDE DEF b, c
    <3> QED BY <2>1, <3>1, <3>2 DEF StrataInv
  <2>3. q.head \in r.neg => b # c /\ Inc(b, c) = 1
    BY <2>1 DEF StrataInv, Inc, DependsStrictly
  <2> HIDE DEF b, c
  <2> QED BY <2>1, <2>2, <2>3, IncNat
<1> QED BY <1>1, StrataInvariant, PTL
-----------------------------------------------------------------------------
(* The strata are the least ones: a stratification rises along dependencies, *)
(* hence is level on a component, and is raised by every strict edge.        *)

\* A stratification rises along paths of the dependency graph.
LEMMA RisesAlongPaths ==
    ASSUME NEW f \in [Predicate -> Nat], Stratifies(f),
           NEW u \in Predicate, NEW v \in Predicate, Reaches(u, v)
    PROVE  f[u] <= f[v]
<1> DEFINE R == {w \in Predicate : f[u] <= f[w]}
<1>1. R \in SUBSET Predicate /\ u \in R
  OBVIOUS
<1>2. ASSUME NEW x \in R, NEW y \in Predicate, Depends(x, y) PROVE y \in R
  <2>1. f[x] <= f[y]
    BY <1>2 DEF Stratifies
  <2> QED BY <2>1
<1>3. v \in R
  <2> HIDE DEF R
  <2> QED BY <1>1, <1>2 DEF Reaches
<1> QED BY <1>3

\* Predicates of one strongly connected component have one stratum.
LEMMA LevelOnComponents ==
    ASSUME NEW f \in [Predicate -> Nat], Stratifies(f),
           NEW u \in Predicate, NEW v \in Predicate,
           StrongComponents[u] = StrongComponents[v]
    PROVE  f[u] = f[v]
<1>1. Reaches(u, u)
  BY DEF Reaches
<1>2. u \in StrongComponents[v]
  BY <1>1 DEF StrongComponents
<1>3. Reaches(u, v) /\ Reaches(v, u)
  BY <1>2 DEF StrongComponents
<1>4. f[u] <= f[v] /\ f[v] <= f[u]
  BY <1>3, RisesAlongPaths
<1> QED BY <1>4

\* A program is rejected for a strict dependency within a component, and then has no
\* stratification.
LEMMA ComputeSccNoneLower == StrataInv /\ ComputeScc => NoneLower'
<1> SUFFICES ASSUME StrataInv, ComputeScc PROVE NoneLower'
  OBVIOUS
<1>1. /\ program' = program
      /\ comp' = StrongComponents
      /\ stratum' = [c \in Components' |-> 0]
      /\ pc' = IF \E u, v \in Predicate : DependsStrictly(u, v) /\ comp'[u] = comp'[v]
               THEN "throw" ELSE "strata"
  BY DEF ComputeScc
<1>2. StrongComponents' = StrongComponents
  BY <1>1 DEF StrongComponents, Reaches, Depends
<1>3. \A f : Stratifies(f)' <=> Stratifies(f)
  BY <1>1 DEF Stratifies, Depends, DependsStrictly
<1>4. ASSUME NEW f \in [Predicate -> Nat], NEW v \in Predicate
      PROVE  stratum'[comp'[v]] <= f[v]
  <2>1. comp'[v] \in Components'
    BY DEF Components
  <2> QED BY <1>1, <2>1
<1>5. ASSUME pc' = "throw", NEW f \in [Predicate -> Nat], Stratifies(f) PROVE FALSE
  <2>1. PICK u \in Predicate, v \in Predicate :
            DependsStrictly(u, v) /\ StrongComponents[u] = StrongComponents[v]
    BY <1>1, <1>5
  <2>2. f[u] = f[v]
    BY <1>5, <2>1, LevelOnComponents
  <2>3. f[u] < f[v]
    BY <1>5, <2>1 DEF Stratifies
  <2> QED BY <2>2, <2>3
<1>6. pc' # "throw" => pc' = "strata"
  BY <1>1
<1> QED BY <1>1, <1>2, <1>3, <1>4, <1>5 DEF NoneLower

\* A component is raised to where an edge from one that is not too high demands it.
LEMMA VisitNoneLower ==
    ASSUME StrataInv, NoneLower, NEW c \in Components, Visit(c) PROVE NoneLower'
<1>1. /\ pc = "strata" /\ pc' = "strata"
      /\ program' = program /\ comp' = comp
      /\ stratum' = [d \in Components |-> Raised(stratum, c, d)]
  BY DEF Visit
<1>2. comp = StrongComponents /\ StrongComponents' = StrongComponents
  <2>1. comp = StrongComponents
    BY <1>1 DEF NoneLower
  <2>2. StrongComponents' = StrongComponents
    BY <1>1 DEF StrongComponents, Reaches, Depends
  <2> QED BY <2>1, <2>2
<1>3. \A f : Stratifies(f)' <=> Stratifies(f)
  BY <1>1 DEF Stratifies, Depends, DependsStrictly
<1>4. stratum \in [Components -> Nat]
  BY <1>1 DEF StrataInv, TypeOK
<1>5. ASSUME NEW f \in [Predicate -> Nat], Stratifies(f), NEW v \in Predicate
      PROVE  stratum'[comp[v]] <= f[v]
  <2> DEFINE d == comp[v]
  <2>1. d \in Components /\ stratum'[d] = Raised(stratum, c, d)
    BY <1>1 DEF Components
  <2>2. \A w \in Predicate : stratum[comp[w]] <= f[w]
    BY <1>1, <1>5 DEF NoneLower
  <2>3. CASE DagEdge(c, d)
    <3>1. PICK x \in Predicate, y \in Predicate :
              comp[x] = c /\ comp[y] = d /\ Depends(x, y)
      BY <2>3 DEF DagEdge
    <3>2. f[x] <= f[y] /\ f[y] = f[v]
      BY <1>2, <1>5, <3>1, LevelOnComponents DEF Stratifies
    <3>3. stratum[c] <= f[x] /\ stratum[c] \in Nat /\ stratum[d] \in Nat
      BY <1>4, <2>1, <2>2, <3>1
    <3>4. CASE Inc(c, d) = 1
      <4>1. PICK u \in Predicate, w \in Predicate :
                comp[u] = c /\ comp[w] = d /\ DependsStrictly(u, w)
        BY <3>4 DEF Inc
      <4>2. f[u] < f[w] /\ f[w] = f[v]
        BY <1>2, <1>5, <4>1, LevelOnComponents DEF Stratifies
      <4>3. stratum[c] <= f[u]
        BY <2>2, <4>1
      <4> HIDE DEF d
      <4>4. f[u] \in Nat /\ f[w] \in Nat /\ f[v] \in Nat
        OBVIOUS
      <4>5. stratum[c] + 1 <= f[v]
        BY <3>3, <4>2, <4>3, <4>4
      <4>6. stratum[d] <= f[v]
        BY <2>2 DEF d
      <4> QED BY <2>1, <3>4, <4>5, <4>6 DEF Raised, d
    <3>5. CASE Inc(c, d) = 0
      <4>1. stratum[c] + 0 <= f[v] /\ stratum[d] <= f[v]
        BY <2>2, <3>2, <3>3
      <4> QED BY <2>1, <3>5, <4>1 DEF Raised
    <3>6. Inc(c, d) = 1 \/ Inc(c, d) = 0
      BY DEF Inc
    <3> QED BY <3>4, <3>5, <3>6
  <2>4. CASE ~DagEdge(c, d)
    BY <2>1, <2>2, <2>4 DEF Raised
  <2> QED BY <2>3, <2>4
<1> QED BY <1>1, <1>2, <1>3, <1>5 DEF NoneLower

\* compute_component_strata: the strata are the least that respect the dependencies, and
\* the exception is thrown exactly for the programs that have no stratification.
THEOREM StrataAreMinimal == StrataSpec => []StrataMinimal
<1>1. StrataInit => NoneLower
  BY DEF StrataInit, NoneLower
<1>2. StrataInv /\ NoneLower /\ [StrataNext]_strataVars => NoneLower'
  <2> SUFFICES ASSUME StrataInv, NoneLower, [StrataNext]_strataVars PROVE NoneLower'
    OBVIOUS
  <2>1. CASE ComputeScc
    BY <2>1, ComputeSccNoneLower
  <2>2. ASSUME NEW c \in Components, Visit(c) PROVE NoneLower'
    BY <2>2, VisitNoneLower
  <2>3. CASE Bucket \/ UNCHANGED strataVars
    <3>1. program' = program /\ comp' = comp /\ stratum' = stratum
      BY <2>3 DEF Bucket, strataVars
    <3>2. /\ StrongComponents' = StrongComponents
          /\ \A f : Stratifies(f)' <=> Stratifies(f)
      BY <3>1 DEF StrongComponents, Reaches, Stratifies, Depends, DependsStrictly
    <3>3. pc' = pc \/ (pc = "strata" /\ pc' = "done")
      BY <2>3 DEF Bucket, strataVars
    <3> QED BY <3>1, <3>2, <3>3 DEF NoneLower
  <2> QED BY <2>1, <2>2, <2>3 DEF StrataNext
<1>3. NoneLower => StrataMinimal
  <2> SUFFICES ASSUME NoneLower, pc \in {"done", "throw"},
                      NEW f \in [Predicate -> 0 .. Cardinality(Predicate)], Stratifies(f)
               PROVE  pc = "done" /\ \A v \in Predicate : stratum[comp[v]] <= f[v]
    BY DEF StrataMinimal
  <2>1. f \in [Predicate -> Nat]
    OBVIOUS
  <2> QED BY <2>1 DEF NoneLower
<1> QED BY <1>1, <1>2, <1>3, StrataInvariant, PTL DEF StrataSpec

-----------------------------------------------------------------------------
(* The consistency graphs                                                   *)

\* Every stored edge is in a cell that a reset clears.
Covered(g) == \A u, w \in Vertex : w \in g.adj[u] => <<u, static.part[w]>> \in g.touched

\* The consistent edges join vertices of different, dependent partitions.
EdgesInv ==
    /\ \A v \in consistent.vertices : static.part[v] # 0
    /\ \A u, w \in Vertex : <<u, w>> \in consistent.edges =>
        <<static.part[u], static.part[w]>> \in static.binary

\* What the full graph stores, cell by cell.
StoredInv ==
    /\ full.affected = consistent.vertices
    /\ full.delta = consistent.vertices
    /\ \A u, w \in Vertex : w \in full.adj[u] <=>
        /\ u \in consistent.vertices
        /\ w \in consistent.vertices
        /\ <<u, w>> \in consistent.edges \/ <<w, u>> \in consistent.edges

GraphInv ==
    /\ GraphTypeOK
    /\ EdgesInv
    /\ StoredInv
    /\ Covered(full)
    /\ Covered(delta)

-----------------------------------------------------------------------------

\* The empty graph is a graph.
LEMMA EmptyGraphType == EmptyGraph \in Graph
  BY DEF EmptyGraph, Graph

\* reset() leaves nothing behind if all stored edges are in touched cells.
LEMMA ResetEmpty ==
  ASSUME NEW g \in Graph, Covered(g)
  PROVE  Reset(g) = EmptyGraph
<1>1. \A v \in Vertex : {w \in g.adj[v] : <<v, static.part[w]>> \notin g.touched} = {}
  BY DEF Covered, Graph
<1> QED BY <1>1 DEF Reset, EmptyGraph

\* What process_delta_edge does to the matrix of a graph.
LEMMA ExtendedFields ==
  ASSUME NEW g \in Graph, NEW E \in SUBSET (Vertex \X Vertex),
         NEW V \in SUBSET Vertex, NEW D \in SUBSET Vertex,
         static.part \in [Vertex -> Nat]
  PROVE  /\ Extended(g, V, D, E) \in Graph
         /\ Extended(g, V, D, E).affected = V
         /\ Extended(g, V, D, E).delta = D
         /\ \A u, w \in Vertex : w \in Extended(g, V, D, E).adj[u] <=>
                w \in g.adj[u] \/ <<u, w>> \in E \/ <<w, u>> \in E
         /\ Covered(g) => Covered(Extended(g, V, D, E))
<1> DEFINE A == Extended(g, V, D, E).adj
           T == Extended(g, V, D, E).touched
           F(e) == <<e[1], static.part[e[2]]>>
           B(e) == <<e[2], static.part[e[1]]>>
<1>1. /\ A \in [Vertex -> SUBSET Vertex]
      /\ \A u, w \in Vertex : w \in A[u] <=> w \in g.adj[u] \/ <<u, w>> \in E \/ <<w, u>> \in E
  BY DEF Graph, Extended
<1>2. T = g.touched \cup {F(e) : e \in E} \cup {B(e) : e \in E}
  BY DEF Extended
<1>3. T \in SUBSET (Vertex \X Nat)
  BY <1>2 DEF Graph
<1>4. ASSUME NEW u \in Vertex, NEW w \in Vertex, <<u, w>> \in E
      PROVE  <<u, static.part[w]>> \in T /\ <<w, static.part[u]>> \in T
  <2>1. F(<<u, w>>) = <<u, static.part[w]>> /\ B(<<u, w>>) = <<w, static.part[u]>>
    OBVIOUS
  <2>2. F(<<u, w>>) \in T /\ B(<<u, w>>) \in T
    BY <1>2, <1>4
  <2> QED BY <2>1, <2>2
<1>5. g.touched \subseteq T
  BY <1>2
<1>6. /\ Extended(g, V, D, E).affected = V
      /\ Extended(g, V, D, E).delta = D
  BY DEF Extended
<1>7. Extended(g, V, D, E) \in Graph
  BY <1>1, <1>3, <1>6 DEF Graph, Extended
<1> HIDE DEF A, T
<1>8. Covered(g) => Covered(Extended(g, V, D, E))
  BY <1>1, <1>4, <1>5 DEF Covered, A, T
<1> QED BY <1>1, <1>6, <1>7, <1>8 DEF A

-----------------------------------------------------------------------------

\* The shape of the static graph, as the steps use it.
LEMMA StaticFacts ==
  ASSUME static \in StaticGraph
  PROVE  /\ static.part \in [Vertex -> Nat]
         /\ Pairs(static) \in SUBSET (Vertex \X Vertex)
         /\ static.edges \in SUBSET Pairs(static)
<1>1. static.k \in Nat /\ static.part \in [Vertex -> 0 .. static.k]
  BY StaticGraphAssumption
<1> QED BY <1>1, StaticGraphAssumption DEF Pairs

LEMMA InitGraphInv == GraphInit => GraphInv
<1> SUFFICES ASSUME GraphInit PROVE GraphInv
  OBVIOUS
<1> USE DEF GraphInit
<1>1. GraphTypeOK
  BY EmptyGraphType DEF GraphTypeOK
<1>2. EdgesInv
  BY DEF EdgesInv
<1>3. StoredInv
  BY DEF StoredInv, EmptyGraph
<1>4. Covered(full) /\ Covered(delta)
  BY DEF Covered, EmptyGraph
<1> QED BY <1>1, <1>2, <1>3, <1>4 DEF GraphInv

LEMMA ResetInv == GraphInv /\ ResetGraphs => GraphInv'
<1> SUFFICES ASSUME GraphInv, ResetGraphs PROVE GraphInv'
  OBVIOUS
<1> USE DEF GraphInv, ResetGraphs
<1>1. full' = EmptyGraph /\ delta' = EmptyGraph
  BY ResetEmpty DEF GraphTypeOK
<1>2. static' = static
  OBVIOUS
<1>3. GraphTypeOK'
  BY <1>1, <1>2, EmptyGraphType DEF GraphTypeOK, Graph
<1>4. EdgesInv'
  BY DEF EdgesInv
<1>5. StoredInv'
  BY <1>1 DEF StoredInv, EmptyGraph
<1>6. Covered(full)' /\ Covered(delta)'
  BY <1>1, <1>2 DEF Covered, EmptyGraph
<1> QED BY <1>3, <1>4, <1>5, <1>6

\* What passes the filters is a set of vertices and edges of the static graph.
LEMMA PassingFacts ==
  ASSUME static \in StaticGraph, NEW V, NEW E
  PROVE  /\ Passing(V, E).vertices \in SUBSET Vertex
         /\ Passing(V, E).edges \in SUBSET Pairs(static)
         /\ \A v \in Passing(V, E).vertices : static.part[v] # 0
         /\ \A u, w \in Vertex : <<u, w>> \in Passing(V, E).edges =>
                <<static.part[u], static.part[w]>> \in static.binary
  BY StaticFacts DEF Passing

\* The graphs after an evaluation: the full graph has all that passes, the stored
\* edges of the delta graph are the new ones among them.
LEMMA EvaluateFacts ==
  ASSUME GraphInv, NEW V, NEW E, Growing(V, E), SetNextAssignmentSets(V, E)
  PROVE  LET ok == Passing(V, E)
             new == ok.vertices \ consistent.vertices
             edges == NewEdges(ok, ok.vertices)
         IN  /\ static' = static
             /\ consistent' = ok
             /\ full' \in Graph
             /\ full'.affected = ok.vertices
             /\ full'.delta = ok.vertices
             /\ \A u, w \in Vertex : w \in full'.adj[u] <=>
                    w \in full.adj[u] \/ <<u, w>> \in edges \/ <<w, u>> \in edges
             /\ Covered(full)'
             /\ delta' \in Graph
             /\ delta'.delta = new
             /\ \A v \in Vertex : v \in delta'.affected <=>
                    \/ v \in new
                    \/ v \in ImplicitlyAffected(ok.vertices, new)
                    \/ \E w \in Vertex : <<v, w>> \in edges \/ <<w, v>> \in edges
             /\ \A u, w \in Vertex : w \in delta'.adj[u] <=>
                    <<u, w>> \in edges \/ <<w, u>> \in edges
             /\ Covered(delta)'
             /\ iteration' = iteration + 1
<1> DEFINE ok == Passing(V, E)
           new == ok.vertices \ consistent.vertices
           edges == NewEdges(ok, ok.vertices)
           ends == {e[1] : e \in edges} \cup {e[2] : e \in edges}
           affected == new \cup ImplicitlyAffected(ok.vertices, new) \cup ends
<1>1. static \in StaticGraph /\ full \in Graph /\ delta \in Graph
  BY DEF GraphInv, GraphTypeOK
<1>2. /\ static.part \in [Vertex -> Nat]
      /\ ok.vertices \in SUBSET Vertex
      /\ edges \in SUBSET (Vertex \X Vertex)
  BY <1>1, StaticFacts, PassingFacts DEF NewEdges
<1>3. full.affected = consistent.vertices /\ full.delta = consistent.vertices
  BY DEF GraphInv, StoredInv
<1>4. consistent.vertices \cup new = ok.vertices
  BY DEF Growing
<1>5. Reset(delta) = EmptyGraph
  BY <1>1, ResetEmpty DEF GraphInv
<1>6. ends \in SUBSET Vertex /\ \A v \in Vertex : v \in ends <=>
        \E w \in Vertex : <<v, w>> \in edges \/ <<w, v>> \in edges
  <2>1. ends \in SUBSET Vertex
    BY <1>2
  <2>2. ASSUME NEW v \in ends
        PROVE  \E w \in Vertex : <<v, w>> \in edges \/ <<w, v>> \in edges
    <3>1. PICK e \in edges : v = e[1] \/ v = e[2]
      OBVIOUS
    <3>2. e = <<e[1], e[2]>> /\ e[1] \in Vertex /\ e[2] \in Vertex
      BY <1>2
    <3> QED BY <3>1, <3>2
  <2>3. ASSUME NEW v \in Vertex, NEW w \in Vertex, <<v, w>> \in edges \/ <<w, v>> \in edges
        PROVE  v \in ends
    <3>1. CASE <<v, w>> \in edges
      <4>1. <<v, w>>[1] = v
        OBVIOUS
      <4> QED BY <3>1, <4>1
    <3>2. CASE <<w, v>> \in edges
      <4>1. <<w, v>>[2] = v
        OBVIOUS
      <4> QED BY <3>2, <4>1
    <3> QED BY <2>3, <3>1, <3>2
  <2> QED BY <2>1, <2>2, <2>3
<1>7. affected \in SUBSET Vertex /\ new \in SUBSET Vertex
  BY <1>2, <1>6 DEF ImplicitlyAffected
<1>8. /\ full' = Extended(full, ok.vertices, ok.vertices, edges)
      /\ delta' = Extended(EmptyGraph, affected, new, edges)
      /\ static' = static /\ consistent' = ok /\ iteration' = iteration + 1
  BY <1>3, <1>4, <1>5 DEF SetNextAssignmentSets
<1> HIDE DEF ok, new, edges, ends, affected
<1>9. /\ full' \in Graph
      /\ full'.affected = ok.vertices
      /\ full'.delta = ok.vertices
      /\ \A u, w \in Vertex : w \in full'.adj[u] <=>
            w \in full.adj[u] \/ <<u, w>> \in edges \/ <<w, u>> \in edges
      /\ Covered(full')
  <2> DEFINE X == Extended(full, ok.vertices, ok.vertices, edges)
  <2>1. /\ X \in Graph
        /\ X.affected = ok.vertices
        /\ X.delta = ok.vertices
        /\ \A u, w \in Vertex : w \in X.adj[u] <=>
              w \in full.adj[u] \/ <<u, w>> \in edges \/ <<w, u>> \in edges
        /\ Covered(full) => Covered(X)
    BY <1>1, <1>2, ExtendedFields
  <2>2. full' = X /\ Covered(full)
    BY <1>8 DEF GraphInv
  <2> HIDE DEF X
  <2> QED BY <2>1, <2>2
<1>10. Covered(EmptyGraph) /\ \A u, w \in Vertex : w \notin EmptyGraph.adj[u]
  BY DEF Covered, EmptyGraph
<1>11. /\ delta' \in Graph
       /\ delta'.affected = affected
       /\ delta'.delta = new
       /\ \A u, w \in Vertex : w \in delta'.adj[u] <=> <<u, w>> \in edges \/ <<w, u>> \in edges
       /\ Covered(delta')
  <2> DEFINE X == Extended(EmptyGraph, affected, new, edges)
  <2>1. /\ X \in Graph
        /\ X.affected = affected
        /\ X.delta = new
        /\ \A u, w \in Vertex : w \in X.adj[u] <=>
              w \in EmptyGraph.adj[u] \/ <<u, w>> \in edges \/ <<w, u>> \in edges
        /\ Covered(EmptyGraph) => Covered(X)
    BY <1>2, <1>7, EmptyGraphType, ExtendedFields
  <2>2. delta' = X
    BY <1>8
  <2> HIDE DEF X
  <2> QED BY <1>10, <2>1, <2>2
<1>12. Covered(full)' /\ Covered(delta)'
  BY <1>8, <1>9, <1>11 DEF Covered
<1> QED BY <1>6, <1>8, <1>9, <1>11, <1>12 DEF ok, new, edges, affected

\* An evaluation with grown facts preserves the invariant.
LEMMA EvaluateInv ==
  ASSUME GraphInv, NEW V, NEW E, Growing(V, E), SetNextAssignmentSets(V, E)
  PROVE  GraphInv'
<1> DEFINE ok == Passing(V, E)
           edges == NewEdges(ok, ok.vertices)
<1>1. /\ static' = static /\ consistent' = ok /\ iteration' = iteration + 1
      /\ full' \in Graph /\ delta' \in Graph
      /\ full'.affected = ok.vertices
      /\ full'.delta = ok.vertices
      /\ \A u, w \in Vertex : w \in full'.adj[u] <=>
            w \in full.adj[u] \/ <<u, w>> \in edges \/ <<w, u>> \in edges
      /\ Covered(full)' /\ Covered(delta)'
  BY EvaluateFacts
<1>2. static \in StaticGraph /\ iteration \in Nat
  BY DEF GraphInv, GraphTypeOK
<1>3. /\ ok.vertices \in SUBSET Vertex
      /\ ok.edges \in SUBSET Pairs(static)
      /\ \A v \in ok.vertices : static.part[v] # 0
      /\ \A u, w \in Vertex : <<u, w>> \in ok.edges =>
            <<static.part[u], static.part[w]>> \in static.binary
  BY <1>2, PassingFacts
<1>4. /\ consistent.vertices \subseteq ok.vertices
      /\ consistent.edges \subseteq ok.edges
  BY DEF Growing
<1>5. \A u, w \in Vertex : w \in full.adj[u] <=>
        /\ u \in consistent.vertices
        /\ w \in consistent.vertices
        /\ <<u, w>> \in consistent.edges \/ <<w, u>> \in consistent.edges
  BY DEF GraphInv, StoredInv
<1>6. \A u, w \in Vertex : <<u, w>> \in edges <=>
        /\ <<u, w>> \in ok.edges
        /\ u \in ok.vertices /\ w \in ok.vertices
        /\ w \notin full.adj[u]
  BY DEF NewEdges
<1> HIDE DEF ok, edges
<1>7. GraphTypeOK'
  BY <1>1, <1>2, <1>3 DEF GraphTypeOK, Pairs, Graph
<1>8. EdgesInv'
  BY <1>1, <1>3 DEF EdgesInv
<1>9. \A u, w \in Vertex : w \in full'.adj[u] <=>
        /\ u \in ok.vertices
        /\ w \in ok.vertices
        /\ <<u, w>> \in ok.edges \/ <<w, u>> \in ok.edges
  <2>1. \A u, w \in Vertex : w \in full.adj[u] <=> u \in full.adj[w]
    BY <1>5
  <2>2. \A u, w \in Vertex : w \in full.adj[u] =>
          /\ u \in ok.vertices /\ w \in ok.vertices
          /\ <<u, w>> \in ok.edges \/ <<w, u>> \in ok.edges
    BY <1>4, <1>5
  <2> QED BY <1>1, <1>6, <2>1, <2>2
<1>10. StoredInv'
  BY <1>1, <1>9 DEF StoredInv
<1> QED BY <1>1, <1>7, <1>8, <1>10 DEF GraphInv

\* The invariant is inductive.
LEMMA NextGraphInv == GraphInv /\ [GraphNext]_graphVars => GraphInv'
<1> SUFFICES ASSUME GraphInv, [GraphNext]_graphVars PROVE GraphInv'
  OBVIOUS
<1>1. CASE ResetGraphs
  BY <1>1, ResetInv
<1>2. ASSUME NEW V, NEW E, Growing(V, E), SetNextAssignmentSets(V, E)
      PROVE  GraphInv'
  BY <1>2, EvaluateInv
<1>3. CASE UNCHANGED graphVars
  BY <1>3 DEF graphVars, GraphInv, GraphTypeOK, EdgesInv, StoredInv, Covered, Pairs, Graph
<1> QED BY <1>1, <1>2, <1>3 DEF GraphNext

\* DeltaKPKC's graphs: the invariant holds for every static graph and any sequence
\* of evaluations and resets.
THEOREM GraphInvariant == GraphSpec => []GraphInv
<1> QED BY InitGraphInv, NextGraphInv, PTL DEF GraphSpec

\* The invariant says what FullGraphExact does, through the accessor the search uses.
LEMMA InvExact == GraphInv => FullGraphExact
<1> SUFFICES ASSUME GraphInv PROVE FullGraphExact
  OBVIOUS
<1>1. full.affected = consistent.vertices /\ full.delta = consistent.vertices
  BY DEF GraphInv, StoredInv
<1>2. static.part \in [Vertex -> Nat] /\ consistent.vertices \in SUBSET Vertex
  BY StaticFacts DEF GraphInv, GraphTypeOK
<1>3. ASSUME NEW u \in full.affected, NEW v \in Vertex,
             static.part[v] \notin {0, static.part[u]}
      PROVE  v \in Adjacent(full, u, static.part[v]) <=> Compatible(consistent, u, v)
  <2>1. u \in Vertex
    BY <1>1, <1>2
  <2>2. CASE Dependent(static.part[u], static.part[v])
    <3>1. v \in Adjacent(full, u, static.part[v]) <=> v \in full.adj[u]
      BY <2>2 DEF Adjacent, VerticesOf
    <3>2. v \in full.adj[u] <=> /\ u \in consistent.vertices /\ v \in consistent.vertices
                                /\ <<u, v>> \in consistent.edges \/ <<v, u>> \in consistent.edges
      BY <2>1 DEF GraphInv, StoredInv
    <3> QED BY <2>2, <3>1, <3>2 DEF Compatible
  <2>3. CASE ~Dependent(static.part[u], static.part[v])
    BY <1>1, <2>3 DEF Adjacent, VerticesOf, Compatible
  <2> QED BY <2>2, <2>3
<1> QED BY <1>1, <1>3 DEF FullGraphExact

\* The full graph is exactly what the facts allow, for every rule.
THEOREM FullGraphIsExact == GraphSpec => []FullGraphExact
<1> QED BY GraphInvariant, InvExact, PTL

-----------------------------------------------------------------------------

\* An evaluation leaves in the delta graph the edges it added to the full graph. A
\* pair that is implied is new if one of its vertices is; a stored one if it was
\* stored now.
LEMMA EvaluateDelta ==
  ASSUME GraphInv, NEW V, NEW E, Growing(V, E), SetNextAssignmentSets(V, E)
  PROVE  Edges(delta)' = Edges(full)' \ Edges(full)
<1> DEFINE ok == Passing(V, E)
           new == ok.vertices \ consistent.vertices
           edges == NewEdges(ok, ok.vertices)
<1>1. /\ static' = static
      /\ full'.affected = ok.vertices
      /\ full'.delta = ok.vertices
      /\ \A u, w \in Vertex : w \in full'.adj[u] <=>
            w \in full.adj[u] \/ <<u, w>> \in edges \/ <<w, u>> \in edges
      /\ delta'.delta = new
      /\ \A v \in Vertex : v \in delta'.affected <=>
            \/ v \in new
            \/ v \in ImplicitlyAffected(ok.vertices, new)
            \/ \E w \in Vertex : <<v, w>> \in edges \/ <<w, v>> \in edges
      /\ \A u, w \in Vertex : w \in delta'.adj[u] <=> <<u, w>> \in edges \/ <<w, u>> \in edges
  BY EvaluateFacts
<1>2. /\ full.affected = consistent.vertices /\ full.delta = consistent.vertices
      /\ \A u, w \in Vertex : w \in full.adj[u] <=>
            /\ u \in consistent.vertices
            /\ w \in consistent.vertices
            /\ <<u, w>> \in consistent.edges \/ <<w, u>> \in consistent.edges
  BY DEF GraphInv, StoredInv
<1>3. static \in StaticGraph /\ static.part \in [Vertex -> Nat]
  BY StaticFacts DEF GraphInv, GraphTypeOK
<1>4. consistent.vertices \subseteq ok.vertices /\ ok.vertices \in SUBSET Vertex
  BY <1>3, PassingFacts DEF Growing
<1>5. \A u, w \in Vertex : <<u, w>> \in edges =>
        u \in ok.vertices /\ w \in ok.vertices /\ w \notin full.adj[u]
  BY DEF NewEdges
<1> HIDE DEF ok, new, edges
<1>6. ASSUME NEW e \in Pairs(static)
      PROVE  e \in Edges(delta)' <=> e \in Edges(full)' /\ e \notin Edges(full)
  <2> DEFINE u == e[1]
             w == e[2]
             p == static.part[w]
             dep == Dependent(static.part[u], p)
  <2>1. /\ u \in Vertex /\ w \in Vertex
        /\ static.part[u] < static.part[w] /\ static.part[u] # static.part[w]
    BY <1>3 DEF Pairs
  <2>2. e \in Edges(full) <=> /\ u \in full.affected /\ w \in full.affected
                              /\ w \in Adjacent(full, u, p)
    BY DEF Edges
  <2>3. e \in Edges(full)' <=> /\ u \in full'.affected /\ w \in full'.affected
                               /\ w \in Adjacent(full, u, p)'
    BY <1>1 DEF Edges, Pairs
  <2>4. e \in Edges(delta)' <=> /\ u \in delta'.affected /\ w \in delta'.affected
                                /\ w \in Adjacent(delta, u, p)'
    BY <1>1 DEF Edges, Pairs
  <2>5. CASE dep
    <3>1. /\ w \in Adjacent(full, u, p) <=> w \in full.adj[u]
          /\ w \in Adjacent(full, u, p)' <=> w \in full'.adj[u]
          /\ w \in Adjacent(delta, u, p)' <=> w \in delta'.adj[u]
      BY <1>1, <2>1, <2>5 DEF Adjacent, VerticesOf, Dependent
    <3> HIDE DEF u, w, p, dep
    <3>2. w \in full.adj[u] <=> u \in full.adj[w]
      BY <1>2, <2>1
    <3>3. w \in delta'.adj[u] => /\ u \in ok.vertices /\ w \in ok.vertices
                                 /\ w \notin full.adj[u]
                                 /\ u \in delta'.affected /\ w \in delta'.affected
      BY <1>1, <1>5, <2>1, <3>2
    <3>4. w \in full'.adj[u] <=> w \in full.adj[u] \/ w \in delta'.adj[u]
      BY <1>1, <2>1
    <3>5. w \in full.adj[u] => u \in full.affected /\ w \in full.affected
      BY <1>2, <2>1
    <3> QED BY <1>1, <2>2, <2>3, <2>4, <3>1, <3>3, <3>4, <3>5
  <2>6. CASE ~dep
    <3>1. /\ u \in full.affected => (w \in Adjacent(full, u, p) <=> w \in full.affected)
          /\ u \in full'.affected => (w \in Adjacent(full, u, p)' <=> w \in full'.affected)
          /\ u \in new => (w \in Adjacent(delta, u, p)' <=> w \in delta'.affected)
          /\ u \notin new => (w \in Adjacent(delta, u, p)' <=> w \in new)
      BY <1>1, <1>2, <2>1, <2>6 DEF Adjacent, VerticesOf, Dependent
    <3>2. /\ u \in new /\ w \in ok.vertices => w \in ImplicitlyAffected(ok.vertices, new)
          /\ w \in new /\ u \in ok.vertices => u \in ImplicitlyAffected(ok.vertices, new)
      BY <2>1, <2>6 DEF ImplicitlyAffected, Dependent
    <3> HIDE DEF u, w, p, dep
    <3>3. /\ u \in delta'.affected => u \in ok.vertices
          /\ w \in delta'.affected => w \in ok.vertices
      BY <1>1, <1>4, <1>5, <2>1 DEF ImplicitlyAffected, new
    <3>4. /\ u \in new <=> u \in ok.vertices /\ u \notin full.affected
          /\ w \in new <=> w \in ok.vertices /\ w \notin full.affected
      BY <1>2 DEF new
    <3>5. /\ u \in new \/ u \in ImplicitlyAffected(ok.vertices, new) => u \in delta'.affected
          /\ w \in new \/ w \in ImplicitlyAffected(ok.vertices, new) => w \in delta'.affected
      BY <1>1, <2>1
    <3> QED BY <1>1, <2>2, <2>3, <2>4, <3>1, <3>2, <3>3, <3>4, <3>5
  <2> QED BY <2>5, <2>6
<1>7. /\ Edges(delta)' \subseteq Pairs(static)
      /\ Edges(full)' \subseteq Pairs(static)
  BY <1>1 DEF Edges, Pairs
<1> QED BY <1>6, <1>7

\* What the evaluation of any rule finds in the delta graph is what is new.
THEOREM DeltaGraphIsExact == GraphSpec => DeltaGraphExact
<1> DEFINE A == iteration' = iteration + 1 => Edges(delta)' = Edges(full)' \ Edges(full)
<1>1. GraphInv /\ [GraphNext]_graphVars => [A]_graphVars
  <2> SUFFICES ASSUME GraphInv, GraphNext PROVE A
    OBVIOUS
  <2>1. CASE ResetGraphs
    <3>1. iteration \in Nat /\ iteration' = 0
      BY <2>1 DEF GraphInv, GraphTypeOK, ResetGraphs
    <3> QED BY <3>1
  <2>2. ASSUME NEW V, NEW E, Growing(V, E), SetNextAssignmentSets(V, E)
        PROVE  A
    BY <2>2, EvaluateDelta
  <2> QED BY <2>1, <2>2 DEF GraphNext
<1> QED BY <1>1, GraphInvariant, PTL DEF GraphSpec, DeltaGraphExact

-----------------------------------------------------------------------------
(* Fixpoints                                                                *)

Fires(r, F) == r.pos \subseteq F /\ r.neg \cap F = {}

\* One round of solve_bottom_up.
Round(rules, F) == F \cup {r.head : r \in {q \in rules : Fires(q, F)}}

\* f lists the first N rounds.
Rounds(rules, facts, N, f) ==
    f = [n \in 0 .. N |-> IF n = 0 THEN facts ELSE Round(rules, f[n - 1])]

HasRounds(rules, facts, N) == \E f : Rounds(rules, facts, N, f)

LEMMA FixpointIsRound ==
    ASSUME NEW rules, NEW facts
    PROVE  Fixpoint(rules, facts) =
               (CHOOSE f : Rounds(rules, facts, Cardinality(rules), f))[Cardinality(rules)]
BY DEF Fixpoint, Rounds, Round, Fires

\* Every nonempty set of naturals has a least element.
LEMMA Least ==
    ASSUME NEW T \in SUBSET Nat, T # {}
    PROVE  \E m \in T : \A k \in T : m <= k
<1>1. IsWellFoundedOn(OpToRel(<, Nat), Nat)
  BY NatLessThanWellFounded
<1>2. \E x \in T : \A y \in T : ~(<<y, x>> \in OpToRel(<, Nat))
  BY <1>1, WFMin
<1>3. PICK x \in T : \A y \in T : ~(<<y, x>> \in OpToRel(<, Nat))
  BY <1>2
<1>4. \A y \in T : ~(y < x)
  BY <1>3 DEF OpToRel
<1> QED BY <1>4

LEMMA RoundsGrow ==
    ASSUME NEW rules, NEW facts, NEW N \in Nat, N # 0, HasRounds(rules, facts, N - 1)
    PROVE  HasRounds(rules, facts, N)
<1>1. PICK f : Rounds(rules, facts, N - 1, f)
  BY DEF HasRounds
<1> DEFINE next == [n \in 0 .. N |-> IF n = 0 THEN facts ELSE Round(rules, f[n - 1])]
<1>2. \A n \in 0 .. N - 1 : next[n] = f[n]
  BY <1>1 DEF Rounds
<1>3. \A n \in 0 .. N : n # 0 => n - 1 \in 0 .. N - 1
  OBVIOUS
<1>4. \A n \in 0 .. N : n # 0 => Round(rules, f[n - 1]) = Round(rules, next[n - 1])
  BY <1>2, <1>3
<1>5. next = [n \in 0 .. N |-> IF n = 0 THEN facts ELSE Round(rules, next[n - 1])]
  BY <1>4
<1> HIDE DEF next
<1> QED BY <1>5 DEF HasRounds, Rounds

LEMMA RoundsExist ==
    ASSUME NEW rules, NEW facts, NEW N \in Nat
    PROVE  HasRounds(rules, facts, N)
<1> DEFINE Bad == {n \in Nat : ~HasRounds(rules, facts, n)}
<1> SUFFICES ASSUME Bad # {} PROVE FALSE
  OBVIOUS
<1>1. PICK m \in Bad : \A k \in Bad : m <= k
  BY Least
<1>2. CASE m = 0
  <2> DEFINE f == [n \in 0 .. 0 |-> facts]
  <2>1. f = [n \in 0 .. 0 |-> IF n = 0 THEN facts ELSE Round(rules, f[n - 1])]
    OBVIOUS
  <2> HIDE DEF f
  <2>2. HasRounds(rules, facts, 0)
    BY <2>1 DEF HasRounds, Rounds
  <2> QED BY <1>1, <1>2, <2>2
<1>3. CASE m # 0
  <2>1. m \in Nat /\ m - 1 \in Nat /\ ~(m <= m - 1)
    BY <1>1, <1>3
  <2>2. HasRounds(rules, facts, m - 1)
    BY <1>1, <2>1
  <2> QED BY <1>1, <1>3, <2>1, <2>2, RoundsGrow
<1> QED BY <1>2, <1>3

\* The fixpoint is the last of as many rounds as there are rules.
LEMMA FixpointRounds ==
    ASSUME NEW rules, NEW facts, IsFiniteSet(rules)
    PROVE  /\ Cardinality(rules) \in Nat
           /\ \E f : /\ f[0] = facts
                     /\ \A n \in Nat : n < Cardinality(rules) => f[n + 1] = Round(rules, f[n])
                     /\ Fixpoint(rules, facts) = f[Cardinality(rules)]
<1> DEFINE K == Cardinality(rules)
           f == CHOOSE g : Rounds(rules, facts, K, g)
<1>1. K \in Nat
  BY FS_CardinalityType
<1>2. Rounds(rules, facts, K, f)
  BY <1>1, RoundsExist DEF HasRounds
<1>3. Fixpoint(rules, facts) = f[K]
  BY FixpointIsRound
<1> HIDE DEF K, f
<1>4. f[0] = facts
  BY <1>1, <1>2 DEF Rounds
<1>5. ASSUME NEW n \in Nat, n < K PROVE f[n + 1] = Round(rules, f[n])
  <2>1. n + 1 \in 0 .. K /\ n + 1 # 0 /\ (n + 1) - 1 = n
    BY <1>1, <1>5
  <2> QED BY <1>2, <2>1 DEF Rounds
<1> USE DEF K
<1> QED BY <1>1, <1>3, <1>4, <1>5

\* What holds of the facts and is kept by a round holds of the fixpoint.
LEMMA FixpointWithin ==
    ASSUME NEW rules, NEW facts, IsFiniteSet(rules), NEW W,
           facts \subseteq W,
           \A F : facts \subseteq F /\ F \subseteq W => Round(rules, F) \subseteq W
    PROVE  facts \subseteq Fixpoint(rules, facts) /\ Fixpoint(rules, facts) \subseteq W
<1> DEFINE K == Cardinality(rules)
<1>1. PICK f : /\ f[0] = facts
               /\ \A n \in Nat : n < K => f[n + 1] = Round(rules, f[n])
               /\ Fixpoint(rules, facts) = f[K]
  BY FixpointRounds
<1>2. K \in Nat
  BY FixpointRounds
<1> HIDE DEF K
<1> DEFINE good(n) == facts \subseteq f[n] /\ f[n] \subseteq W
           Bad == {n \in 0 .. K : ~good(n)}
<1>3. Bad = {}
  <2> SUFFICES ASSUME Bad # {} PROVE FALSE
    OBVIOUS
  <2>1. Bad \in SUBSET Nat
    BY <1>2
  <2>2. PICK m \in Bad : \A k \in Bad : m <= k
    BY <2>1, Least
  <2>3. m # 0
    BY <1>1, <2>2
  <2>4. m \in 0 .. K /\ m - 1 \in 0 .. K /\ m - 1 \in Nat /\ m - 1 < K /\ (m - 1) + 1 = m /\ ~(m <= m - 1)
    BY <1>2, <2>2, <2>3
  <2>5. good(m - 1)
    BY <2>2, <2>4
  <2>6. f[m] = Round(rules, f[m - 1])
    BY <1>1, <2>4
  <2>7. f[m - 1] \subseteq f[m]
    BY <2>6 DEF Round
  <2>8. good(m)
    BY <2>5, <2>6, <2>7
  <2> QED BY <2>2, <2>8
<1>4. good(K)
  BY <1>2, <1>3
<1> QED BY <1>1, <1>4

\* A round adds nothing to the fixpoint: each round before the last but the useless ones
\* derives the head of one more rule.
LEMMA FixpointClosed ==
    ASSUME NEW rules, NEW facts, IsFiniteSet(rules)
    PROVE  \A r \in rules : Fires(r, Fixpoint(rules, facts)) => r.head \in Fixpoint(rules, facts)
<1> DEFINE K == Cardinality(rules)
<1>1. PICK f : /\ f[0] = facts
               /\ \A n \in Nat : n < K => f[n + 1] = Round(rules, f[n])
               /\ Fixpoint(rules, facts) = f[K]
  BY FixpointRounds
<1>2. K \in Nat
  BY FixpointRounds
<1> DEFINE derived(F) == {r \in rules : r.head \in F}
           closed(F) == \A r \in rules : Fires(r, F) => r.head \in F
           good(n) == closed(f[n]) \/ n <= Cardinality(derived(f[n]))
           Bad == {n \in 0 .. K : ~good(n)}
<1>3. \A F : IsFiniteSet(derived(F)) /\ Cardinality(derived(F)) \in Nat
  BY FS_Subset, FS_CardinalityType
<1>4. \A F : Cardinality(derived(F)) >= K => closed(F)
  <2> SUFFICES ASSUME NEW F, Cardinality(derived(F)) >= K PROVE closed(F)
    OBVIOUS
  <2>1. derived(F) \subseteq rules /\ Cardinality(derived(F)) <= K
    BY FS_Subset
  <2> DEFINE c == Cardinality(derived(F))
  <2>2. c \in Nat /\ c <= K /\ c >= K
    BY <1>3, <2>1
  <2>3. c = K
    <3> HIDE DEF c, K
    <3> QED BY <1>2, <2>2
  <2>4. derived(F) = rules
    BY <2>1, <2>3, FS_Subset
  <2> QED BY <2>4
<1>5. ASSUME NEW n \in Nat, n < K, good(n) PROVE good(n + 1)
  <2>1. f[n + 1] = Round(rules, f[n])
    BY <1>1, <1>5
  <2>2. CASE closed(f[n])
    <3>1. f[n + 1] = f[n]
      BY <2>1, <2>2 DEF Round
    <3> QED BY <2>2, <3>1
  <2>3. CASE ~closed(f[n])
    <3>1. PICK r \in rules : Fires(r, f[n]) /\ r.head \notin f[n]
      BY <2>3
    <3>2. r \in derived(f[n + 1]) /\ r \notin derived(f[n])
      BY <2>1, <3>1 DEF Round
    <3>3. derived(f[n]) \subseteq derived(f[n + 1])
      BY <2>1 DEF Round
    <3>4. Cardinality(derived(f[n])) <= Cardinality(derived(f[n + 1]))
          /\ (Cardinality(derived(f[n])) = Cardinality(derived(f[n + 1])) => derived(f[n]) = derived(f[n + 1]))
      BY <1>3, <3>3, FS_Subset
    <3>5. n <= Cardinality(derived(f[n]))
      BY <1>5, <2>3
    <3> HIDE DEF derived, closed
    <3> QED BY <1>3, <3>2, <3>4, <3>5
  <2> QED BY <2>2, <2>3
<1>6. good(0)
  <2>1. Cardinality(derived(f[0])) \in Nat
    BY <1>3
  <2> HIDE DEF derived, closed
  <2> QED BY <2>1
<1> HIDE DEF K, good
<1>7. Bad = {}
  <2> SUFFICES ASSUME Bad # {} PROVE FALSE
    OBVIOUS
  <2>1. Bad \in SUBSET Nat
    BY <1>2
  <2>2. PICK m \in Bad : \A k \in Bad : m <= k
    BY <2>1, Least
  <2>3. m # 0
    BY <1>6, <2>2
  <2>4. m \in 0 .. K /\ m - 1 \in 0 .. K /\ m - 1 \in Nat /\ m - 1 < K /\ (m - 1) + 1 = m /\ ~(m <= m - 1)
    BY <1>2, <2>2, <2>3
  <2>5. good(m - 1)
    BY <2>2, <2>4
  <2>6. good(m)
    BY <1>5, <2>4, <2>5
  <2> QED BY <2>2, <2>6
<1>8. good(K)
  BY <1>2, <1>7
<1>9. closed(f[K])
  <2>1. CASE closed(f[K])
    BY <2>1
  <2>2. CASE K <= Cardinality(derived(f[K]))
    <3>1. Cardinality(derived(f[K])) \in Nat
      BY <1>3
    <3>2. Cardinality(derived(f[K])) >= K
      BY <1>2, <2>2, <3>1
    <3> QED BY <1>4, <3>2
  <2> QED BY <1>8, <2>1, <2>2 DEF good
<1> QED BY <1>1, <1>9

-----------------------------------------------------------------------------
(* Stratified programs                                                      *)

OfStratum(rules, S) == {r \in rules : r.head \in S}

\* f lists the facts after each of the first N strata.
Models(rules, strata, facts, N, f) ==
    f = [k \in 0 .. N |-> IF k = 0 THEN facts ELSE Fixpoint(OfStratum(rules, strata[k]), f[k - 1])]

HasModels(rules, strata, facts, N) == \E f : Models(rules, strata, facts, N, f)

LEMMA StratifiedIsModel ==
    ASSUME NEW rules, NEW strata, NEW facts
    PROVE  Stratified(rules, strata, facts) =
               (CHOOSE f : Models(rules, strata, facts, Len(strata), f))[Len(strata)]
BY DEF Stratified, Models, OfStratum

LEMMA ModelsGrow ==
    ASSUME NEW rules, NEW strata, NEW facts, NEW N \in Nat, N # 0,
           HasModels(rules, strata, facts, N - 1)
    PROVE  HasModels(rules, strata, facts, N)
<1>1. PICK f : Models(rules, strata, facts, N - 1, f)
  BY DEF HasModels
<1> DEFINE next == [k \in 0 .. N |-> IF k = 0 THEN facts ELSE Fixpoint(OfStratum(rules, strata[k]), f[k - 1])]
<1>2. \A k \in 0 .. N - 1 : next[k] = f[k]
  BY <1>1 DEF Models
<1>3. \A k \in 0 .. N : k # 0 => k - 1 \in 0 .. N - 1
  OBVIOUS
<1>4. \A k \in 0 .. N : k # 0 => Fixpoint(OfStratum(rules, strata[k]), f[k - 1])
                                     = Fixpoint(OfStratum(rules, strata[k]), next[k - 1])
  BY <1>2, <1>3
<1>5. next = [k \in 0 .. N |-> IF k = 0 THEN facts ELSE Fixpoint(OfStratum(rules, strata[k]), next[k - 1])]
  BY <1>4
<1> HIDE DEF next
<1> QED BY <1>5 DEF HasModels, Models

LEMMA ModelsExist ==
    ASSUME NEW rules, NEW strata, NEW facts, NEW N \in Nat
    PROVE  HasModels(rules, strata, facts, N)
<1> DEFINE Bad == {n \in Nat : ~HasModels(rules, strata, facts, n)}
<1> SUFFICES ASSUME Bad # {} PROVE FALSE
  OBVIOUS
<1>1. PICK m \in Bad : \A k \in Bad : m <= k
  BY Least
<1>2. CASE m = 0
  <2> DEFINE f == [k \in 0 .. 0 |-> facts]
  <2>1. f = [k \in 0 .. 0 |-> IF k = 0 THEN facts ELSE Fixpoint(OfStratum(rules, strata[k]), f[k - 1])]
    OBVIOUS
  <2> HIDE DEF f
  <2>2. HasModels(rules, strata, facts, 0)
    BY <2>1 DEF HasModels, Models
  <2> QED BY <1>1, <1>2, <2>2
<1>3. CASE m # 0
  <2>1. m \in Nat /\ m - 1 \in Nat /\ ~(m <= m - 1)
    BY <1>1, <1>3
  <2>2. HasModels(rules, strata, facts, m - 1)
    BY <1>1, <2>1
  <2> QED BY <1>1, <1>3, <2>1, <2>2, ModelsGrow
<1> QED BY <1>2, <1>3

\* The facts of the last stratum, and how those of each stratum come from the ones before.
LEMMA StratifiedModels ==
    ASSUME NEW rules, NEW strata, NEW facts, Len(strata) \in Nat
    PROVE  \E f : /\ f[0] = facts
                  /\ \A k \in Nat : k < Len(strata) =>
                        f[k + 1] = Fixpoint(OfStratum(rules, strata[k + 1]), f[k])
                  /\ Stratified(rules, strata, facts) = f[Len(strata)]
<1> DEFINE K == Len(strata)
           f == CHOOSE g : Models(rules, strata, facts, K, g)
<1>1. Models(rules, strata, facts, K, f)
  BY ModelsExist DEF HasModels
<1>2. Stratified(rules, strata, facts) = f[K]
  BY StratifiedIsModel
<1> HIDE DEF f
<1>3. f[0] = facts
  BY <1>1 DEF Models
<1>4. ASSUME NEW k \in Nat, k < K PROVE f[k + 1] = Fixpoint(OfStratum(rules, strata[k + 1]), f[k])
  <2>1. k + 1 \in 0 .. K /\ k + 1 # 0 /\ (k + 1) - 1 = k
    BY <1>4
  <2> QED BY <1>1, <2>1 DEF Models
<1> QED BY <1>2, <1>3, <1>4

\* What holds of the facts and is kept by a round of all rules holds of the model.
LEMMA StratifiedWithin ==
    ASSUME NEW rules, NEW strata, NEW facts, IsFiniteSet(rules), Len(strata) \in Nat, NEW W,
           facts \subseteq W,
           \A F : facts \subseteq F /\ F \subseteq W => Round(rules, F) \subseteq W
    PROVE  /\ facts \subseteq Stratified(rules, strata, facts)
           /\ Stratified(rules, strata, facts) \subseteq W
<1> DEFINE K == Len(strata)
<1>1. PICK f : /\ f[0] = facts
               /\ \A k \in Nat : k < K => f[k + 1] = Fixpoint(OfStratum(rules, strata[k + 1]), f[k])
               /\ Stratified(rules, strata, facts) = f[K]
  BY StratifiedModels
<1> DEFINE good(n) == facts \subseteq f[n] /\ f[n] \subseteq W
           Bad == {n \in 0 .. K : ~good(n)}
<1>2. ASSUME NEW k \in Nat, k < K, good(k) PROVE good(k + 1)
  <2> DEFINE some == OfStratum(rules, strata[k + 1])
  <2>1. some \subseteq rules /\ IsFiniteSet(some)
    BY FS_Subset DEF OfStratum
  <2>2. ASSUME NEW F, f[k] \subseteq F, F \subseteq W PROVE Round(some, F) \subseteq W
    <3>1. Round(some, F) \subseteq Round(rules, F)
      BY <2>1 DEF Round
    <3>2. Round(rules, F) \subseteq W
      BY <1>2, <2>2
    <3> QED BY <3>1, <3>2
  <2> HIDE DEF some
  <2>3. f[k] \subseteq Fixpoint(some, f[k]) /\ Fixpoint(some, f[k]) \subseteq W
    BY <1>2, <2>1, <2>2, FixpointWithin
  <2>4. f[k + 1] = Fixpoint(some, f[k])
    BY <1>1, <1>2 DEF some
  <2> QED BY <1>2, <2>3, <2>4
<1>3. Bad = {}
  <2> SUFFICES ASSUME Bad # {} PROVE FALSE
    OBVIOUS
  <2>1. Bad \in SUBSET Nat
    OBVIOUS
  <2>2. PICK m \in Bad : \A k \in Bad : m <= k
    BY <2>1, Least
  <2>3. m # 0
    BY <1>1, <2>2
  <2>4. m \in 0 .. K /\ m - 1 \in 0 .. K /\ m - 1 \in Nat /\ m - 1 < K /\ (m - 1) + 1 = m /\ ~(m <= m - 1)
    BY <2>2, <2>3
  <2>5. good(m - 1)
    BY <2>2, <2>4
  <2>6. good(m)
    BY <1>2, <2>4, <2>5
  <2> QED BY <2>2, <2>6
<1>4. good(K)
  BY <1>3
<1> QED BY <1>1, <1>4

-----------------------------------------------------------------------------
(* The programs of a task                                                   *)

\* A set that is listed by a finite one is finite.
LEMMA FiniteImage ==
    ASSUME NEW S, IsFiniteSet(S), NEW T, NEW f \in [S -> T], \A t \in T : \E s \in S : f[s] = t
    PROVE  IsFiniteSet(T)
<1>1. f \in Surjection(S, T)
  BY DEF Surjection
<1> QED BY <1>1, FS_Surjection

LEMMA AxiomProgramFinite ==
    ASSUME NEW t, WellFormed(t)
    PROVE  IsFiniteSet(AxiomProgram(t))
<1> DEFINE S == {y \in t.axioms : y.body.static}
           f == [x \in S |-> Clause(x.body.pos, x.body.neg, x.head)]
<1>1. IsFiniteSet(S)
  BY FS_Subset DEF WellFormed
<1>2. f \in [S -> AxiomProgram(t)] /\ \A r \in AxiomProgram(t) : \E x \in S : f[x] = r
  BY DEF AxiomProgram
<1> HIDE DEF f, S
<1> QED BY <1>1, <1>2, FiniteImage

LEMMA ActionProgramFinite ==
    ASSUME NEW t, WellFormed(t)
    PROVE  IsFiniteSet(ActionProgram(t))
<1> DEFINE S == {b \in t.actions : b.cond.static}
           f == [a \in S |-> Clause(a.cond.pos, a.cond.neg, App(a))]
<1>1. IsFiniteSet(S)
  BY FS_Subset DEF WellFormed
<1>2. f \in [S -> ActionProgram(t)] /\ \A r \in ActionProgram(t) : \E a \in S : f[a] = r
  BY DEF ActionProgram
<1> HIDE DEF f, S
<1> QED BY <1>1, <1>2, FiniteImage

\* The rules of one effect, of the effects of one action, and of the actions.
RPGOfEffect(a, e) == {Clause((a.cond.pos \cup e.cond.pos) \ DerivedFacts, {}, f) : f \in e.add}
RPGOfAction(a) == UNION {RPGOfEffect(a, e) : e \in {d \in a.effects : d.cond.static}}

LEMMA RPGProgramParts ==
    ASSUME NEW t
    PROVE  RPGProgram(t, DerivedFacts) = UNION {RPGOfAction(a) : a \in {b \in t.actions : b.cond.static}}
BY DEF RPGProgram, RPGOfAction, RPGOfEffect

LEMMA RPGOfEffectFinite ==
    ASSUME NEW a, NEW e, IsFiniteSet(e.add)
    PROVE  IsFiniteSet(RPGOfEffect(a, e))
<1> DEFINE g == [f \in e.add |-> Clause((a.cond.pos \cup e.cond.pos) \ DerivedFacts, {}, f)]
<1>1. g \in [e.add -> RPGOfEffect(a, e)] /\ \A r \in RPGOfEffect(a, e) : \E f \in e.add : g[f] = r
  BY DEF RPGOfEffect
<1> HIDE DEF g
<1> QED BY <1>1, FiniteImage

LEMMA RPGOfActionFinite ==
    ASSUME NEW a, IsFiniteSet(a.effects), \A e \in a.effects : IsFiniteSet(e.add)
    PROVE  IsFiniteSet(RPGOfAction(a))
<1> DEFINE S == {d \in a.effects : d.cond.static}
           T == {RPGOfEffect(a, e) : e \in S}
           g == [e \in S |-> RPGOfEffect(a, e)]
<1>1. IsFiniteSet(S)
  BY FS_Subset
<1>2. g \in [S -> T] /\ \A t \in T : \E e \in S : g[e] = t
  OBVIOUS
<1>3. \A t \in T : IsFiniteSet(t)
  BY RPGOfEffectFinite
<1>4. RPGOfAction(a) = UNION T
  BY DEF RPGOfAction
<1> HIDE DEF g, T, S
<1>5. IsFiniteSet(T)
  BY <1>1, <1>2, FiniteImage
<1> QED BY <1>3, <1>4, <1>5, FS_UNION

LEMMA RPGProgramFinite ==
    ASSUME NEW t, WellFormed(t)
    PROVE  IsFiniteSet(RPGProgram(t, DerivedFacts))
<1> DEFINE S == {b \in t.actions : b.cond.static}
           T == {RPGOfAction(a) : a \in S}
           g == [a \in S |-> RPGOfAction(a)]
<1>1. IsFiniteSet(S)
  BY FS_Subset DEF WellFormed
<1>2. g \in [S -> T] /\ \A x \in T : \E a \in S : g[a] = x
  OBVIOUS
<1>3. \A x \in T : IsFiniteSet(x)
  BY RPGOfActionFinite DEF WellFormed
<1>4. RPGProgram(t, DerivedFacts) = UNION T
  BY RPGProgramParts
<1> HIDE DEF g, T, S
<1>5. IsFiniteSet(T)
  BY <1>1, <1>2, FiniteImage
<1> QED BY <1>3, <1>4, <1>5, FS_UNION

\* The extended state has the atoms of the state and derived ones.
LEMMA ExtendedFacts ==
    ASSUME WellFormed(task)
    PROVE  state \subseteq ExtendedState /\ ExtendedState \subseteq state \cup DerivedFacts
<1> DEFINE W == state \cup DerivedFacts
<1>1. ASSUME NEW F, F \subseteq W PROVE Round(AxiomProgram(task), F) \subseteq W
  BY <1>1 DEF Round, AxiomProgram, Clause, WellFormed
<1>2. Len(task.strata) \in Nat
  BY DEF WellFormed
<1>3. IsFiniteSet(AxiomProgram(task))
  BY AxiomProgramFinite
<1>4. state \subseteq W
  OBVIOUS
<1> HIDE DEF W
<1>5. /\ state \subseteq Stratified(AxiomProgram(task), task.strata, state)
      /\ Stratified(AxiomProgram(task), task.strata, state) \subseteq W
  BY <1>1, <1>2, <1>3, <1>4, StratifiedWithin
<1> QED BY <1>5 DEF ExtendedState, W

\* The program of the action schemas finds only actions whose conditions hold.
LEMMA ApplicableHolds ==
    ASSUME WellFormed(task), {App(x) : x \in task.actions} \cap state = {}, NEW a \in Applicable
    PROVE  a \in task.actions /\ Holds(a.cond, ExtendedState)
<1> DEFINE right == {b \in task.actions : Holds(b.cond, ExtendedState)}
           W == ExtendedState \cup {App(b) : b \in right}
<1>1. {App(x) : x \in task.actions} \cap ExtendedState = {}
  BY ExtendedFacts DEF WellFormed
<1>2. ASSUME NEW F, ExtendedState \subseteq F, F \subseteq W PROVE Round(ActionProgram(task), F) \subseteq W
  <2>1. ASSUME NEW b \in task.actions, b.cond.static, b.cond.pos \subseteq F, b.cond.neg \cap F = {}
        PROVE  App(b) \in W
    <3>1. b.cond.pos \subseteq ExtendedState
      <4>1. \A f \in b.cond.pos : f \in W /\ f \notin {App(x) : x \in task.actions}
        BY <1>2, <2>1 DEF WellFormed
      <4> QED BY <4>1
    <3>2. Holds(b.cond, ExtendedState)
      BY <1>2, <2>1, <3>1 DEF Holds
    <3> QED BY <2>1, <3>2
  <2> HIDE DEF W
  <2> QED BY <1>2, <2>1 DEF Round, Fires, ActionProgram, Clause
<1>3. IsFiniteSet(ActionProgram(task))
  BY ActionProgramFinite
<1> HIDE DEF W
<1>4. Fixpoint(ActionProgram(task), ExtendedState) \subseteq W
  <2>1. ExtendedState \subseteq W
    BY DEF W
  <2> QED BY <1>2, <1>3, <2>1, FixpointWithin
<1>5. a \in task.actions /\ App(a) \in W
  BY <1>4 DEF Applicable
<1>6. App(a) \in {App(b) : b \in right}
  BY <1>1, <1>5 DEF W
<1> QED BY <1>5, <1>6 DEF WellFormed

\* The rules of the ground task program, effect by effect and axiom by axiom.
RulesOfEffect(a, e) == {RelaxedRule({e.cond}, {App(a)}, f) : f \in e.add}
RulesOfAction(a) == UNION {RulesOfEffect(a, e) : e \in {d \in a.effects : d.cond.static}}
RulesOfAxiom(x) == {RelaxedRule({x.body}, {}, App(x)), RelaxedRule({}, {App(x)}, x.head)}

LEMMA GroundTaskProgramParts ==
    ASSUME NEW t
    PROVE  GroundTaskProgram(t) =
               {RelaxedRule({a.cond}, {}, App(a)) : a \in {b \in t.actions : b.cond.static}}
                   \cup (UNION {RulesOfAction(a) : a \in {b \in t.actions : b.cond.static}})
                   \cup (UNION {RulesOfAxiom(x) : x \in {y \in t.axioms : y.body.static}})
<1>1. CondEffectRules(t) = UNION {RulesOfAction(a) : a \in {b \in t.actions : b.cond.static}}
  BY DEF CondEffectRules, RulesOfAction, RulesOfEffect
<1>2. AxiomRules(t) = UNION {RulesOfAxiom(x) : x \in {y \in t.axioms : y.body.static}}
  BY DEF AxiomRules, RulesOfAxiom
<1> QED BY <1>1, <1>2 DEF GroundTaskProgram, ApplicabilityRules

LEMMA RulesOfEffectFinite ==
    ASSUME NEW a, NEW e, IsFiniteSet(e.add)
    PROVE  IsFiniteSet(RulesOfEffect(a, e))
<1> DEFINE g == [f \in e.add |-> RelaxedRule({e.cond}, {App(a)}, f)]
<1>1. g \in [e.add -> RulesOfEffect(a, e)] /\ \A r \in RulesOfEffect(a, e) : \E f \in e.add : g[f] = r
  BY DEF RulesOfEffect
<1> HIDE DEF g
<1> QED BY <1>1, FiniteImage

LEMMA RulesOfActionFinite ==
    ASSUME NEW a, IsFiniteSet(a.effects), \A e \in a.effects : IsFiniteSet(e.add)
    PROVE  IsFiniteSet(RulesOfAction(a))
<1> DEFINE S == {d \in a.effects : d.cond.static}
           T == {RulesOfEffect(a, e) : e \in S}
           g == [e \in S |-> RulesOfEffect(a, e)]
<1>1. IsFiniteSet(S)
  BY FS_Subset
<1>2. g \in [S -> T] /\ \A t \in T : \E e \in S : g[e] = t
  OBVIOUS
<1>3. \A t \in T : IsFiniteSet(t)
  BY RulesOfEffectFinite
<1>4. RulesOfAction(a) = UNION T
  BY DEF RulesOfAction
<1> HIDE DEF g, T, S
<1>5. IsFiniteSet(T)
  BY <1>1, <1>2, FiniteImage
<1> QED BY <1>3, <1>4, <1>5, FS_UNION

LEMMA GroundTaskProgramFinite ==
    ASSUME NEW t, WellFormed(t)
    PROVE  IsFiniteSet(GroundTaskProgram(t))
<1> DEFINE S == {b \in t.actions : b.cond.static}
           X == {y \in t.axioms : y.body.static}
           T1 == {RelaxedRule({a.cond}, {}, App(a)) : a \in S}
           T2 == {RulesOfAction(a) : a \in S}
           T3 == {RulesOfAxiom(x) : x \in X}
           g1 == [a \in S |-> RelaxedRule({a.cond}, {}, App(a))]
           g2 == [a \in S |-> RulesOfAction(a)]
           g3 == [x \in X |-> RulesOfAxiom(x)]
<1>1. IsFiniteSet(S) /\ IsFiniteSet(X)
  BY FS_Subset DEF WellFormed
<1>2. /\ g1 \in [S -> T1] /\ \A y \in T1 : \E a \in S : g1[a] = y
      /\ g2 \in [S -> T2] /\ \A y \in T2 : \E a \in S : g2[a] = y
      /\ g3 \in [X -> T3] /\ \A y \in T3 : \E x \in X : g3[x] = y
  OBVIOUS
<1>3. \A y \in T2 : IsFiniteSet(y)
  BY RulesOfActionFinite DEF WellFormed
<1>4. \A y \in T3 : IsFiniteSet(y)
  <2>1. \A a, b : IsFiniteSet({a, b})
    <3> TAKE a, b
    <3>1. IsFiniteSet({a}) /\ IsFiniteSet({b})
      BY FS_Singleton
    <3>2. {a, b} = {a} \cup {b}
      OBVIOUS
    <3> QED BY <3>1, <3>2, FS_Union
  <2> QED BY <2>1 DEF RulesOfAxiom
<1>5. GroundTaskProgram(t) = (T1 \cup (UNION T2)) \cup (UNION T3)
  BY GroundTaskProgramParts
<1> HIDE DEF g1, g2, g3, T1, T2, T3, S, X
<1>6. IsFiniteSet(T1) /\ IsFiniteSet(T2) /\ IsFiniteSet(T3)
  BY <1>1, <1>2, FiniteImage
<1>7. IsFiniteSet(UNION T2) /\ IsFiniteSet(UNION T3)
  BY <1>3, <1>4, <1>6, FS_UNION
<1>8. IsFiniteSet(T1 \cup (UNION T2))
  BY <1>6, <1>7, FS_Union
<1>9. IsFiniteSet((T1 \cup (UNION T2)) \cup (UNION T3))
  BY <1>7, <1>8, FS_Union
<1> QED BY <1>5, <1>9

-----------------------------------------------------------------------------
(* Dead ends, and the verdict that a task is unsolvable.                    *)

\* The task is one of the tasks, and applicability atoms are not atoms of states.
TaskInv ==
    /\ task \in Tasks
    /\ {App(x) : x \in task.actions} \cap state = {}

\* An executed action: its condition and those of its effects hold, and what it adds and
\* keeps is the next state.
LEMMA Executed ==
    ASSUME TaskInv, NEW a, Execute(a)
    PROVE  /\ WellFormed(task) /\ task' = task
           /\ a \in task.actions /\ Holds(a.cond, ExtendedState)
           /\ \A f \in state' : \/ f \in state
                                \/ \E e \in a.effects : Holds(e.cond, ExtendedState) /\ f \in e.add
<1>1. WellFormed(task)
  BY TaskAssumption DEF TaskInv
<1>2. a \in Applicable /\ task' = task
  BY DEF Execute
<1>3. a \in task.actions /\ Holds(a.cond, ExtendedState)
  BY <1>1, <1>2, ApplicableHolds DEF TaskInv
<1>4. LET fired == {e \in a.effects : Holds(e.cond, ExtendedState)}
      IN  state' = (state \ UNION {e.del : e \in fired}) \cup UNION {e.add : e \in fired}
  BY DEF Execute
<1> QED BY <1>1, <1>2, <1>3, <1>4

\* What is closed under the relaxed rules and contains the state contains the next one.
LEMMA RelaxedSuccessor ==
    ASSUME TaskInv, NEW a, Execute(a), NEW F, state \subseteq F,
           \A r \in RPGProgram(task, DerivedFacts) : Fires(r, F) => r.head \in F
    PROVE  state' \subseteq F
<1> SUFFICES ASSUME NEW e \in a.effects, Holds(e.cond, ExtendedState), NEW f \in e.add PROVE f \in F
  BY Executed
<1> DEFINE r == Clause((a.cond.pos \cup e.cond.pos) \ DerivedFacts, {}, f)
<1>1. a \in task.actions /\ a.cond.static /\ e.cond.static
      /\ a.cond.pos \subseteq ExtendedState /\ e.cond.pos \subseteq ExtendedState
  BY Executed DEF Holds
<1>2. ExtendedState \subseteq state \cup DerivedFacts
  BY Executed, ExtendedFacts
<1>3. r \in RPGOfEffect(a, e)
  BY DEF RPGOfEffect
<1>4. r \in RPGOfAction(a)
  BY <1>1, <1>3 DEF RPGOfAction
<1>5. r \in RPGProgram(task, DerivedFacts)
  BY <1>1, <1>4, RPGProgramParts
<1>6. Fires(r, F) /\ r.head = f
  BY <1>1, <1>2 DEF Fires, Clause
<1> QED BY <1>5, <1>6

\* Positive rules lead out of no closed set.
LEMMA ClosedRound ==
    ASSUME NEW rules, \A r \in rules : r.neg = {}, NEW W,
           \A r \in rules : Fires(r, W) => r.head \in W, NEW F, F \subseteq W
    PROVE  Round(rules, F) \subseteq W
<1>1. \A r \in rules : Fires(r, F) => Fires(r, W)
  BY DEF Fires
<1> QED BY <1>1 DEF Round

LEMMA RPGPositive == \A r \in RPGProgram(task, DerivedFacts) : r.neg = {}
  BY RPGProgramParts DEF RPGOfAction, RPGOfEffect, Clause

LEMMA RelaxationShrinks ==
    ASSUME TaskInv, NEW a, Execute(a)
    PROVE  Fixpoint(RPGProgram(task, DerivedFacts), state') \subseteq Fixpoint(RPGProgram(task, DerivedFacts), state)
<1> DEFINE P == RPGProgram(task, DerivedFacts)
           F == Fixpoint(P, state)
<1>1. IsFiniteSet(P)
  BY Executed, RPGProgramFinite
<1>2. \A r \in P : Fires(r, F) => r.head \in F
  BY <1>1, FixpointClosed
<1>3. \A G : G \subseteq F => Round(P, G) \subseteq F
  BY <1>2, RPGPositive, ClosedRound
<1>4. state \subseteq F
  <2>1. \A G : Round(P, G) \subseteq state \cup {r.head : r \in P} \cup G
    BY DEF Round
  <2> DEFINE W == state \cup {r.head : r \in P}
  <2>2. \A G : state \subseteq G /\ G \subseteq W => Round(P, G) \subseteq W
    BY <2>1
  <2> HIDE DEF P, W
  <2>3. state \subseteq W
    BY DEF W
  <2> QED BY <1>1, <2>2, <2>3, FixpointWithin
<1>5. state' \subseteq F
  BY <1>2, <1>4, RelaxedSuccessor
<1> HIDE DEF P, F
<1>6. Fixpoint(P, state') \subseteq F
  BY <1>1, <1>3, <1>5, FixpointWithin
<1> QED BY <1>6 DEF P, F

LEMMA TaskInvInit == Init => TaskInv
<1> SUFFICES ASSUME Init PROVE TaskInv
  OBVIOUS
<1>1. task \in Tasks /\ state = task.init /\ WellFormed(task)
  BY TaskAssumption DEF Init
<1> QED BY <1>1 DEF TaskInv, WellFormed

LEMMA TaskInvNext == TaskInv /\ [Next]_vars => TaskInv'
<1> SUFFICES ASSUME TaskInv, [Next]_vars PROVE TaskInv'
  OBVIOUS
<1>1. ASSUME NEW a, Execute(a) PROVE TaskInv'
  <2>1. \A e \in a.effects : {App(x) : x \in task.actions} \cap e.add = {}
    BY <1>1, Executed DEF WellFormed
  <2> QED BY <1>1, <2>1, Executed DEF TaskInv
<1>2. CASE UNCHANGED <<task, state>>
  BY <1>2 DEF TaskInv
<1> QED BY <1>1, <1>2 DEF Next, vars, SolveProgram, CreateVariables, GroundAction, GroundAxiom, Finish

\* Dead ends of the relaxation stay dead ends: what RPGProgram derives from a state only
\* shrinks along a plan, so that the heuristics which report an unreached goal
\* (rpg.hpp, evaluate) prune no state from which the goal can be reached. For every task with
\* negative and derived literals, conditional effects and axioms.
THEOREM DeadEndsAreFinal == Spec => DeadEndsStay
<1>1. TaskInv /\ [Next]_vars =>
        (stage \in {"done", "unsolvable"} =>
            Fixpoint(RPGProgram(task, DerivedFacts), state') \subseteq Fixpoint(RPGProgram(task, DerivedFacts), state))
  <2> SUFFICES ASSUME TaskInv, [Next]_vars
               PROVE  Fixpoint(RPGProgram(task, DerivedFacts), state') \subseteq Fixpoint(RPGProgram(task, DerivedFacts), state)
    OBVIOUS
  <2>1. ASSUME NEW a, Execute(a)
        PROVE  Fixpoint(RPGProgram(task, DerivedFacts), state') \subseteq Fixpoint(RPGProgram(task, DerivedFacts), state)
    BY <2>1, RelaxationShrinks
  <2>2. CASE state' = state
    BY <2>2
  <2> QED BY <2>1, <2>2 DEF Next, vars, SolveProgram, CreateVariables, GroundAction, GroundAxiom, Finish
<1> QED BY <1>1, TaskInvInit, TaskInvNext, PTL DEF Spec, DeadEndsStay

\* The inductive invariant of the verdict: what the delete-free program derives contains
\* every reachable state, and is closed under its rules.
ReachedInv ==
    /\ TaskInv
    /\ stage = "program" => state = task.init
    /\ stage # "program" =>
        /\ state \subseteq reached
        /\ \A r \in GroundTaskProgram(task) : r.pos \subseteq reached => r.head \in reached
    /\ stage = "unsolvable" => Contradiction(task.goal)

\* The body of a relaxed rule.
LEMMA RelaxedParts ==
    ASSUME NEW conds, NEW extra, NEW head
    PROVE  /\ RelaxedRule(conds, extra, head).pos = (UNION {c.pos : c \in conds}) \cup extra
           /\ RelaxedRule(conds, extra, head).head = head
BY DEF RelaxedRule, Clause

\* The rules of the program, one by one.
LEMMA RuleOfApplicability ==
    ASSUME NEW a \in task.actions, a.cond.static
    PROVE  \E r \in GroundTaskProgram(task) : r.pos = a.cond.pos /\ r.head = App(a)
<1>1. PICK r : r = RelaxedRule({a.cond}, {}, App(a))
  OBVIOUS
<1>2. r \in GroundTaskProgram(task)
  BY <1>1, GroundTaskProgramParts
<1>3. r.pos = (UNION {c.pos : c \in {a.cond}}) \cup {} /\ r.head = App(a)
  BY <1>1, RelaxedParts
<1>4. (UNION {c.pos : c \in {a.cond}}) \cup {} = a.cond.pos
  OBVIOUS
<1>5. r.pos = a.cond.pos /\ r.head = App(a)
  BY <1>3, <1>4
<1> QED BY <1>2, <1>5

LEMMA RuleOfEffect ==
    ASSUME NEW a \in task.actions, a.cond.static, NEW e \in a.effects, e.cond.static, NEW f \in e.add
    PROVE  \E r \in GroundTaskProgram(task) : r.pos = e.cond.pos \cup {App(a)} /\ r.head = f
<1>1. PICK r : r = RelaxedRule({e.cond}, {App(a)}, f)
  OBVIOUS
<1>2. r \in RulesOfEffect(a, e)
  BY <1>1 DEF RulesOfEffect
<1>3. r \in RulesOfAction(a)
  BY <1>2 DEF RulesOfAction
<1>4. r \in GroundTaskProgram(task)
  BY <1>3, GroundTaskProgramParts
<1>5. r.pos = (UNION {c.pos : c \in {e.cond}}) \cup {App(a)} /\ r.head = f
  BY <1>1, RelaxedParts
<1>6. UNION {c.pos : c \in {e.cond}} = e.cond.pos
  OBVIOUS
<1>7. r.pos = e.cond.pos \cup {App(a)} /\ r.head = f
  BY <1>5, <1>6
<1> QED BY <1>4, <1>7

LEMMA RulesOfHead ==
    ASSUME NEW x \in task.axioms, x.body.static
    PROVE  /\ \E r \in GroundTaskProgram(task) : r.pos = x.body.pos /\ r.head = App(x)
           /\ \E q \in GroundTaskProgram(task) : q.pos = {App(x)} /\ q.head = x.head
<1>1. PICK r : r = RelaxedRule({x.body}, {}, App(x))
  OBVIOUS
<1>2. PICK q : q = RelaxedRule({}, {App(x)}, x.head)
  OBVIOUS
<1>3. r \in RulesOfAxiom(x) /\ q \in RulesOfAxiom(x)
  BY <1>1, <1>2 DEF RulesOfAxiom
<1>4. r \in GroundTaskProgram(task) /\ q \in GroundTaskProgram(task)
  BY <1>3, GroundTaskProgramParts
<1>5. r.pos = (UNION {c.pos : c \in {x.body}}) \cup {} /\ r.head = App(x)
  BY <1>1, RelaxedParts
<1>6. q.pos = (UNION {c.pos : c \in {}}) \cup {App(x)} /\ q.head = x.head
  BY <1>2, RelaxedParts
<1>7. (UNION {c.pos : c \in {x.body}}) \cup {} = x.body.pos
  OBVIOUS
<1>8. (UNION {c.pos : c \in {}}) \cup {App(x)} = {App(x)}
  OBVIOUS
<1>9. r.pos = x.body.pos /\ r.head = App(x) /\ q.pos = {App(x)} /\ q.head = x.head
  BY <1>5, <1>6, <1>7, <1>8
<1> QED BY <1>4, <1>9

LEMMA ReachedRules ==
    ASSUME \A r \in GroundTaskProgram(task) : r.pos \subseteq reached => r.head \in reached
    PROVE  /\ \A a \in task.actions : a.cond.static /\ a.cond.pos \subseteq reached => App(a) \in reached
           /\ \A a \in task.actions : a.cond.static /\ App(a) \in reached =>
                \A e \in a.effects : e.cond.static /\ e.cond.pos \subseteq reached => e.add \subseteq reached
           /\ \A x \in task.axioms : x.body.static /\ x.body.pos \subseteq reached => x.head \in reached
<1>1. ASSUME NEW a \in task.actions, a.cond.static, a.cond.pos \subseteq reached PROVE App(a) \in reached
  <2>1. PICK r \in GroundTaskProgram(task) : r.pos = a.cond.pos /\ r.head = App(a)
    BY <1>1, RuleOfApplicability
  <2> QED BY <1>1, <2>1
<1>2. ASSUME NEW a \in task.actions, a.cond.static, App(a) \in reached,
             NEW e \in a.effects, e.cond.static, e.cond.pos \subseteq reached, NEW f \in e.add
      PROVE  f \in reached
  <2>1. PICK r \in GroundTaskProgram(task) : r.pos = e.cond.pos \cup {App(a)} /\ r.head = f
    BY <1>2, RuleOfEffect
  <2>2. r.pos \subseteq reached
    BY <1>2, <2>1
  <2> QED BY <2>1, <2>2
<1>3. ASSUME NEW x \in task.axioms, x.body.static, x.body.pos \subseteq reached PROVE x.head \in reached
  <2>1. PICK r \in GroundTaskProgram(task) : r.pos = x.body.pos /\ r.head = App(x)
    BY <1>3, RulesOfHead
  <2>2. App(x) \in reached
    BY <1>3, <2>1
  <2>3. PICK q \in GroundTaskProgram(task) : q.pos = {App(x)} /\ q.head = x.head
    BY <1>3, RulesOfHead
  <2>4. q.pos \subseteq reached
    BY <2>2, <2>3
  <2> QED BY <2>3, <2>4
<1> QED BY <1>1, <1>2, <1>3

\* The extended states of reachable states are reached too.
LEMMA ExtendedReached ==
    ASSUME ReachedInv, stage # "program"
    PROVE  ExtendedState \subseteq reached
<1>1. WellFormed(task)
  BY TaskAssumption DEF ReachedInv, TaskInv
<1>2. state \subseteq reached
  BY DEF ReachedInv
<1>3. ASSUME NEW F, F \subseteq reached PROVE Round(AxiomProgram(task), F) \subseteq reached
  <2>1. \A x \in task.axioms : x.body.static /\ x.body.pos \subseteq reached => x.head \in reached
    BY ReachedRules DEF ReachedInv
  <2> QED BY <1>3, <2>1 DEF Round, Fires, AxiomProgram, Clause
<1>4. Len(task.strata) \in Nat
  BY <1>1 DEF WellFormed
<1>5. IsFiniteSet(AxiomProgram(task))
  BY <1>1, AxiomProgramFinite
<1> QED BY <1>2, <1>3, <1>4, <1>5, StratifiedWithin DEF ExtendedState

LEMMA ReachedInit == Init => ReachedInv
BY TaskInvInit DEF Init, ReachedInv

LEMMA ReachedSolve == ReachedInv /\ SolveProgram => ReachedInv'
<1> SUFFICES ASSUME ReachedInv, SolveProgram PROVE ReachedInv'
  OBVIOUS
<1> DEFINE P == GroundTaskProgram(task)
<1>1. TaskInv'
  BY TaskInvNext DEF ReachedInv, Next
<1>2. /\ stage = "program" /\ stage' = "create" /\ task' = task /\ state' = state
      /\ reached' = Fixpoint(P, state)
  BY DEF SolveProgram, ReachedInv
<1>3. IsFiniteSet(P)
  BY GroundTaskProgramFinite, TaskAssumption DEF ReachedInv, TaskInv
<1>4. \A r \in P : r.neg = {}
  BY GroundTaskProgramParts DEF RulesOfAction, RulesOfEffect, RulesOfAxiom, RelaxedRule, Clause
<1>5. \A r \in P : r.pos \subseteq reached' => r.head \in reached'
  BY <1>2, <1>3, <1>4, FixpointClosed DEF Fires
<1>6. state \subseteq reached'
  <2> DEFINE W == state \cup {r.head : r \in P}
  <2>1. \A G : state \subseteq G /\ G \subseteq W => Round(P, G) \subseteq W
    BY DEF Round
  <2>2. state \subseteq W
    OBVIOUS
  <2> HIDE DEF P, W
  <2> QED BY <1>2, <1>3, <2>1, <2>2, FixpointWithin
<1> QED BY <1>1, <1>2, <1>5, <1>6 DEF ReachedInv

LEMMA ReachedCreate == ReachedInv /\ CreateVariables => ReachedInv'
<1> SUFFICES ASSUME ReachedInv, CreateVariables PROVE ReachedInv'
  OBVIOUS
<1>1. TaskInv'
  BY TaskInvNext DEF ReachedInv, Next
<1>2. /\ stage = "create" /\ task' = task /\ state' = state /\ reached' = reached
      /\ stage' \in {"ground", "unsolvable"}
      /\ stage' = "unsolvable" => Contradiction(task.goal)
  BY DEF CreateVariables
<1> QED BY <1>1, <1>2 DEF ReachedInv, Contradiction

LEMMA ReachedExecute == ASSUME ReachedInv, NEW a, Execute(a) PROVE ReachedInv'
<1>1. TaskInv /\ stage \in {"done", "unsolvable"}
  BY DEF ReachedInv, Execute
<1>2. TaskInv'
  <2>1. \A e \in a.effects : {App(x) : x \in task.actions} \cap e.add = {}
    BY <1>1, Executed DEF WellFormed
  <2> QED BY <1>1, <2>1, Executed DEF TaskInv
<1>3. ExtendedState \subseteq reached
  BY <1>1, ExtendedReached
<1>4. App(a) \in reached
  BY <1>1, <1>3, ReachedRules, Executed DEF ReachedInv, Holds
<1>5. state' \subseteq reached
  <2>1. \A e \in a.effects : Holds(e.cond, ExtendedState) => e.add \subseteq reached
    BY <1>1, <1>3, <1>4, ReachedRules, Executed DEF ReachedInv, Holds
  <2> QED BY <1>1, <2>1, Executed DEF ReachedInv
<1>6. UNCHANGED <<task, stage, reached>>
  BY DEF Execute
<1> QED BY <1>1, <1>2, <1>5, <1>6 DEF ReachedInv, Contradiction

LEMMA ReachedNext == ReachedInv /\ [Next]_vars => ReachedInv'
<1> SUFFICES ASSUME ReachedInv, [Next]_vars PROVE ReachedInv'
  OBVIOUS
<1>1. TaskInv'
  BY TaskInvNext DEF ReachedInv
<1>2. CASE SolveProgram
  BY <1>2, ReachedSolve
<1>3. CASE CreateVariables
  BY <1>3, ReachedCreate
<1>4. ASSUME NEW a, Execute(a) PROVE ReachedInv'
  BY <1>4, ReachedExecute
<1>5. CASE /\ UNCHANGED <<task, state, reached>>
           /\ stage' = stage \/ (stage = "ground" /\ stage' = "done")
  BY <1>1, <1>5 DEF ReachedInv, Contradiction
<1> QED BY <1>2, <1>3, <1>4, <1>5 DEF Next, vars, GroundAction, GroundAxiom, Finish

\* The verdict PROVEN_UNSOLVABLE is right: when a goal atom is not derived by the
\* delete-free program, no state of any plan satisfies the goal, derived atoms and negative
\* literals included (instantiate_ground_task).
THEOREM UnsolvableIsFinal == Spec => []VerdictRight
<1>1. ReachedInv => VerdictRight
  <2> SUFFICES ASSUME ReachedInv, stage = "unsolvable" PROVE ~Holds(task.goal, ExtendedState)
    BY DEF VerdictRight
  <2>1. ExtendedState \subseteq reached
    BY ExtendedReached
  <2> QED BY <2>1 DEF ReachedInv, Contradiction, Holds
<1> QED BY <1>1, ReachedInit, ReachedNext, PTL DEF Spec
=============================================================================
