-------------------------- MODULE ConsistencyGraph --------------------------
(***************************************************************************)
(* The dynamic consistency graphs of one rule. Vertices bind a parameter to *)
(* an object, partition p holding those of parameter p; an edge joins two   *)
(* bindings that no literal of the body excludes. While the facts of one    *)
(* solve grow, so does the full graph; the delta graph is what the last     *)
(* evaluation of the rule added.                                            *)
(*                                                                          *)
(* Both graphs are bit matrices with three shortcuts that must agree: pairs *)
(* of parameters without a common literal have no stored edges, these are   *)
(* implied by the vertex partitions; the cells that are written are         *)
(* remembered as touched, and only those are cleared by a reset; and the    *)
(* delta graph is reused from one evaluation to the next.                   *)
(***************************************************************************)
EXTENDS Naturals, FiniteSets

CONSTANTS
    Vertex,
    StaticGraph     \* the static consistency graphs of the rules, each a record:
                    \*   k         number of parameters
                    \*   part      the parameter of every vertex (0: not in this graph)
                    \*   edges     statically consistent pairs <<u, v>>, part[u] < part[v]
                    \*   binary    pairs <<p, q>>, p < q, with a binary dependency
                    \*   unaryRuntime, binaryRuntime   parameters, and pairs of them, whose
                    \*             bindings are filtered by fluent literals or numbers

Pairs(g) ==
    {e \in Vertex \X Vertex : 0 < g.part[e[1]] /\ g.part[e[1]] < g.part[e[2]]}

ASSUME StaticGraphAssumption ==
    \A g \in StaticGraph :
        /\ g.k \in Nat
        /\ g.part \in [Vertex -> 0 .. g.k]
        /\ g.edges \subseteq Pairs(g)

VARIABLES
    static,         \* the static graph of the rule
    full, delta,    \* m_full_graph, m_delta_graph
    iteration,      \* m_iteration
    consistent      \* vertices and edges the assignment sets allowed last time

graphVars == <<static, full, delta, iteration, consistent>>

VerticesOf(p) == {v \in Vertex : static.part[v] = p}

Dependent(p, q) == <<p, q>> \in static.binary \/ <<q, p>> \in static.binary

\* const get_bitset: the vertices of partition p adjacent to v in graph g.
Adjacent(g, v, p) ==
    IF Dependent(static.part[v], p) THEN g.adj[v] \cap VerticesOf(p)
    ELSE IF v \in g.delta THEN g.affected \cap VerticesOf(p)
    ELSE g.delta \cap VerticesOf(p)

\* for_each_edge
Edges(g) ==
    {e \in Pairs(static) :
        /\ e[1] \in g.affected /\ e[2] \in g.affected
        /\ e[2] \in Adjacent(g, e[1], static.part[e[2]])}

EmptyGraph ==
    [affected |-> {}, delta |-> {}, adj |-> [v \in Vertex |-> {}], touched |-> {}]

\* Mutant: the adjacency matrix is left alone.
ResetPartitions(g) == [affected |-> {}, delta |-> {}, adj |-> g.adj, touched |-> {}]

\* Graph::reset: the vertex partitions, and the touched cells of the matrix.
Reset(g) ==
    [affected |-> {}, delta |-> {},
     adj |-> [v \in Vertex |-> {w \in g.adj[v] : <<v, static.part[w]>> \notin g.touched}],
     touched |-> {}]

-----------------------------------------------------------------------------

GraphInit ==
    /\ static \in StaticGraph
    /\ full = EmptyGraph
    /\ delta = EmptyGraph
    /\ iteration = 0
    /\ consistent = [vertices |-> {}, edges |-> {}]

\* DeltaKPKC::reset, before the first evaluation of a solve.
ResetGraphs ==
    /\ full' = Reset(full)
    /\ delta' = Reset(delta)
    /\ iteration' = 0
    /\ consistent' = [vertices |-> {}, edges |-> {}]
    /\ UNCHANGED static

\* The vertices and edges that pass the filters when the assignment sets admit the
\* bindings V of the filtered parameters and the pairs E of the filtered pairs.
Passing(V, E) ==
    [vertices |-> {v \in Vertex : /\ static.part[v] # 0
                                  /\ static.part[v] \in static.unaryRuntime => v \in V},
     edges |-> {e \in static.edges :
                    /\ <<static.part[e[1]], static.part[e[2]]>> \in static.binary
                    /\ <<static.part[e[1]], static.part[e[2]]>> \in static.binaryRuntime
                          => e \in E}]

\* Explicit edges between vertices of the full graph that it does not have yet.
NewEdges(ok, vertices) ==
    {e \in ok.edges :
        /\ e[1] \in vertices /\ e[2] \in vertices
        /\ e[2] \notin full.adj[e[1]]}

\* Mutant: a new vertex affects the partitions after its own only.
ImplicitlyAffectedForward(vertices, new) ==
    {v \in vertices : \E u \in new :
        static.part[u] < static.part[v] /\ ~Dependent(static.part[u], static.part[v])}

\* A new vertex affects all of every other partition without stored edges to its own.
ImplicitlyAffected(vertices, new) ==
    {v \in vertices : \E u \in new :
        static.part[u] # static.part[v] /\ ~Dependent(static.part[u], static.part[v])}

\* The graph g with other partitions and with the edges E, which process_delta_edge
\* stores, touching their cells, in both directions.
Extended(g, affected, new, E) ==
    [affected |-> affected, delta |-> new,
     adj |-> [v \in Vertex |->
                g.adj[v] \cup {w \in Vertex : <<v, w>> \in E \/ <<w, v>> \in E}],
     touched |-> g.touched \cup {<<e[1], static.part[e[2]]>> : e \in E}
                           \cup {<<e[2], static.part[e[1]]>> : e \in E}]

\* set_next_assignment_sets: initialize_dynamic_consistency_graphs and the counter.
\* Vertices first, then the edges between the vertices of the grown graph.
SetNextAssignmentSets(V, E) ==
    LET ok == Passing(V, E)
        new == ok.vertices \ full.affected
        vertices == full.affected \cup new
        edges == NewEdges(ok, vertices)
        ends == {e[1] : e \in edges} \cup {e[2] : e \in edges}
    IN  /\ full' = Extended(full, vertices, full.delta \cup new, edges)
        /\ delta' = Extended(Reset(delta), new \cup ImplicitlyAffected(vertices, new) \cup ends,
                             new, edges)
        /\ iteration' = iteration + 1
        /\ consistent' = ok
        /\ UNCHANGED static

\* The facts of one solve only grow, and so does what they admit.
Growing(V, E) ==
    /\ consistent.vertices \subseteq Passing(V, E).vertices
    /\ consistent.edges \subseteq Passing(V, E).edges

GraphNext ==
    \/ ResetGraphs
    \/ \E V \in SUBSET Vertex, E \in SUBSET Pairs(static) :
        Growing(V, E) /\ SetNextAssignmentSets(V, E)

GraphSpec == GraphInit /\ [][GraphNext]_graphVars

-----------------------------------------------------------------------------
(* Properties.                                                              *)

Graph ==
    [affected : SUBSET Vertex, delta : SUBSET Vertex, adj : [Vertex -> SUBSET Vertex],
     touched : SUBSET (Vertex \X Nat)]

GraphTypeOK ==
    /\ static \in StaticGraph
    /\ full \in Graph
    /\ delta \in Graph
    /\ iteration \in Nat
    /\ consistent.vertices \in SUBSET Vertex
    /\ consistent.edges \in SUBSET Pairs(static)

\* Two consistent bindings are compatible: they share no literal, or none that
\* excludes the pair.
Compatible(c, u, v) ==
    /\ u \in c.vertices
    /\ v \in c.vertices
    /\ Dependent(static.part[u], static.part[v]) => <<u, v>> \in c.edges \/ <<v, u>> \in c.edges

\* The full graph, read through the implicit and the stored representation, is
\* exactly what the facts allow: nothing survives DeltaKPKC::reset although only
\* touched cells are cleared, and no edge is missed whose vertices and whose pair
\* became consistent in different evaluations.
FullGraphExact ==
    /\ full.affected = consistent.vertices
    /\ \A u \in full.affected, v \in Vertex :
        static.part[v] \notin {0, static.part[u]} =>
            (v \in Adjacent(full, u, static.part[v]) <=> Compatible(consistent, u, v))

\* The edges for_each_edge enumerates in the delta graph after an evaluation are
\* those by which the full graph grew, implied ones included.
DeltaGraphExact ==
    [][iteration' = iteration + 1 => Edges(delta)' = Edges(full)' \ Edges(full)]_graphVars
=============================================================================
