--------------------------- MODULE Stratification ---------------------------
(***************************************************************************)
(* compute_rule_stratification and the graph algorithms it shares with the  *)
(* stratification of ground axioms: dependency graph, strongly connected    *)
(* components and the check for negative cycles, condensation, strata in    *)
(* topological order, rules in the buckets of their heads' strata.          *)
(*                                                                          *)
(* A program is a set of rules [head, pos, neg]: the fluent predicate of    *)
(* the head and those of the positive and the negative body literals. (For  *)
(* ground axioms: derived atoms instead of predicates.)                     *)
(***************************************************************************)
EXTENDS Naturals, FiniteSets

CONSTANTS
    Predicate,
    Programs        \* the programs to stratify

Rules == [head : Predicate, pos : SUBSET Predicate, neg : SUBSET Predicate]

ASSUME ProgramAssumption == \A P \in Programs : P \subseteq Rules

VARIABLES
    program,
    comp,           \* the component of every predicate
    stratum,        \* the stratum of every component
    visited,        \* the components the loop over topo has been at
    ruleStratum,    \* the bucket of every rule
    pc

strataVars == <<program, comp, stratum, visited, ruleStratum, pc>>

\* build_dependency_graph: an edge from each body predicate to the head.
Depends(u, v) == \E r \in program : r.head = v /\ (u \in r.pos \/ u \in r.neg)

DependsStrictly(u, v) == \E r \in program : r.head = v /\ u \in r.neg

Reaches(u, v) ==
    \A R \in SUBSET Predicate :
        u \in R /\ (\A x \in R, y \in Predicate : Depends(x, y) => y \in R) => v \in R

\* boost::strong_components, a component being the set of its predicates.
StrongComponents == [v \in Predicate |-> {u \in Predicate : Reaches(u, v) /\ Reaches(v, u)}]

Components == {comp[v] : v \in Predicate}

\* build_condensation_dag: edges between different components, ...
DagEdge(c, d) == c # d /\ \E u, v \in Predicate : comp[u] = c /\ comp[v] = d /\ Depends(u, v)

\* Mutant: an edge is strict if all dependencies behind it are.
IncAll(c, d) ==
    IF \A u, v \in Predicate : comp[u] = c /\ comp[v] = d /\ Depends(u, v) => DependsStrictly(u, v)
    THEN 1 ELSE 0

\* Mutant: every edge is strict.
IncAlways(c, d) == 1

\* ... strict if one of the dependencies behind it is.
Inc(c, d) ==
    IF \E u, v \in Predicate : comp[u] = c /\ comp[v] = d /\ DependsStrictly(u, v)
    THEN 1 ELSE 0

-----------------------------------------------------------------------------

StrataInit ==
    /\ program \in Programs
    /\ comp = [v \in Predicate |-> {}]
    /\ stratum = [c \in {} |-> 0]
    /\ visited = {}
    /\ ruleStratum = [r \in {} |-> 0]
    /\ pc = "components"

\* Mutant: every cycle is rejected.
ComputeSccAcyclic ==
    /\ pc = "components"
    /\ comp' = StrongComponents
    /\ pc' = IF \E u, v \in Predicate : Depends(u, v) /\ comp'[u] = comp'[v]
             THEN "throw" ELSE "strata"
    /\ stratum' = [c \in Components' |-> 0]
    /\ UNCHANGED <<program, visited, ruleStratum>>

\* compute_scc_and_check; the strata start at 0.
ComputeScc ==
    /\ pc = "components"
    /\ comp' = StrongComponents
    /\ pc' = IF \E u, v \in Predicate : DependsStrictly(u, v) /\ comp'[u] = comp'[v]
             THEN "throw" ELSE "strata"
    /\ stratum' = [c \in Components' |-> 0]
    /\ UNCHANGED <<program, visited, ruleStratum>>

\* The stratum of d after the edge from c was followed.
Raised(s, c, d) ==
    IF DagEdge(c, d) /\ s[d] < s[c] + Inc(c, d) THEN s[c] + Inc(c, d) ELSE s[d]

\* boost::topological_sort, reversed: predecessors come first.
InOrder(c) == \A b \in Components : DagEdge(b, c) => b \in visited

\* compute_component_strata at component c.
Visit(c) ==
    /\ pc = "strata"
    /\ c \notin visited
    /\ InOrder(c)
    /\ stratum' = [d \in Components |-> Raised(stratum, c, d)]
    /\ visited' = visited \cup {c}
    /\ UNCHANGED <<program, comp, ruleStratum, pc>>

\* Rules go to the bucket of their head.
Bucket ==
    /\ pc = "strata"
    /\ visited = Components
    /\ ruleStratum' = [r \in program |-> stratum[comp[r.head]]]
    /\ pc' = "done"
    /\ UNCHANGED <<program, comp, stratum, visited>>

StrataNext ==
    \/ ComputeScc
    \/ \E c \in Components : Visit(c)
    \/ Bucket

\* A sequential function.
StrataSpec == StrataInit /\ [][StrataNext]_strataVars /\ WF_strataVars(StrataNext)

-----------------------------------------------------------------------------
(* Properties.                                                              *)

TypeOK ==
    /\ program \subseteq Rules
    /\ comp \in [Predicate -> SUBSET Predicate]
    /\ pc \in {"components", "throw", "strata", "done"}
    /\ visited \subseteq Components
    /\ pc \in {"strata", "done"} => stratum \in [Components -> Nat]
    /\ pc = "done" => ruleStratum \in [program -> Nat]

\* f is a stratification of the predicates.
Stratifies(f) ==
    \A u, v \in Predicate :
        /\ Depends(u, v) => f[u] <= f[v]
        /\ DependsStrictly(u, v) => f[u] < f[v]

\* What the engine relies on (StratificationAssumption of DatalogProgram): a rule
\* reads positively only what its own and lower strata derive, and negatively only
\* what lower strata derive, in whichever order the components were visited.
RulesStratified ==
    pc = "done" => \A r, q \in program :
        /\ q.head \in r.pos => ruleStratum[q] <= ruleStratum[r]
        /\ q.head \in r.neg => ruleStratum[q] < ruleStratum[r]

\* "Compute minimal strata": no stratification puts a predicate lower, and the
\* exception is thrown only for programs that have none.
StrataMinimal ==
    pc \in {"done", "throw"} =>
        \A f \in [Predicate -> 0 .. Cardinality(Predicate)] :
            Stratifies(f) => pc = "done" /\ \A v \in Predicate : stratum[comp[v]] <= f[v]
=============================================================================
