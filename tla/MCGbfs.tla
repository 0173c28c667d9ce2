------------------------------- MODULE MCGbfs -------------------------------
(***************************************************************************)
(* Calls of lazy GBFS on a space with two ways to most states, a cycle and  *)
(* a dead end, under different preferred actions, heuristics that may       *)
(* change between evaluations, pruning, limits and degenerate inputs.       *)
(***************************************************************************)
EXTENDS GbfsLazy

mcState == {"s", "a", "b", "c", "d", "t"}

edge(from, cost, to) == [from |-> from, cost |-> cost, to |-> to]

LazyChain == {edge("s", 1, "a"), edge("s", 2, "b"), edge("s", 1, "d"), edge("a", 1, "c"),
              edge("b", 1, "c"), edge("c", 0, "b"), edge("c", 1, "d")}

LazySpace == LazyChain \cup {edge("c", 1, "t")}

lazyHeuristic(s, a, b, c, d) ==
    [x \in mcState |-> CASE x = "s" -> s [] x = "a" -> a [] x = "b" -> b [] x = "c" -> c
                         [] x = "d" -> d [] OTHER -> {0}]

H == lazyHeuristic({3}, {2}, {2}, {1}, {Infinity})

LazyBase == [edges |-> LazySpace, goals |-> {"t"}, h |-> H, metric |-> 0, staticGoal |-> TRUE,
             pruneStart |-> FALSE, prune |-> {}, maxNumStates |-> 100, maxTime |-> FALSE,
             preferred |-> {}]

\* Heuristics and preferred actions; the unsolvable space exercises them all.
GuidedCalls ==
    {[LazyBase EXCEPT !.h = h, !.preferred = p, !.edges = E] :
        h \in {H, lazyHeuristic({1}, {0, 3}, {2, 3}, {1, 2}, {Infinity, 3})},
        p \in {{}, {edge("s", 1, "a"), edge("s", 1, "d"), edge("c", 1, "d")},
               {edge("s", 2, "b"), edge("b", 1, "c")}, LazySpace},
        E \in {LazyChain, LazySpace}}

mcLazyCalls ==
    GuidedCalls
    \cup {[LazyBase EXCEPT !.maxNumStates = k] : k \in 1 .. 6}
    \cup {[LazyBase EXCEPT !.maxTime = TRUE],
          [LazyBase EXCEPT !.prune = {<<"s", "b", TRUE>>, <<"c", "b", TRUE>>}],
          [LazyBase EXCEPT !.pruneStart = TRUE], [LazyBase EXCEPT !.staticGoal = FALSE],
          [LazyBase EXCEPT !.goals = {"s", "t"}], [LazyBase EXCEPT !.metric = 5],
          [LazyBase EXCEPT !.edges = LazyChain, !.h = [H EXCEPT !["s"] = {Infinity}]]}
=============================================================================
