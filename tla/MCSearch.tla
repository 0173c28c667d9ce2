------------------------------ MODULE MCSearch ------------------------------
(***************************************************************************)
(* Calls of A* and the alternating open list of GBFS on its own; part says  *)
(* which of them a behaviour is about. A* runs on a space with paths of     *)
(* different cost to the same chain of states, an action without effect or  *)
(* cost and a dead end, under many heuristics, pruning, limits and          *)
(* degenerate inputs.                                                       *)
(***************************************************************************)
EXTENDS AStarEager

CONSTANT Parts    \* the parts to run

VARIABLES
    part,
    n, pos, count, weight, best    \* AlternatingOpenList only

listVars == <<n, pos, count, weight, best>>

mcState == {"s", "a", "b", "c", "d", "t"}

edge(from, cost, to) == [from |-> from, cost |-> cost, to |-> to]

Chain == {edge("s", 1, "a"), edge("s", 4, "b"), edge("a", 1, "b"), edge("b", 1, "c"),
          edge("c", 0, "b"), edge("c", 0, "c"), edge("a", 1, "d"), edge("s", 7, "c")}

Space == Chain \cup {edge("c", 1, "t"), edge("s", 9, "t")}

heuristic(a, b, c, t) ==
    [s \in mcState |-> CASE s = "a" -> a [] s = "b" -> b [] s = "c" -> c [] s = "t" -> t
                         [] s = "d" -> {Infinity} [] OTHER -> {0}]

Blind == heuristic({0}, {0}, {0}, {0})

Base == [edges |-> Space, goals |-> {"t"}, h |-> Blind, metric |-> 0, staticGoal |-> TRUE,
         pruneStart |-> FALSE, prune |-> {}, maxNumStates |-> 100, maxTime |-> FALSE]

Single(S) == {{v} : v \in S}

\* Functions of the state, admissible or not.
HeuristicCalls ==
    {[Base EXCEPT !.h = heuristic(a, b, c, t)] :
        a \in Single({0, 3, 6}), b \in Single({0, 2, 5, 9}), c \in Single({0, 1, 4}),
        t \in Single({0, 3})}

LimitCalls ==
    {[Base EXCEPT !.maxNumStates = k] : k \in 1 .. 6} \cup {[Base EXCEPT !.maxTime = TRUE]}

PruneCalls ==
    {[Base EXCEPT !.prune = p] : p \in {{<<"s", "b", TRUE>>}, {<<"a", "b", FALSE>>},
                                        {<<"c", "t", TRUE>>, <<"c", "t", FALSE>>}}}
        \cup {[Base EXCEPT !.pruneStart = TRUE]}

CornerCalls ==
    {[Base EXCEPT !.staticGoal = FALSE], [Base EXCEPT !.goals = {"s", "t"}],
     [Base EXCEPT !.edges = Chain],
     [Base EXCEPT !.edges = Chain, !.h = [Blind EXCEPT !["s"] = {Infinity}]],
     [Base EXCEPT !.metric = 5, !.goals = {"c"}]}

mcCalls == HeuristicCalls \cup LimitCalls \cup PruneCalls \cup CornerCalls

\* A heuristic whose value for a state differs between two evaluations, as that of
\* the multi-threaded FF heuristic may when the cheapest witnesses tie.
mcUnstableCalls == {[Base EXCEPT !.h = heuristic({0, 6}, {0, 9}, {0, 4}, {0})]}

\* Goal costs are what the reference definition of admissible heuristics needs them to be.
ASSUME GoalCostsAssumption == \A c \in Calls : Underestimates(c, GoalCosts(c))

-----------------------------------------------------------------------------

OpenList == INSTANCE AlternatingOpenList WITH Boost <- 4, MaxH <- 3, MaxSize <- 3

MCInit ==
    /\ part \in Parts
    /\ Init /\ OpenList!Init
    /\ part = "astar" => best = 0
    /\ part = "open_list" => call = Base

AStarStep == part = "astar" /\ Next /\ UNCHANGED <<part, listVars>>
ListStep == part = "open_list" /\ OpenList!Next /\ UNCHANGED <<part, vars>>

\* The search is a sequential function and goes on as long as it can; a search pops from
\* its open list as long as there is something to pop.
MCSpec ==
    /\ MCInit /\ [][AStarStep \/ ListStep]_<<part, vars, listVars>>
    /\ WF_<<part, vars, listVars>>(AStarStep)
    /\ WF_<<part, vars, listVars>>(ListStep /\ \E h \in 0 .. 3 : OpenList!Pop(h))

\* Every call of A* returns, see AStarEager.
CallsReturn == (part = "astar") ~> Over

\* No queue of the open list starves, see AlternatingOpenList.
NoStarvation == \A q \in 1 .. 2 : (part = "open_list" /\ n[q] > 0) ~> (pos = q)
=============================================================================
