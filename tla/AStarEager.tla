----------------------------- MODULE AStarEager -----------------------------
(***************************************************************************)
(* find_solution of astar_eager: eager A* that reopens nodes on cheaper     *)
(* paths, with a lazily cleaned priority queue, pruning, a bound on the     *)
(* number of states and a time limit. One behaviour is one call; the inputs *)
(* of the call are chosen in the initial state and do not change. Only the  *)
(* exception for a start node without a metric value is left out.           *)
(***************************************************************************)
EXTENDS SearchSpace

CONSTANT Calls    \* the inputs find_solution may be called with

ASSUME CallsAssumption == \A c \in Calls : WellFormed(c)

VARIABLES
    call,         \* the inputs
    status,       \* per state: the status of its search node
    g,            \* per state: g_value
    parent,       \* per state: parent_state
    open,         \* the priority queue; a set, as the g value of a node strictly falls
                  \* and so, if the heuristic does not change its mind, does its f value
    registered,   \* the states of the repository, in the order of their indices
    size,         \* search_nodes.size()
    succs,        \* labelled successors of the expanded node still to be processed
    result,       \* SearchStatus; NOT_STARTED before the call does anything
    plan,         \* the plan, as the nodes it visits
    goalNode,     \* goal_node
    unsolvable    \* on_unsolvable was called

nodeVars == <<status, g, parent>>
vars == <<call, nodeVars, open, registered, size, succs, result, plan, goalNode, unsolvable>>

Entry(f, st, s) == [f |-> f, status |-> st, state |-> s]

Rank(st) == CASE st = "GOAL" -> 0 [] st = "OPEN" -> 3

\* The entries the queue may return next: the least key <<f, status>>; which of the
\* entries with equal keys comes first is up to the heap.
Top == {x \in open : \A y \in open :
            x.f < y.f \/ (x.f = y.f /\ Rank(x.status) <= Rank(y.status))}

-----------------------------------------------------------------------------

Init ==
    /\ call \in Calls
    /\ status = [s \in State |-> "NEW"]
    /\ g = [s \in State |-> Infinity]
    /\ parent = [s \in State |-> None]
    /\ open = {}
    /\ registered = <<Start>>
    /\ size = 0
    /\ succs = {}
    /\ result = "NOT_STARTED"
    /\ plan = <<>>
    /\ goalNode = None
    /\ unsolvable = FALSE

\* What the tests before the main loop make of the start node, in their order.
StartOutcome(h) ==
    IF ~call.staticGoal THEN "UNSOLVABLE"
    ELSE IF Start \in call.goals THEN "SOLVED"
    ELSE IF h = Infinity THEN "UNSOLVABLE"
    ELSE IF call.pruneStart THEN "EXHAUSTED"
    ELSE "IN_PROGRESS"

Begin(h) ==
    /\ result = "NOT_STARTED"
    /\ status' = [status EXCEPT ![Start] = IF h = Infinity THEN "DEAD_END" ELSE "OPEN"]
    /\ g' = [g EXCEPT ![Start] = call.metric]
    /\ size' = GrownTo(size, registered, Start)
    /\ result' = StartOutcome(h)
    /\ unsolvable' = (StartOutcome(h) \in {"UNSOLVABLE", "EXHAUSTED"})
    /\ plan' = IF result' = "SOLVED" THEN <<Node(Start, call.metric)>> ELSE plan
    /\ goalNode' = IF result' = "SOLVED" THEN Node(Start, call.metric) ELSE goalNode
    /\ open' = IF result' = "IN_PROGRESS"
               THEN {Entry(call.metric + h, "OPEN", Start)} ELSE open
    /\ UNCHANGED <<call, parent, registered, succs>>

-----------------------------------------------------------------------------
(* The main loop, one action per way through its body.                      *)

InLoop == result = "IN_PROGRESS" /\ succs = {}

TimeOut ==
    /\ InLoop
    /\ open # {}
    /\ call.maxTime
    /\ result' = "OUT_OF_TIME"
    /\ UNCHANGED <<call, nodeVars, open, registered, size, succs, plan, goalNode, unsolvable>>

\* Mutant: a goal node is skipped like a closed one.
SkipStaleGoal ==
    /\ InLoop
    /\ \E x \in Top :
        /\ status[x.state] \in {"CLOSED", "DEAD_END", "GOAL"}
        /\ open' = open \ {x}
    /\ UNCHANGED <<call, nodeVars, registered, size, succs, result, plan, goalNode, unsolvable>>

\* Entries of nodes that were closed after they were queued are skipped.
SkipStale ==
    /\ InLoop
    /\ \E x \in Top :
        /\ status[x.state] \in {"CLOSED", "DEAD_END"}
        /\ open' = open \ {x}
    /\ UNCHANGED <<call, nodeVars, registered, size, succs, result, plan, goalNode, unsolvable>>

ExpandGoal ==
    /\ InLoop
    /\ \E x \in Top :
        /\ status[x.state] = "GOAL"
        /\ open' = open \ {x}
        /\ plan' = ExtractTotalOrderedPlan(call, parent, g, x.state)
        /\ goalNode' = Node(x.state, g[x.state])
    /\ result' = "SOLVED"
    /\ UNCHANGED <<call, nodeVars, registered, size, succs, unsolvable>>

\* Closes the node and generates all its labelled successors.
Expand ==
    /\ InLoop
    /\ \E x \in Top :
        /\ status[x.state] = "OPEN"
        /\ open' = open \ {x}
        /\ status' = [status EXCEPT ![x.state] = "CLOSED"]
        /\ succs' = Transitions(call, x.state)
        /\ registered' \in Registrations(call, x.state, registered)
    /\ UNCHANGED <<call, g, parent, size, result, plan, goalNode, unsolvable>>

Exhausted ==
    /\ InLoop
    /\ open = {}
    /\ result' = "EXHAUSTED"
    /\ UNCHANGED <<call, nodeVars, open, registered, size, succs, plan, goalNode, unsolvable>>

-----------------------------------------------------------------------------
(* The body of the loop over the successors, for the transition e.           *)

IsNew(e) == status[e.to] = "NEW"

OutOfStates(e) == IsNew(e) /\ GrownTo(size, registered, e.to) >= call.maxNumStates

Prune(e) == <<e.from, e.to, IsNew(e)>> \in call.prune

Metric(e) == g[e.from] + e.cost

\* Mutant: an equally good path counts as an improvement.
ImprovesOrEqual(e) == ~Less(g[e.to], Metric(e))

\* Mutant: a state is never reached twice.
ImprovesNew(e) == IsNew(e)

Improves(e) == Less(Metric(e), g[e.to])

\* e is taken from the successors and its node exists.
Take(e) ==
    /\ result = "IN_PROGRESS"
    /\ e \in succs
    /\ size' = GrownTo(size, registered, e.to)
    /\ UNCHANGED <<call, registered, plan, goalNode, unsolvable>>

GiveUp(e) ==
    /\ Take(e)
    /\ OutOfStates(e)
    /\ result' = "OUT_OF_STATES"
    /\ UNCHANGED <<nodeVars, open, succs>>

PruneSuccessor(e) ==
    /\ Take(e)
    /\ ~OutOfStates(e)
    /\ Prune(e)
    /\ status' = [status EXCEPT ![e.to] = "CLOSED"]
    /\ succs' = succs \ {e}
    /\ UNCHANGED <<g, parent, open, result>>

\* Mutant: a closed node gets the cheaper path but is not reopened.
RelaxNoReopen(e, h) ==
    /\ Take(e)
    /\ ~OutOfStates(e)
    /\ ~Prune(e)
    /\ Improves(e)
    /\ parent' = [parent EXCEPT ![e.to] = e.from]
    /\ g' = [g EXCEPT ![e.to] = Metric(e)]
    /\ LET st == IF h = Infinity THEN "DEAD_END"
                 ELSE IF e.to \in call.goals THEN "GOAL"
                 ELSE IF status[e.to] = "CLOSED" THEN "CLOSED" ELSE "OPEN"
       IN  /\ status' = [status EXCEPT ![e.to] = st]
           /\ open' = IF h = Infinity THEN open
                      ELSE open \cup {Entry(Metric(e) + h, IF st = "GOAL" THEN st ELSE "OPEN", e.to)}
    /\ succs' = succs \ {e}
    /\ UNCHANGED result

\* A cheaper path: the node gets it, whatever its status was, and is (re)opened
\* unless the heuristic now calls it a dead end.
Relax(e, h) ==
    /\ Take(e)
    /\ ~OutOfStates(e)
    /\ ~Prune(e)
    /\ Improves(e)
    /\ parent' = [parent EXCEPT ![e.to] = e.from]
    /\ g' = [g EXCEPT ![e.to] = Metric(e)]
    /\ LET st == IF h = Infinity THEN "DEAD_END"
                 ELSE IF e.to \in call.goals THEN "GOAL" ELSE "OPEN"
       IN  /\ status' = [status EXCEPT ![e.to] = st]
           /\ open' = IF h = Infinity THEN open
                      ELSE open \cup {Entry(Metric(e) + h, st, e.to)}
    /\ succs' = succs \ {e}
    /\ UNCHANGED result

Ignore(e) ==
    /\ Take(e)
    /\ ~OutOfStates(e)
    /\ ~Prune(e)
    /\ ~Improves(e)
    /\ succs' = succs \ {e}
    /\ UNCHANGED <<nodeVars, open, result>>

Next ==
    \/ \E h \in call.h[Start] : Begin(h)
    \/ TimeOut
    \/ SkipStale
    \/ ExpandGoal
    \/ Expand
    \/ Exhausted
    \/ \E e \in succs : GiveUp(e)
    \/ \E e \in succs : PruneSuccessor(e)
    \/ \E e \in succs : \E h \in call.h[e.to] : Relax(e, h)
    \/ \E e \in succs : Ignore(e)

\* A sequential function: it goes on as long as it can.
Spec == Init /\ [][Next]_vars /\ WF_vars(Next)

-----------------------------------------------------------------------------
(* Properties.                                                              *)

Over == result \notin {"NOT_STARTED", "IN_PROGRESS"}

\* The heuristic is a function of the state, and no pruning interferes.
Deterministic == \A s \in State : \A v, w \in call.h[s] : v = w

Unpruned == call.prune = {} /\ ~call.pruneStart

\* The plan handed to on_solved leads from the start to a goal and its cost is the
\* metric of goal_node, for every heuristic that is a function of the state, an
\* inadmissible one too: a node that was reopened is expanded again before any node
\* its old expansion led to, so no stale g value is left on the goal's parent chain
\* when extract_labeled_node_trajectory relabels it.
PlanReachesGoal ==
    result = "SOLVED" /\ Deterministic /\ Unpruned =>
        ReachesGoal(call, plan) /\ Last(plan) = goalNode

\* With an admissible heuristic no goal can be reached at a lower cost than the
\* metric of goal_node, though nodes are reopened and stale entries remain queued.
OptimalPlan ==
    result = "SOLVED" /\ Admissible(call) /\ Unpruned =>
        ~Less(Plus(call.metric, GoalCosts(call)[Start]), goalNode.metric)

\* An unpruned search that ends without a plan and without having hit a limit has
\* seen every reachable state, though nodes are skipped, reopened and declared dead.
ExhaustedUnsolvable ==
    result \in {"EXHAUSTED", "UNSOLVABLE"} /\ Unpruned /\ Safe(call) => ~Solvable(call)

\* on_unsolvable, "React on proving unsolvability during a search": it is called
\* only if the task is unsolvable.
UnsolvabilityProven == unsolvable /\ Safe(call) => ~Solvable(call)

\* on_solved, "React on solving a search": the plan it is called with leads to a goal.
SolvedByPlan == result = "SOLVED" => ReachesGoal(call, plan)

\* Every call returns.
Returns == <>Over
=============================================================================
