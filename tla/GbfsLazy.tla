------------------------------ MODULE GbfsLazy ------------------------------
(***************************************************************************)
(* find_solution of gbfs_lazy: greedy best-first search that evaluates a    *)
(* state only when it expands it, with an AlternatingOpenList of a queue    *)
(* for the successors along preferred actions and one for the others. One   *)
(* behaviour is one call; its inputs are chosen in the initial state.       *)
(***************************************************************************)
EXTENDS SearchSpace

CONSTANTS
    Calls,    \* the inputs find_solution may be called with
    Boost,    \* options.boost_preferred_queue
    MaxH      \* bound: the finite heuristic values are at most MaxH

ASSUME CallsAssumption ==
    /\ Boost \in Nat /\ MaxH \in Nat
    /\ \A c \in Calls :
        WellFormed(c) /\ \A s \in State : \A v \in c.h[s] \ {Infinity} : v <= MaxH

VARIABLES
    call,         \* the inputs
    status, g, parent,   \* per state: the fields of its search node
    queue,        \* the preferred (1) and the standard (2) queue
    pos,          \* m_pos: the queue to pop from
    count,        \* m_count: pops since it was selected
    weight,       \* m_weights[0]; that of the standard queue stays 1
    step,         \* insertions so far
    bestH,        \* best_h_value, that of the start state at first
    stateH,       \* state_h_value of the node being expanded
    registered, size, succs, result, plan, goalNode, unsolvable   \* as in AStarEager

nodeVars == <<status, g, parent>>
openVars == <<queue, pos, count, weight>>
outVars == <<plan, goalNode, unsolvable>>
vars == <<call, nodeVars, openVars, step, bestH, stateH, registered, size, succs,
          result, outVars>>

Entry(h, m, k, s) == [h |-> h, g |-> m, step |-> k, state |-> s]

\* The order of the keys <<h, g, step, status>>; no two entries share their step.
Before(x, y) ==
    \/ x.h < y.h
    \/ x.h = y.h /\ x.g < y.g
    \/ x.h = y.h /\ x.g = y.g /\ x.step < y.step

First(Q) == CHOOSE x \in Q : \A y \in Q \ {x} : Before(x, y)

-----------------------------------------------------------------------------

Init ==
    /\ call \in Calls
    /\ status = [s \in State |-> "NEW"]
    /\ g = [s \in State |-> Infinity]
    /\ parent = [s \in State |-> None]
    /\ queue = [q \in 1 .. 2 |-> {}]
    /\ pos = 1
    /\ count = 0
    /\ weight = 1
    /\ step = 0
    /\ bestH \in call.h[Start]
    /\ stateH = Infinity
    /\ registered = <<Start>>
    /\ size = 0
    /\ succs = {}
    /\ result = "NOT_STARTED"
    /\ plan = <<>>
    /\ goalNode = None
    /\ unsolvable = FALSE

\* What the tests before the main loop make of the start node, in their order.
StartOutcome ==
    IF ~call.staticGoal THEN "UNSOLVABLE"
    ELSE IF Start \in call.goals THEN "SOLVED"
    ELSE IF bestH = Infinity THEN "UNSOLVABLE"
    ELSE IF call.pruneStart THEN "EXHAUSTED"
    ELSE "IN_PROGRESS"

Begin ==
    /\ result = "NOT_STARTED"
    /\ status' = [status EXCEPT ![Start] = IF bestH = Infinity THEN "DEAD_END" ELSE "OPEN"]
    /\ g' = [g EXCEPT ![Start] = call.metric]
    /\ size' = GrownTo(size, registered, Start)
    /\ result' = StartOutcome
    /\ unsolvable' = (StartOutcome \in {"UNSOLVABLE", "EXHAUSTED"})
    /\ plan' = IF result' = "SOLVED" THEN <<Node(Start, call.metric)>> ELSE plan
    /\ goalNode' = IF result' = "SOLVED" THEN Node(Start, call.metric) ELSE goalNode
    /\ IF result' = "IN_PROGRESS"
       THEN /\ queue' = [queue EXCEPT ![2] = {Entry(bestH, call.metric, step, Start)}]
            /\ step' = step + 1
       ELSE UNCHANGED <<queue, step>>
    /\ UNCHANGED <<call, parent, pos, count, weight, bestH, stateH, registered, succs>>

-----------------------------------------------------------------------------
(* The main loop.                                                           *)

InLoop == result = "IN_PROGRESS" /\ succs = {}

Empty == \A q \in 1 .. 2 : queue[q] = {}

Weight(q) == IF q = 1 THEN weight ELSE 1

\* Mutant: a queue is left only when it is empty.
ExchangeEmpty == queue[pos] = {}

\* AlternatingOpenList::top: stay with the current queue until it is empty or has
\* had its share, else go on to the next non-empty queue, cyclically.
Exchange == queue[pos] = {} \/ count >= Weight(pos)

Selected == IF ~Exchange THEN pos ELSE IF queue[3 - pos] # {} THEN 3 - pos ELSE pos

\* top, pop and the decay of the preferred queue's weight.
Pop ==
    /\ InLoop
    /\ ~Empty
    /\ pos' = Selected
    /\ count' = (IF Exchange THEN 0 ELSE count) + 1
    /\ queue' = [queue EXCEPT ![Selected] = @ \ {First(@)}]

Popped == First(queue[Selected]).state

Decayed == IF weight > 1 THEN weight - 1 ELSE 1

TimeOut ==
    /\ InLoop
    /\ ~Empty
    /\ call.maxTime
    /\ result' = "OUT_OF_TIME"
    /\ UNCHANGED <<call, nodeVars, openVars, step, bestH, stateH, registered, size, succs,
                   outVars>>

\* The popped node is skipped if it is closed already, or is a dead end.
Drop(h) ==
    /\ Pop
    /\ status[Popped] \in {"CLOSED", "DEAD_END"} \/ h = Infinity
    /\ weight' = Decayed
    /\ status' = IF status[Popped] = "CLOSED" THEN status
                 ELSE [status EXCEPT ![Popped] = "DEAD_END"]
    /\ UNCHANGED <<call, g, parent, step, bestH, stateH, registered, size, succs, result,
                   outVars>>

\* Mutant: the expanded node is not closed.
ExpandOpen(h) ==
    /\ Pop
    /\ status[Popped] \notin {"CLOSED", "DEAD_END"}
    /\ h # Infinity
    /\ stateH' = h
    /\ bestH' = IF Less(h, bestH) THEN h ELSE bestH
    /\ weight' = IF Less(h, bestH) THEN Decayed + Boost ELSE Decayed
    /\ succs' = Transitions(call, Popped)
    /\ registered' \in Registrations(call, Popped, registered)
    /\ UNCHANGED <<call, status, g, parent, step, size, result, outVars>>

\* A new best heuristic value boosts the preferred queue.
Expand(h) ==
    /\ Pop
    /\ status[Popped] \notin {"CLOSED", "DEAD_END"}
    /\ h # Infinity
    /\ stateH' = h
    /\ bestH' = IF Less(h, bestH) THEN h ELSE bestH
    /\ weight' = IF Less(h, bestH) THEN Decayed + Boost ELSE Decayed
    /\ status' = [status EXCEPT ![Popped] = "CLOSED"]
    /\ succs' = Transitions(call, Popped)
    /\ registered' \in Registrations(call, Popped, registered)
    /\ UNCHANGED <<call, g, parent, step, size, result, outVars>>

Exhausted ==
    /\ InLoop
    /\ Empty
    /\ result' = "EXHAUSTED"
    /\ UNCHANGED <<call, nodeVars, openVars, step, bestH, stateH, registered, size, succs,
                   outVars>>

-----------------------------------------------------------------------------
(* The body of the loop over the successors, for the transition e.           *)

IsNew(e) == status[e.to] = "NEW"

OutOfStates(e) == IsNew(e) /\ GrownTo(size, registered, e.to) >= call.maxNumStates

Take(e) ==
    /\ result = "IN_PROGRESS"
    /\ e \in succs
    /\ size' = GrownTo(size, registered, e.to)
    /\ UNCHANGED <<call, pos, count, weight, bestH, stateH, registered, unsolvable>>

GiveUp(e) ==
    /\ Take(e)
    /\ OutOfStates(e)
    /\ result' = "OUT_OF_STATES"
    /\ UNCHANGED <<nodeVars, queue, step, succs, plan, goalNode>>

\* Mutant: a state that is waiting already gets the new parent, not the new g value.
SkipReparent(e) ==
    /\ Take(e)
    /\ ~IsNew(e)
    /\ parent' = [parent EXCEPT ![e.to] = IF status[e.to] = "OPEN" THEN e.from ELSE @]
    /\ succs' = succs \ {e}
    /\ UNCHANGED <<status, g, queue, step, result, plan, goalNode>>

\* Mutant: a closed state is opened and queued again.
SkipReopen(e) ==
    /\ Take(e)
    /\ ~IsNew(e)
    /\ IF status[e.to] = "CLOSED"
       THEN /\ status' = [status EXCEPT ![e.to] = "OPEN"]
            /\ queue' = [queue EXCEPT ![2] =
                            @ \cup {Entry(stateH, g[e.to], 100 + IndexOf(registered, e.to), e.to)}]
       ELSE UNCHANGED <<status, queue>>
    /\ succs' = succs \ {e}
    /\ UNCHANGED <<g, parent, step, result, plan, goalNode>>

\* Previously generated states are skipped, cheaper path or not.
Skip(e) ==
    /\ Take(e)
    /\ ~IsNew(e)
    /\ succs' = succs \ {e}
    /\ UNCHANGED <<nodeVars, queue, step, result, plan, goalNode>>

\* A new state becomes a child of the expanded node.
Reach(e, st) ==
    /\ Take(e)
    /\ IsNew(e)
    /\ ~OutOfStates(e)
    /\ status' = [status EXCEPT ![e.to] = st]
    /\ parent' = [parent EXCEPT ![e.to] = e.from]
    /\ g' = [g EXCEPT ![e.to] = g[e.from] + e.cost]
    /\ succs' = succs \ {e}

\* The early goal test returns with the plan.
ReachGoal(e) ==
    /\ e.to \in call.goals
    /\ Reach(e, "GOAL")
    /\ plan' = ExtractTotalOrderedPlan(call, parent', g', e.to)
    /\ goalNode' = Node(e.to, g[e.from] + e.cost)
    /\ result' = "SOLVED"
    /\ UNCHANGED <<queue, step>>

PruneSuccessor(e) ==
    /\ e.to \notin call.goals
    /\ <<e.from, e.to, TRUE>> \in call.prune
    /\ Reach(e, "CLOSED")
    /\ UNCHANGED <<queue, step, result, plan, goalNode>>

\* Mutant: a successor along a preferred action replaces those that wait.
InsertReplace(e) ==
    /\ e.to \notin call.goals
    /\ <<e.from, e.to, TRUE>> \notin call.prune
    /\ Reach(e, "OPEN")
    /\ queue' = IF e \in call.preferred
                THEN [queue EXCEPT ![1] = {Entry(stateH, g[e.from] + e.cost, step, e.to)}]
                ELSE [queue EXCEPT ![2] = @ \cup {Entry(stateH, g[e.from] + e.cost, step, e.to)}]
    /\ step' = step + 1
    /\ UNCHANGED <<result, plan, goalNode>>

\* The state waits with the heuristic value of its parent.
Insert(e) ==
    /\ e.to \notin call.goals
    /\ <<e.from, e.to, TRUE>> \notin call.prune
    /\ Reach(e, "OPEN")
    /\ queue' = [queue EXCEPT ![IF e \in call.preferred THEN 1 ELSE 2] =
                    @ \cup {Entry(stateH, g[e.from] + e.cost, step, e.to)}]
    /\ step' = step + 1
    /\ UNCHANGED <<result, plan, goalNode>>

Next ==
    \/ Begin
    \/ TimeOut
    \/ InLoop /\ ~Empty /\ \E h \in call.h[Popped] : Drop(h)
    \/ InLoop /\ ~Empty /\ \E h \in call.h[Popped] : Expand(h)
    \/ Exhausted
    \/ \E e \in succs : GiveUp(e)
    \/ \E e \in succs : Skip(e)
    \/ \E e \in succs : ReachGoal(e)
    \/ \E e \in succs : PruneSuccessor(e)
    \/ \E e \in succs : Insert(e)

\* A sequential function: it goes on as long as it can.
Spec == Init /\ [][Next]_vars /\ WF_vars(Next)

-----------------------------------------------------------------------------
(* Properties.                                                              *)

Over == result \notin {"NOT_STARTED", "IN_PROGRESS"}

Unpruned == call.prune = {} /\ ~call.pruneStart

\* Every open node waits in exactly one of the two queues, once, and nothing else
\* does: no node is expanded twice or forgotten by the alternation.
QueuesPartition ==
    result = "IN_PROGRESS" =>
        /\ \A q, r \in 1 .. 2 : \A x \in queue[q], y \in queue[r] :
            x.state = y.state => q = r /\ x = y
        /\ {s \in State : status[s] = "OPEN"} = {x.state : x \in queue[1] \cup queue[2]}

\* The plan of a solved search leads from the start to goal_node, with the metrics
\* of its nodes, whatever the heuristic and the pruning did: parents never change.
PlanReachesGoal ==
    result = "SOLVED" => ReachesGoal(call, plan) /\ Last(plan) = goalNode

\* An unpruned search that ends without a plan and without having hit a limit has
\* seen every reachable state, in whichever order the queues were served.
ExhaustedUnsolvable ==
    result \in {"EXHAUSTED", "UNSOLVABLE"} /\ Unpruned /\ Safe(call) => ~Solvable(call)

\* The two queues are served as an AlternatingOpenList serves them, for which
\* starvation is excluded.
OpenList == INSTANCE AlternatingOpenList WITH
    n <- [q \in 1 .. 2 |-> Cardinality(queue[q])],
    best <- IF bestH = Infinity THEN 0 ELSE bestH,
    MaxSize <- Cardinality(State)

Alternates == OpenList!Init /\ [][OpenList!Next]_(OpenList!vars)

\* The pops in a row from the preferred queue stay bounded by its weight, whatever the
\* search inserts and however often it boosts the queue.
ShareBounded == OpenList!ShareBounded

\* Every call returns.
Returns == <>Over
=============================================================================
