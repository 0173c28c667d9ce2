-------------------------- MODULE AStarEagerProofs --------------------------
(***************************************************************************)
(* What eager A* guarantees for every state space, heuristic and metric:    *)
(* it does not give up on a solvable task, and with an admissible heuristic *)
(* the metric of the goal node it returns is optimal.                       *)
(***************************************************************************)
EXTENDS AStarEager

Entries == [f : Nat, status : {"OPEN", "GOAL"}, state : State]

\* The types of what the argument is about; parent, registered, size and plan do not
\* matter to it.
TypeOK ==
    /\ call \in Calls
    /\ status \in [State -> {"NEW", "OPEN", "CLOSED", "GOAL", "DEAD_END"}]
    /\ g \in [State -> Cost]
    /\ open \subseteq Entries
    /\ succs \subseteq call.edges
    /\ result \in {"NOT_STARTED", "IN_PROGRESS", "SOLVED", "UNSOLVABLE", "EXHAUSTED",
                   "OUT_OF_TIME", "OUT_OF_STATES"}

-----------------------------------------------------------------------------
(* The inductive invariant.                                                 *)

\* What waits or has been expanded has a metric (a pruned new node has none), what was
\* never seen has not, and nothing has happened before the call begins.
NodesInv ==
    /\ \A s \in State : status[s] \in {"OPEN", "GOAL"} => g[s] \in Nat
    /\ \A s \in State : status[s] = "NEW" => g[s] = Infinity
    /\ \A e \in succs : g[e.from] \in Nat
    /\ result = "NOT_STARTED" =>
        open = {} /\ succs = {} /\ \A s \in State : status[s] = "NEW"

\* g values only fall, so an entry promises no less than the path its node has by now,
\* and what is worth promising, its node having been given h, is still in the queue.
EntriesInv ==
    /\ \A x \in open : g[x.state] \in Nat /\ g[x.state] <= x.f
    /\ result = "IN_PROGRESS" =>
        \A s \in State : status[s] \in {"OPEN", "GOAL"} =>
            \E x \in open : \E h \in call.h[s] : x.state = s /\ h # Infinity /\ x.f = g[s] + h

\* What an unpruned search has made of the nodes: the start is no worse than given, no
\* goal is expanded, dead ends were declared by the heuristic, and the transitions of an
\* expanded node that are not still to be processed improve on no node.
Explored ==
    /\ status[Start] # "NEW" /\ g[Start] \in Nat /\ g[Start] <= call.metric
    /\ \A s \in State : status[s] \in {"OPEN", "CLOSED"} => s \notin call.goals
    /\ \A s \in State : status[s] = "GOAL" => s \in call.goals
    /\ \A s \in State : status[s] = "DEAD_END" => Infinity \in call.h[s]
    /\ \A s \in State : status[s] = "CLOSED" => g[s] \in Nat
    /\ \A e \in call.edges :
        status[e.from] = "CLOSED" =>
            e \in succs \/ (g[e.to] \in Nat /\ g[e.to] <= g[e.from] + e.cost)

ExploredInv ==
    /\ result = "IN_PROGRESS" /\ Unpruned => Explored
    /\ result = "EXHAUSTED" /\ Unpruned =>
        Explored /\ succs = {} /\ \A s \in State : status[s] \notin {"OPEN", "GOAL"}
    /\ result = "UNSOLVABLE" => ~call.staticGoal \/ Infinity \in call.h[Start]

IInv == TypeOK /\ NodesInv /\ EntriesInv /\ ExploredInv

-----------------------------------------------------------------------------
(* Steps.                                                                   *)

LEMMA CallType ==
    ASSUME TypeOK
    PROVE  /\ call.edges \subseteq [from : State, cost : Nat, to : State]
           /\ call.h \in [State -> SUBSET Cost]
           /\ call.metric \in Nat
           /\ \A e \in call.edges : e.from \in State /\ e.to \in State /\ e.cost \in Nat
  BY CallsAssumption DEF TypeOK, WellFormed

LEMMA InitIInv == Init => IInv
<1> SUFFICES ASSUME Init PROVE IInv
  OBVIOUS
<1>1. WellFormed(call) /\ call \in Calls
  BY CallsAssumption DEF Init
<1> QED
  BY <1>1 DEF Init, IInv, TypeOK, NodesInv, EntriesInv, ExploredInv, Cost

LEMMA BeginIInv == ASSUME IInv, NEW h \in call.h[Start], Begin(h) PROVE IInv'
<1>0. /\ TypeOK /\ NodesInv /\ result = "NOT_STARTED"
      /\ call.metric \in Nat /\ Start \in State /\ h \in Cost
      /\ \A s \in State : status[s] = "NEW" /\ g[s] = Infinity
      /\ open = {} /\ succs = {}
  BY CallType, SpaceAssumption DEF IInv, Begin, NodesInv, TypeOK
<1>1. result' = StartOutcome(h) /\ StartOutcome(h) \in {"UNSOLVABLE", "SOLVED", "EXHAUSTED", "IN_PROGRESS"}
  BY DEF Begin, StartOutcome
<1>2. /\ \A s \in State : status'[s] = IF s = Start THEN IF h = Infinity THEN "DEAD_END" ELSE "OPEN"
                                       ELSE "NEW"
      /\ status' \in [State -> {"NEW", "OPEN", "CLOSED", "GOAL", "DEAD_END"}]
      /\ \A s \in State : g'[s] = IF s = Start THEN call.metric ELSE Infinity
      /\ g' \in [State -> Cost]
      /\ call' = call /\ succs' = {}
  BY <1>0 DEF Begin, TypeOK, Cost
<1>3. ASSUME StartOutcome(h) = "IN_PROGRESS"
      PROVE  /\ h \in Nat /\ h # Infinity /\ Start \notin call.goals
             /\ open' = {Entry(call.metric + h, "OPEN", Start)}
             /\ Entry(call.metric + h, "OPEN", Start) \in Entries
  BY <1>0, <1>1, <1>3, SpaceAssumption DEF Begin, StartOutcome, Cost, Entry, Entries
<1>4. StartOutcome(h) # "IN_PROGRESS" => open' = {}
  BY <1>0, <1>1 DEF Begin
<1>5. TypeOK'
  BY <1>0, <1>1, <1>2, <1>3, <1>4 DEF TypeOK
<1>6. NodesInv'
  BY <1>0, <1>1, <1>2 DEF NodesInv
<1>7. EntriesInv'
  <2>1. CASE StartOutcome(h) = "IN_PROGRESS"
    <3>1. PICK x : x = Entry(call.metric + h, "OPEN", Start)
      OBVIOUS
    <3>2. x.state = Start /\ x.f = call.metric + h /\ open' = {x} /\ h \in Nat /\ h # Infinity
      BY <1>3, <2>1, <3>1 DEF Entry
    <3>3. g'[Start] = call.metric /\ call'.h = call.h
      BY <1>0, <1>2
    <3>4. \A y \in open' : g'[y.state] \in Nat /\ g'[y.state] <= y.f
      BY <1>0, <3>2, <3>3
    <3>5. \A s \in State : status'[s] \in {"OPEN", "GOAL"} => s = Start
      BY <1>2
    <3> QED BY <1>0, <3>2, <3>3, <3>4, <3>5 DEF EntriesInv
  <2>2. CASE StartOutcome(h) # "IN_PROGRESS"
    BY <1>1, <1>4, <2>2 DEF EntriesInv
  <2> QED BY <2>1, <2>2
<1>8. ExploredInv'
  <2>1. CASE StartOutcome(h) = "IN_PROGRESS"
    <3>1. result' = "IN_PROGRESS" /\ h # Infinity /\ Start \notin call.goals
      BY <1>1, <1>3, <2>1
    <3>2. \A e \in call.edges : e.from \in State
      BY <1>0, CallType
    <3> QED BY <1>0, <1>2, <3>1, <3>2 DEF ExploredInv, Explored
  <2>2. CASE StartOutcome(h) # "IN_PROGRESS"
    <3>1. result' \in {"UNSOLVABLE", "SOLVED", "EXHAUSTED"}
      BY <1>1, <2>2
    <3>2. result' = "EXHAUSTED" => ~Unpruned'
      BY <1>1, <1>2 DEF StartOutcome, Unpruned
    <3>3. result' = "UNSOLVABLE" => ~call.staticGoal \/ Infinity \in call.h[Start]
      BY <1>1 DEF StartOutcome
    <3> QED BY <1>2, <3>1, <3>2, <3>3 DEF ExploredInv
  <2> QED BY <2>1, <2>2
<1> QED BY <1>5, <1>6, <1>7, <1>8 DEF IInv

\* The steps that end the call, or change nothing the invariant is about.
LEMMA StopIInv ==
    ASSUME IInv, TimeOut \/ ExpandGoal \/ Exhausted \/ \E e \in succs : GiveUp(e)
    PROVE  IInv'
<1>1. CASE Exhausted
  <2>1. /\ result' = "EXHAUSTED" /\ result = "IN_PROGRESS" /\ succs = {} /\ open = {}
        /\ UNCHANGED <<call, nodeVars, open, succs>>
    BY <1>1 DEF Exhausted, InLoop
  <2>2. \A s \in State : status[s] \notin {"OPEN", "GOAL"}
    BY <2>1 DEF IInv, EntriesInv
  <2>3. Unpruned' = Unpruned /\ Explored' = Explored
    BY <2>1 DEF Unpruned, Explored, nodeVars
  <2>4. ExploredInv'
    BY <2>1, <2>2, <2>3 DEF IInv, ExploredInv, nodeVars
  <2>5. (TypeOK /\ NodesInv /\ EntriesInv)'
    BY <2>1 DEF IInv, TypeOK, NodesInv, EntriesInv, nodeVars
  <2> QED BY <2>4, <2>5 DEF IInv
<1>2. CASE ~Exhausted
  <2>1. /\ result' \in {"OUT_OF_TIME", "SOLVED", "OUT_OF_STATES"}
        /\ UNCHANGED <<call, nodeVars, succs>> /\ open' \subseteq open
    BY <1>2 DEF TimeOut, ExpandGoal, GiveUp, Take
  <2> QED BY <2>1 DEF IInv, TypeOK, NodesInv, EntriesInv, ExploredInv, nodeVars
<1> QED BY <1>1, <1>2

LEMMA SkipStaleIInv == ASSUME IInv, SkipStale PROVE IInv'
<1>1. PICK x \in open : status[x.state] \in {"CLOSED", "DEAD_END"} /\ open' = open \ {x}
  BY DEF SkipStale, Top
<1>2. UNCHANGED <<call, nodeVars, succs, result>>
  BY DEF SkipStale
<1>3. (TypeOK /\ NodesInv /\ ExploredInv)'
  BY <1>1, <1>2 DEF IInv, TypeOK, NodesInv, ExploredInv, Explored, Unpruned, nodeVars
<1>4. EntriesInv'
  BY <1>1, <1>2 DEF IInv, EntriesInv, nodeVars
<1> QED BY <1>3, <1>4 DEF IInv

LEMMA ExpandIInv == ASSUME IInv, Expand PROVE IInv'
<1>1. PICK x \in open : /\ status[x.state] = "OPEN" /\ open' = open \ {x}
                        /\ status' = [status EXCEPT ![x.state] = "CLOSED"]
                        /\ succs' = Transitions(call, x.state)
  BY DEF Expand, Top
<1>2. UNCHANGED <<call, g, result>> /\ result = "IN_PROGRESS" /\ succs = {}
  BY DEF Expand, InLoop
<1>3. PICK p \in State : p = x.state /\ status[p] = "OPEN" /\ g[p] \in Nat
  BY <1>1 DEF IInv, TypeOK, Entries, NodesInv
<1>4. \A s \in State : status'[s] = IF s = p THEN "CLOSED" ELSE status[s]
  BY <1>1, <1>3 DEF IInv, TypeOK
<1>5. \A e : e \in succs' <=> e \in call.edges /\ e.from = p
  BY <1>1, <1>3 DEF Transitions
<1>6. TypeOK'
  BY <1>1, <1>2, <1>5 DEF IInv, TypeOK
<1>7. NodesInv'
  BY <1>2, <1>3, <1>4, <1>5 DEF IInv, NodesInv
<1>8. EntriesInv'
  BY <1>1, <1>2, <1>3, <1>4 DEF IInv, EntriesInv
<1>9. ExploredInv'
  <2> SUFFICES ASSUME Unpruned PROVE Explored'
    BY <1>2 DEF ExploredInv, Unpruned
  <2>1. Explored
    BY <1>2 DEF IInv, ExploredInv
  <2>2. \A e \in call.edges : e.from \in State /\ e.to \in State
    BY CallType DEF IInv
  <2>3. \A e \in call.edges : status'[e.from] = "CLOSED" =>
            e \in succs' \/ (g[e.to] \in Nat /\ g[e.to] <= g[e.from] + e.cost)
    BY <1>2, <1>4, <1>5, <2>1, <2>2 DEF Explored
  <2>4. /\ status'[Start] # "NEW"
        /\ \A s \in State : status'[s] \in {"OPEN", "CLOSED"} => s \notin call.goals
        /\ \A s \in State : status'[s] = "GOAL" => s \in call.goals
        /\ \A s \in State : status'[s] = "DEAD_END" => Infinity \in call.h[s]
        /\ \A s \in State : status'[s] = "CLOSED" => g[s] \in Nat
    BY <1>3, <1>4, <2>1, SpaceAssumption DEF Explored
  <2> QED BY <1>2, <2>1, <2>3, <2>4 DEF Explored
<1> QED BY <1>6, <1>7, <1>8, <1>9 DEF IInv

-----------------------------------------------------------------------------
(* The successors.                                                          *)

LEMMA Successor ==
    ASSUME IInv, NEW e \in succs
    PROVE  /\ e \in call.edges /\ e.from \in State /\ e.to \in State /\ e.cost \in Nat
           /\ g[e.from] \in Nat /\ Metric(e) = g[e.from] + e.cost /\ Metric(e) \in Nat
<1>1. e \in call.edges /\ e.from \in State /\ e.to \in State /\ e.cost \in Nat
  BY CallType DEF IInv, TypeOK
<1>2. g[e.from] \in Nat
  BY DEF IInv, NodesInv
<1> QED BY <1>1, <1>2 DEF Metric

LEMMA IgnoreIInv == ASSUME IInv, NEW e \in succs, Ignore(e) PROVE IInv'
<1>1. /\ UNCHANGED <<call, nodeVars, open, result>> /\ succs' = succs \ {e}
      /\ result = "IN_PROGRESS" /\ ~Less(Metric(e), g[e.to])
  BY DEF Ignore, Take, Improves
<1>2. g[e.to] \in Cost
  BY Successor DEF IInv, TypeOK
<1>3. g[e.to] \in Nat /\ g[e.to] <= g[e.from] + e.cost
  BY <1>1, <1>2, Successor, SpaceAssumption DEF Less, Cost
<1>4. (TypeOK /\ NodesInv /\ EntriesInv)'
  BY <1>1 DEF IInv, TypeOK, NodesInv, EntriesInv, nodeVars
<1>5. ExploredInv'
  <2> SUFFICES ASSUME Unpruned PROVE Explored'
    BY <1>1 DEF ExploredInv, Unpruned
  <2> QED BY <1>1, <1>3 DEF IInv, ExploredInv, Explored, nodeVars
<1> QED BY <1>4, <1>5 DEF IInv

LEMMA PruneSuccessorIInv == ASSUME IInv, NEW e \in succs, PruneSuccessor(e) PROVE IInv'
<1>1. /\ UNCHANGED <<call, g, open, result>> /\ succs' = succs \ {e}
      /\ result = "IN_PROGRESS" /\ ~Unpruned
      /\ status' = [status EXCEPT ![e.to] = "CLOSED"]
  BY DEF PruneSuccessor, Take, Prune, Unpruned
<1>2. /\ status' \in [State -> {"NEW", "OPEN", "CLOSED", "GOAL", "DEAD_END"}]
      /\ \A s \in State : status'[s] = IF s = e.to THEN "CLOSED" ELSE status[s]
  BY <1>1, Successor DEF IInv, TypeOK
<1>3. TypeOK'
  BY <1>1, <1>2 DEF IInv, TypeOK
<1>4. NodesInv'
  BY <1>1, <1>2 DEF IInv, NodesInv
<1>5. EntriesInv'
  BY <1>1, <1>2 DEF IInv, EntriesInv
<1>6. ExploredInv'
  BY <1>1 DEF IInv, ExploredInv, Unpruned
<1> QED BY <1>3, <1>4, <1>5, <1>6 DEF IInv

LEMMA RelaxIInv ==
    ASSUME IInv, NEW e \in succs, NEW h \in call.h[e.to], Relax(e, h)
    PROVE  IInv'
<1> DEFINE st == IF h = Infinity THEN "DEAD_END" ELSE IF e.to \in call.goals THEN "GOAL" ELSE "OPEN"
<1>0. PICK m \in Nat, t \in State, f \in State :
        m = Metric(e) /\ t = e.to /\ f = e.from /\ m = g[f] + e.cost /\ g[f] \in Nat /\ e.cost \in Nat
  BY Successor
<1>1. /\ UNCHANGED <<call, result>> /\ succs' = succs \ {e}
      /\ result = "IN_PROGRESS" /\ Less(m, g[t])
      /\ g' = [g EXCEPT ![t] = m] /\ status' = [status EXCEPT ![t] = st]
      /\ open' = IF h = Infinity THEN open ELSE open \cup {Entry(m + h, st, t)}
  BY <1>0 DEF Relax, Take, Improves
<1>2. h \in Cost /\ g[t] \in Cost
  BY <1>0, CallType DEF IInv, TypeOK
<1>3. /\ g[t] \in Nat => m < g[t]
      /\ f # t
  BY <1>0, <1>1, <1>2, SpaceAssumption DEF Less, Cost
<1>4. /\ status' \in [State -> {"NEW", "OPEN", "CLOSED", "GOAL", "DEAD_END"}]
      /\ \A s \in State : status'[s] = IF s = t THEN st ELSE status[s]
      /\ g' \in [State -> Cost]
      /\ \A s \in State : g'[s] = IF s = t THEN m ELSE g[s]
  BY <1>0, <1>1 DEF IInv, TypeOK, Cost
<1>5. ASSUME h # Infinity
      PROVE  \E x \in Entries : open' = open \cup {x} /\ x.state = t /\ x.f = m + h /\ h \in Nat
  <2>1. h \in Nat /\ st \in {"OPEN", "GOAL"}
    BY <1>2, <1>5 DEF Cost
  <2>2. Entry(m + h, st, t) \in Entries
    BY <1>0, <2>1 DEF Entry, Entries
  <2> HIDE DEF st
  <2> QED BY <1>1, <1>5, <2>1, <2>2 DEF Entry
<1>6. /\ open \subseteq open'
      /\ \A x \in open' : x \in open \/ (h # Infinity /\ h \in Nat /\ x \in Entries /\ x.state = t /\ x.f = m + h)
  BY <1>1, <1>5
<1>7. TypeOK'
  BY <1>1, <1>4, <1>6 DEF IInv, TypeOK
<1>8. \A d \in succs : d.from \in State
  BY CallType DEF IInv, TypeOK
<1>9. NodesInv'
  BY <1>0, <1>1, <1>4, <1>8 DEF IInv, NodesInv
<1>10. EntriesInv'
  <2>1. \A x \in open : x.state \in State /\ x.f \in Nat
    BY DEF IInv, TypeOK, Entries
  <2>2. \A x \in open' : g'[x.state] \in Nat /\ g'[x.state] <= x.f
    <3> SUFFICES ASSUME NEW x \in open' PROVE g'[x.state] \in Nat /\ g'[x.state] <= x.f
      OBVIOUS
    <3>1. CASE x \in open
      <4>1. g[x.state] \in Nat /\ g[x.state] <= x.f /\ x.state \in State /\ x.f \in Nat
        BY <2>1, <3>1 DEF IInv, EntriesInv
      <4> QED BY <1>0, <1>3, <1>4, <4>1
    <3>2. CASE h \in Nat /\ x.state = t /\ x.f = m + h
      BY <1>0, <1>4, <3>2
    <3> QED BY <1>6, <3>1, <3>2
  <2>3. \A s \in State : status'[s] \in {"OPEN", "GOAL"} =>
            \E x \in open' : \E k \in call.h[s] : x.state = s /\ k # Infinity /\ x.f = g'[s] + k
    <3> SUFFICES ASSUME NEW s \in State, status'[s] \in {"OPEN", "GOAL"}
                 PROVE  \E x \in open' : \E k \in call.h[s] : x.state = s /\ k # Infinity /\ x.f = g'[s] + k
      OBVIOUS
    <3>1. CASE s = t
      <4>1. h # Infinity
        BY <1>4, <3>1
      <4> QED BY <1>0, <1>4, <1>5, <3>1, <4>1
    <3>2. CASE s # t
      <4>1. status[s] \in {"OPEN", "GOAL"} /\ g'[s] = g[s]
        BY <1>4, <3>2
      <4>2. \E x \in open : \E k \in call.h[s] : x.state = s /\ k # Infinity /\ x.f = g[s] + k
        BY <1>1, <4>1 DEF IInv, EntriesInv
      <4> QED BY <1>6, <4>1, <4>2
    <3> QED BY <3>1, <3>2
  <2> QED BY <1>1, <2>2, <2>3 DEF EntriesInv
<1>11. ExploredInv'
  <2> SUFFICES ASSUME Unpruned PROVE Explored'
    BY <1>1 DEF ExploredInv, Unpruned
  <2>1. Explored
    BY <1>1 DEF IInv, ExploredInv
  <2>2. \A d \in call.edges : d.from \in State /\ d.to \in State /\ d.cost \in Nat
    BY CallType DEF IInv
  <2>3. /\ st \in {"OPEN", "GOAL", "DEAD_END"}
        /\ st = "OPEN" => t \notin call.goals
        /\ st = "GOAL" => t \in call.goals
        /\ st = "DEAD_END" => Infinity \in call.h[t]
    BY <1>0
  <2> HIDE DEF st
  <2>4. \A d \in call.edges : status'[d.from] = "CLOSED" =>
            d \in succs' \/ (g'[d.to] \in Nat /\ g'[d.to] <= g'[d.from] + d.cost)
    <3> SUFFICES ASSUME NEW d \in call.edges, status'[d.from] = "CLOSED", d \notin succs'
                 PROVE  g'[d.to] \in Nat /\ g'[d.to] <= g'[d.from] + d.cost
      OBVIOUS
    <3>1. /\ d.from # t /\ status[d.from] = "CLOSED" /\ g'[d.from] = g[d.from] /\ g[d.from] \in Nat
          /\ d.from \in State /\ d.to \in State /\ d.cost \in Nat
      BY <1>4, <2>1, <2>2, <2>3 DEF Explored
    <3>2. CASE d = e
      BY <1>0, <1>4, <3>1, <3>2
    <3>3. CASE d # e
      <4>1. g[d.to] \in Nat /\ g[d.to] <= g[d.from] + d.cost
        BY <1>1, <2>1, <3>1, <3>3 DEF Explored
      <4> QED BY <1>0, <1>3, <1>4, <3>1, <4>1
    <3> QED BY <3>2, <3>3
  <2>5. \A s \in State : status'[s] \in {"OPEN", "CLOSED"} => s \notin call.goals
    BY <1>4, <2>1, <2>3 DEF Explored
  <2>6. \A s \in State : status'[s] = "GOAL" => s \in call.goals
    BY <1>4, <2>1, <2>3 DEF Explored
  <2>7. \A s \in State : status'[s] = "DEAD_END" => Infinity \in call.h[s]
    BY <1>4, <2>1, <2>3 DEF Explored
  <2>8. \A s \in State : status'[s] = "CLOSED" => g'[s] \in Nat
    BY <1>0, <1>4, <2>1 DEF Explored
  <2>9. status'[Start] # "NEW"
    BY <1>4, <2>1, <2>3, SpaceAssumption DEF Explored
  <2>10. g'[Start] \in Nat /\ g'[Start] <= call.metric
    <3>1. g[Start] \in Nat /\ g[Start] <= call.metric /\ call.metric \in Nat
      BY <2>1, CallType DEF Explored, IInv
    <3> QED BY <1>0, <1>3, <1>4, <3>1, SpaceAssumption
  <2> QED BY <1>1, <2>4, <2>5, <2>6, <2>7, <2>8, <2>9, <2>10 DEF Explored
<1> QED BY <1>7, <1>9, <1>10, <1>11 DEF IInv

LEMMA NextIInv == IInv /\ [Next]_vars => IInv'
<1> SUFFICES ASSUME IInv, [Next]_vars PROVE IInv'
  OBVIOUS
<1>1. CASE UNCHANGED vars
  BY <1>1 DEF vars, nodeVars, IInv, TypeOK, NodesInv, EntriesInv, ExploredInv, Explored, Unpruned
<1>2. CASE Next
  BY <1>2, BeginIInv, StopIInv, SkipStaleIInv, ExpandIInv, PruneSuccessorIInv, RelaxIInv,
     IgnoreIInv DEF Next
<1> QED BY <1>1, <1>2

LEMMA Invariance == Spec => []IInv
  BY InitIInv, NextIInv, PTL DEF Spec

-----------------------------------------------------------------------------

\* An unpruned search with a safe heuristic that ends with an empty queue, or at the
\* start node, has not missed a plan.
THEOREM Complete == Spec => []ExhaustedUnsolvable
<1>1. IInv => ExhaustedUnsolvable
  <2> SUFFICES ASSUME IInv, result \in {"EXHAUSTED", "UNSOLVABLE"}, Unpruned, Safe(call)
               PROVE  ~Solvable(call)
    BY DEF ExhaustedUnsolvable
  <2>1. WellFormed(call) /\ Start \in State
    BY CallsAssumption, SpaceAssumption DEF IInv, TypeOK
  <2>2. \A s \in State : Infinity \in call.h[s] => s \in Hopeless(call)
    BY DEF Safe, Hopeless
  <2>3. CASE result = "UNSOLVABLE"
    BY <2>1, <2>2, <2>3, UnsolvableFrom DEF IInv, ExploredInv, Solvable, Hopeless
  <2>4. CASE result = "EXHAUSTED"
    <3> DEFINE C == {s \in State : status[s] = "CLOSED"}
    <3>1. /\ Explored /\ succs = {} /\ \A s \in State : status[s] \notin {"OPEN", "GOAL"}
          /\ status \in [State -> {"NEW", "OPEN", "CLOSED", "GOAL", "DEAD_END"}]
          /\ \A s \in State : status[s] = "NEW" => g[s] = Infinity
      BY <2>4 DEF IInv, ExploredInv, TypeOK, NodesInv
    <3>2. \A s \in State : status[s] # "NEW" => s \in C \cup Hopeless(call)
      BY <2>2, <3>1 DEF Explored
    <3>3. C \cap call.goals = {} /\ Start \in C \cup Hopeless(call)
      BY <2>1, <3>1, <3>2 DEF Explored
    <3>4. \A e \in call.edges : e.from \in C => e.to \in C \cup Hopeless(call)
      <4>1. \A e \in call.edges : e.to \in State
        BY <2>1 DEF WellFormed
      <4> QED BY <3>1, <3>2, <4>1, SpaceAssumption DEF Explored
    <3>5. C \in SUBSET State
      OBVIOUS
    <3> HIDE DEF C
    <3> QED BY <2>1, <3>3, <3>4, <3>5, UnsolvableFrom
  <2> QED BY <2>3, <2>4
<1> QED BY <1>1, Invariance, PTL

-----------------------------------------------------------------------------
(* Optimality: when a goal node is popped, no path can do better than its    *)
(* metric c, as the remaining costs c - g[s] of expanded nodes and the goal  *)
(* costs of the others together never overestimate.                          *)

Bigger(x, y) == IF Less(x, y) THEN y ELSE x

\* What must still be paid from s on, if c is to be paid in total.
Remaining(c, s) == IF status[s] = "CLOSED" /\ g[s] < c THEN c - g[s] ELSE 0

LEMMA OptimalAtGoal ==
    ASSUME IInv, ExpandGoal, Unpruned, Admissible(call)
    PROVE  ~Less(Plus(call.metric, GoalCosts(call)[Start]), goalNode'.metric)
<1>1. PICK x \in Top : status[x.state] = "GOAL" /\ goalNode' = Node(x.state, g[x.state])
  BY DEF ExpandGoal
<1>2. PICK c \in Nat : c = g[x.state] /\ c = goalNode'.metric
  BY <1>1 DEF IInv, TypeOK, Entries, NodesInv, Top, Node
<1>3. \A y \in open : y.f \in Nat /\ c <= y.f
  <2>1. \A y \in open : y.f \in Nat
    BY DEF IInv, TypeOK, Entries
  <2>2. x \in open /\ \A y \in open : x.f <= y.f
    BY <2>1 DEF Top
  <2>3. c <= x.f
    BY <1>2, <2>2 DEF IInv, EntriesInv
  <2> QED BY <2>1, <2>2, <2>3
<1>4. /\ Explored /\ result = "IN_PROGRESS" /\ succs = {}
      /\ g \in [State -> Cost] /\ status \in [State -> {"NEW", "OPEN", "CLOSED", "GOAL", "DEAD_END"}]
      /\ WellFormed(call) /\ call.metric \in Nat
  BY CallType, CallsAssumption DEF ExpandGoal, InLoop, IInv, ExploredInv, TypeOK
<1> DEFINE d == GoalCosts(call)
<1>5. d \in [State -> Cost] /\ Underestimates(call, d) /\ \A s \in State : \A v \in call.h[s] : ~Less(d[s], v)
  BY DEF Admissible, Underestimates
<1> HIDE DEF d
\* A node that is not expanded has a goal cost of at least what remains.
<1>6. ASSUME NEW s \in State, g[s] \in Nat, status[s] # "CLOSED"
      PROVE  d[s] = Infinity \/ (d[s] \in Nat /\ c <= g[s] + d[s])
  <2>1. d[s] \in Cost
    BY <1>5
  <2>2. CASE status[s] = "DEAD_END"
    BY <1>4, <1>5, <2>1, <2>2 DEF Explored, Less, Cost
  <2>3. CASE status[s] \in {"OPEN", "GOAL"}
    <3>1. PICK y \in open, h \in call.h[s] : h # Infinity /\ y.f = g[s] + h
      BY <1>4, <2>3 DEF IInv, EntriesInv
    <3>2. h \in Nat /\ ~Less(d[s], h)
      BY <1>4, <1>5, <3>1 DEF WellFormed, Cost
    <3>3. c <= g[s] + h
      BY <1>3, <3>1
    <3> QED BY <1>2, <1>6, <2>1, <3>1, <3>2, <3>3 DEF Less, Cost
  <2>4. status[s] # "NEW"
    BY <1>6, SpaceAssumption DEF IInv, NodesInv
  <2> QED BY <1>4, <1>6, <2>2, <2>3, <2>4
<1> DEFINE l == [s \in State |-> Bigger(d[s], Remaining(c, s))]
<1>7. \A s \in State : Remaining(c, s) \in Nat /\ (status[s] # "CLOSED" => Remaining(c, s) = 0)
  BY <1>2, <1>4 DEF Remaining, Explored
<1>8. \A s \in State : /\ l[s] \in Cost /\ d[s] \in Cost
                       /\ l[s] = Infinity <=> d[s] = Infinity
                       /\ l[s] # Infinity => d[s] <= l[s] /\ Remaining(c, s) <= l[s] /\ (l[s] = d[s] \/ l[s] = Remaining(c, s))
  <2> SUFFICES ASSUME NEW s \in State
               PROVE  /\ l[s] \in Cost /\ d[s] \in Cost
                      /\ l[s] = Infinity <=> d[s] = Infinity
                      /\ l[s] # Infinity => d[s] <= l[s] /\ Remaining(c, s) <= l[s] /\ (l[s] = d[s] \/ l[s] = Remaining(c, s))
    OBVIOUS
  <2>1. PICK r \in Nat : r = Remaining(c, s)
    BY <1>7
  <2>2. d[s] \in Cost
    BY <1>5
  <2>3. l[s] = Bigger(d[s], r)
    BY <2>1
  <2> QED BY <2>1, <2>2, <2>3, SpaceAssumption DEF Bigger, Less, Cost
<1> HIDE DEF l
<1>9. Underestimates(call, l)
  <2>1. \A s \in State \cap call.goals : l[s] = 0
    BY <1>4, <1>5, <1>7, <1>8, SpaceAssumption DEF Explored, Underestimates
  <2>2. ASSUME NEW e \in call.edges PROVE ~Less(Plus(e.cost, l[e.to]), l[e.from])
    <3>1. e.from \in State /\ e.to \in State /\ e.cost \in Nat
      BY <1>4 DEF WellFormed
    <3>2. CASE l[e.to] = Infinity
      BY <3>2 DEF Plus, Less
    <3>3. CASE l[e.to] # Infinity
      <4>1. /\ l[e.to] \in Nat /\ d[e.to] \in Nat /\ d[e.to] <= l[e.to] /\ Remaining(c, e.to) <= l[e.to]
            /\ Remaining(c, e.to) \in Nat
        BY <1>7, <1>8, <3>1, <3>3 DEF Cost
      <4>2. d[e.from] \in Nat /\ d[e.from] <= e.cost + d[e.to]
        BY <1>5, <1>8, <3>1, <4>1, SpaceAssumption DEF Underestimates, Less, Plus, Cost
      <4> SUFFICES l[e.from] \in Nat /\ l[e.from] <= e.cost + l[e.to]
        BY <3>1, <3>3, <4>1, SpaceAssumption DEF Plus, Less
      <4>3. CASE l[e.from] = d[e.from]
        BY <3>1, <4>1, <4>2, <4>3
      <4>4. CASE l[e.from] = Remaining(c, e.from) /\ status[e.from] = "CLOSED" /\ g[e.from] < c
        <5>1. /\ g[e.from] \in Nat /\ g[e.to] \in Nat /\ g[e.to] <= g[e.from] + e.cost
              /\ l[e.from] = c - g[e.from]
          BY <1>4, <3>1, <4>4 DEF Explored, Remaining
        <5>2. c <= g[e.to] + l[e.to]
          <6>1. CASE status[e.to] # "CLOSED"
            BY <1>6, <3>1, <4>1, <5>1, <6>1, SpaceAssumption
          <6>2. CASE status[e.to] = "CLOSED"
            BY <4>1, <5>1, <6>2 DEF Remaining
          <6> QED BY <6>1, <6>2
        <5> QED BY <1>2, <3>1, <4>1, <4>4, <5>1, <5>2
      <4>5. CASE l[e.from] = Remaining(c, e.from) /\ ~(status[e.from] = "CLOSED" /\ g[e.from] < c)
        <5>1. l[e.from] = 0
          BY <4>5 DEF Remaining
        <5> QED BY <3>1, <4>1, <5>1
      <4>6. l[e.from] # Infinity
        BY <1>8, <3>1, <4>2, SpaceAssumption
      <4> QED BY <1>8, <3>1, <4>3, <4>4, <4>5, <4>6
    <3> QED BY <3>2, <3>3
  <2>3. l \in [State -> Cost]
    BY <1>8 DEF l
  <2> QED BY <2>1, <2>2, <2>3 DEF Underestimates
<1>10. Start \in State /\ ~Less(d[Start], l[Start])
  BY <1>4, <1>9, UnderGoalCosts, SpaceAssumption DEF d
<1>11. d[Start] = Infinity \/ (d[Start] \in Nat /\ c <= g[Start] + d[Start])
  <2>1. g[Start] \in Nat
    BY <1>4 DEF Explored
  <2>2. CASE status[Start] = "CLOSED" /\ d[Start] # Infinity
    <3>1. d[Start] \in Nat /\ Remaining(c, Start) <= d[Start]
      BY <1>8, <1>10, <2>2, SpaceAssumption DEF Less, Cost
    <3> QED BY <2>1, <2>2, <3>1 DEF Remaining
  <2> QED BY <1>6, <1>10, <2>1, <2>2
<1>12. g[Start] \in Nat /\ g[Start] <= call.metric
  BY <1>4 DEF Explored
<1>13. d[Start] = Infinity \/ (d[Start] \in Nat /\ c <= call.metric + d[Start])
  BY <1>4, <1>11, <1>12
<1> QED BY <1>2, <1>4, <1>13, SpaceAssumption DEF d, Plus, Less

\* With an admissible heuristic the goal node an unpruned search returns has the least
\* metric a goal can be reached with.
THEOREM Optimal == Spec => []OptimalPlan
<1>1. Init => OptimalPlan
  BY DEF Init, OptimalPlan
<1>2. ASSUME IInv, OptimalPlan, [Next]_vars PROVE OptimalPlan'
  <2> SUFFICES ASSUME result' = "SOLVED", Admissible(call'), Unpruned'
               PROVE  ~Less(Plus(call'.metric, GoalCosts(call')[Start]), goalNode'.metric)
    BY DEF OptimalPlan
  <2>1. call' = call /\ Unpruned /\ Admissible(call)
    BY <1>2 DEF Next, vars, Begin, TimeOut, SkipStale, ExpandGoal, Expand, Exhausted, GiveUp,
       PruneSuccessor, Relax, Ignore, Take, Unpruned
  <2>2. CASE ExpandGoal
    BY <1>2, <2>1, <2>2, OptimalAtGoal
  <2>3. CASE UNCHANGED vars
    BY <1>2, <2>1, <2>3 DEF vars, OptimalPlan
  <2>4. ASSUME NEW h \in call.h[Start], Begin(h)
        PROVE  ~Less(Plus(call.metric, GoalCosts(call)[Start]), goalNode'.metric)
    <3>1. goalNode'.metric = call.metric /\ call.metric \in Nat
      BY <1>2, <2>4, CallType DEF Begin, IInv, Node
    <3>2. GoalCosts(call)[Start] \in Cost
      BY <2>1, SpaceAssumption DEF Admissible, Underestimates
    <3> QED BY <3>1, <3>2, SpaceAssumption DEF Less, Plus, Cost
  <2>5. CASE TimeOut \/ SkipStale \/ Expand \/ Exhausted \/ \E e \in succs :
               GiveUp(e) \/ PruneSuccessor(e) \/ Ignore(e) \/ \E h \in call.h[e.to] : Relax(e, h)
    BY <2>5 DEF TimeOut, SkipStale, Expand, Exhausted, InLoop, GiveUp, PruneSuccessor, Ignore,
       Relax, Take
  <2> QED BY <1>2, <2>1, <2>2, <2>3, <2>4, <2>5 DEF Next
<1> QED BY <1>1, <1>2, InitIInv, NextIInv, PTL DEF Spec

-----------------------------------------------------------------------------
(* Plans. A node that is reopened is expanded again before any node below it *)
(* is, whatever the heuristic, so that above a goal node that is expanded    *)
(* every node has been expanded with the metric it has.                      *)

\* The value of a heuristic that is a function of the state.
H(s) == CHOOSE h \in call.h[s] : TRUE

\* What the entry of a node that waits promises.
F(s) == g[s] + H(s)

Waiting(s) == status[s] \in {"OPEN", "GOAL"}

\* The metrics from the start on; what has one, but the start, has a parent.
MetricsInv ==
    /\ parent[Start] = None /\ g[Start] = call.metric
    /\ \A s \in State : g[s] \in Nat => call.metric <= g[s] /\ (s = Start \/ parent[s] \in State)

\* e leads to s from its parent, at no more than the difference of their metrics and,
\* unless it is still to be processed, at just that if the parent has been expanded.
Leads(e, s) ==
    /\ e.from = parent[s] /\ e.to = s /\ g[e.from] + e.cost <= g[s]
    /\ status[e.from] = "CLOSED" => e \in succs \/ g[s] = g[e.from] + e.cost

\* The parent pointers form trees of expanded nodes, some of which were reopened.
TreesInv ==
    /\ parent \in [State -> State \cup {None}] /\ Acyclic(parent)
    /\ \A s \in State : parent[s] \in State =>
        /\ g[s] \in Nat /\ g[parent[s]] \in Nat /\ status[parent[s]] \in {"OPEN", "CLOSED"}
        /\ \E e \in call.edges : Leads(e, s)

\* Entries promise what the metrics at their time did, which were no less.
ValuesInv ==
    /\ \A s \in State : status[s] \in {"OPEN", "CLOSED", "GOAL"} => H(s) \in Nat
    /\ \A x \in open : H(x.state) \in Nat /\ F(x.state) <= x.f

\* The successors being processed are those of one expanded node.
BatchInv ==
    /\ \A d, e \in succs : d.from = e.from
    /\ \A e \in succs : status[e.from] = "CLOSED"

LateBelow(n) == \A m \in Below(parent, n) : Waiting(m) => F(n) <= F(m)
LateBeside(n) == \A m \in State \ Below(parent, n) : Waiting(m) => F(n) <= F(m)

\* What waits below an open node promises more than it; what waits below an expanded node
\* no less, or else what waits elsewhere does not, which is so while a node below is
\* being expanded.
OrderInv ==
    /\ \A p \in State : status[p] = "OPEN" =>
        \A m \in Below(parent, p) : m # p /\ Waiting(m) => F(p) < F(m)
    /\ \A n \in State : status[n] = "CLOSED" => LateBelow(n) \/ LateBeside(n)
    /\ \A e \in succs : \A n \in State :
        /\ status[n] = "OPEN" => e.from \notin Below(parent, n)
        /\ status[n] = "CLOSED" =>
            IF e.from \in Below(parent, n) THEN LateBeside(n) ELSE LateBelow(n)

PathsInv == MetricsInv /\ TreesInv /\ ValuesInv /\ BatchInv /\ OrderInv

PlanInv ==
    /\ result = "NOT_STARTED" => parent = [s \in State |-> None]
    /\ result = "IN_PROGRESS" /\ Deterministic /\ Unpruned => PathsInv

\* With such a heuristic, what waits has an entry with what it promises.
LEMMA WaitingEntry ==
    ASSUME IInv, Deterministic, result = "IN_PROGRESS", NEW s \in State, Waiting(s)
    PROVE  H(s) \in Nat /\ g[s] \in Nat /\ \E x \in open : x.state = s /\ x.f = F(s)
<1>1. PICK x \in open, h \in call.h[s] : x.state = s /\ h # Infinity /\ x.f = g[s] + h
  BY DEF IInv, EntriesInv, Waiting
<1>2. H(s) = h
  BY DEF H, Deterministic
<1>3. h \in Nat
  BY <1>1, CallType DEF IInv, Cost
<1>4. g[s] \in Nat
  BY DEF IInv, NodesInv, Waiting
<1> QED BY <1>1, <1>2, <1>3, <1>4 DEF F

LEMMA BeginPlanInv == ASSUME IInv, PlanInv, NEW h \in call.h[Start], Begin(h) PROVE PlanInv'
<1>0. /\ NodesInv /\ result = "NOT_STARTED" /\ call.metric \in Nat /\ Start \in State /\ h \in Cost
      /\ \A s \in State : status[s] = "NEW" /\ g[s] = Infinity
      /\ succs = {} /\ parent = [s \in State |-> None]
  BY CallType, SpaceAssumption DEF IInv, Begin, NodesInv, TypeOK, PlanInv
<1>1. result' # "NOT_STARTED"
  BY DEF Begin, StartOutcome
<1> SUFFICES ASSUME result' = "IN_PROGRESS", Deterministic' PROVE PathsInv'
  BY <1>1 DEF PlanInv
<1>2. /\ call' = call /\ parent' = parent /\ succs' = {}
      /\ h # Infinity /\ h \in Nat /\ open' = {Entry(call.metric + h, "OPEN", Start)}
  BY <1>0 DEF Begin, StartOutcome, Cost
<1>3. /\ \A s \in State : status'[s] = IF s = Start THEN "OPEN" ELSE "NEW"
      /\ \A s \in State : g'[s] = IF s = Start THEN call.metric ELSE Infinity
  BY <1>0, <1>2 DEF Begin, IInv, TypeOK
<1>4. \A s \in State : parent'[s] = None /\ None \notin State
  BY <1>0, <1>2, SpaceAssumption
<1>5. \A n \in State : Below(parent', n) = {n}
  BY <1>4, BelowLeaf
<1>6. H(Start)' = h
  BY <1>0, <1>2 DEF H, Deterministic
<1>7. MetricsInv'
  BY <1>0, <1>2, <1>3, <1>4, SpaceAssumption DEF MetricsInv
<1>8. TreesInv'
  <2>1. Acyclic(parent')
    BY <1>4, <1>5 DEF Acyclic
  <2>2. parent' \in [State -> State \cup {None}]
    BY <1>0, <1>2
  <2> QED BY <1>4, <2>1, <2>2 DEF TreesInv
<1>9. ValuesInv'
  BY <1>0, <1>2, <1>3, <1>6 DEF ValuesInv, F, Entry
<1>10. BatchInv' /\ OrderInv'
  BY <1>2, <1>3, <1>5 DEF BatchInv, OrderInv
<1> QED BY <1>7, <1>8, <1>9, <1>10 DEF PathsInv

LEMMA SkipStalePlanInv == ASSUME PlanInv, SkipStale PROVE PlanInv'
<1>1. UNCHANGED <<call, nodeVars, succs, result>> /\ open' \subseteq open
  BY DEF SkipStale
<1>2. PathsInv => PathsInv'
  <2> SUFFICES ASSUME PathsInv PROVE PathsInv'
    OBVIOUS
  <2>1. (MetricsInv /\ BatchInv)'
    BY <1>1 DEF PathsInv, MetricsInv, BatchInv, nodeVars
  <2>2. TreesInv'
    BY <1>1 DEF PathsInv, TreesInv, Leads, nodeVars
  <2>3. ValuesInv'
    BY <1>1 DEF PathsInv, ValuesInv, F, H, nodeVars
  <2>4. OrderInv' = OrderInv
    BY <1>1 DEF OrderInv, LateBelow, LateBeside, Waiting, F, H, nodeVars
  <2> QED BY <2>1, <2>2, <2>3, <2>4 DEF PathsInv
<1> QED BY <1>1, <1>2 DEF PlanInv, Deterministic, Unpruned, nodeVars

\* The expanded node promises no more than any that waits.
LEMMA TopFirst ==
    ASSUME IInv, PathsInv, Deterministic, result = "IN_PROGRESS", NEW x \in Top,
           NEW s \in State, Waiting(s)
    PROVE  F(x.state) <= F(s)
<1>1. PICK y \in open : y.f = F(s)
  BY WaitingEntry
<1>2. x \in open /\ x.f \in Nat /\ y.f \in Nat /\ x.f <= y.f
  BY DEF Top, IInv, TypeOK, Entries
<1>3. H(x.state) \in Nat /\ g[x.state] \in Nat /\ F(x.state) <= x.f
  BY <1>2 DEF PathsInv, ValuesInv, IInv, EntriesInv
<1> QED BY <1>1, <1>2, <1>3 DEF F

LEMMA ExpandPlanInv == ASSUME IInv, PlanInv, Expand PROVE PlanInv'
<1>1. PICK x \in Top : /\ status[x.state] = "OPEN"
                       /\ status' = [status EXCEPT ![x.state] = "CLOSED"]
                       /\ succs' = Transitions(call, x.state) /\ open' \subseteq open
  BY DEF Expand
<1>2. UNCHANGED <<call, g, parent, result>> /\ result = "IN_PROGRESS" /\ succs = {}
  BY DEF Expand, InLoop
<1> SUFFICES ASSUME Deterministic, Unpruned PROVE PathsInv'
  BY <1>2 DEF PlanInv, Deterministic, Unpruned
<1>3. PICK p \in State : p = x.state /\ status[p] = "OPEN"
  BY <1>1 DEF IInv, TypeOK, Entries, Top
<1>4. \A s \in State : status'[s] = IF s = p THEN "CLOSED" ELSE status[s]
  BY <1>1, <1>3 DEF IInv, TypeOK
<1>5. \A e : e \in succs' <=> e \in call.edges /\ e.from = p
  BY <1>1, <1>3 DEF Transitions
<1>6. PathsInv
  BY <1>2 DEF PlanInv
<1>7. \A s \in State : Waiting(s) => F(p) <= F(s) /\ F(s) \in Nat
  <2> SUFFICES ASSUME NEW s \in State, Waiting(s) PROVE F(p) <= F(s) /\ F(s) \in Nat
    OBVIOUS
  <2>1. F(p) <= F(s)
    BY <1>2, <1>3, <1>6, TopFirst
  <2> QED BY <1>2, <2>1, WaitingEntry DEF F
<1>8. /\ Waiting(p) /\ \A s \in State : Waiting(s)' => Waiting(s)
      /\ \A s \in State : H(s)' = H(s) /\ F(s)' = F(s)
  BY <1>2, <1>3, <1>4 DEF Waiting, H, F
<1>9. MetricsInv'
  BY <1>2, <1>6 DEF PathsInv, MetricsInv
<1>10. TreesInv'
  <2> SUFFICES ASSUME NEW s \in State, parent[s] \in State
               PROVE  /\ g[s] \in Nat /\ g[parent[s]] \in Nat /\ status'[parent[s]] \in {"OPEN", "CLOSED"}
                      /\ \E e \in call.edges : Leads(e, s)'
    BY <1>2, <1>6 DEF PathsInv, TreesInv
  <2>1. /\ g[s] \in Nat /\ g[parent[s]] \in Nat /\ status[parent[s]] \in {"OPEN", "CLOSED"}
        /\ \E e \in call.edges : Leads(e, s)
    BY <1>6 DEF PathsInv, TreesInv
  <2>2. PICK e \in call.edges : Leads(e, s)
    BY <2>1
  <2>3. Leads(e, s)'
    <3>1. e.from \in State
      BY CallType DEF IInv
    <3> QED BY <1>2, <1>4, <1>5, <2>2, <3>1 DEF Leads
  <2> QED BY <1>4, <2>1, <2>3
<1>11. ValuesInv'
  <2>1. ValuesInv
    BY <1>6 DEF PathsInv
  <2>2. \A y \in open : y.state \in State
    BY DEF IInv, TypeOK, Entries
  <2> QED BY <1>1, <1>3, <1>4, <1>8, <2>1, <2>2 DEF ValuesInv
<1>12. BatchInv'
  BY <1>3, <1>4, <1>5 DEF BatchInv
<1>13. OrderInv'
  <2>0. OrderInv
    BY <1>6 DEF PathsInv
  <2>1. ASSUME NEW n \in State, status'[n] = "OPEN"
        PROVE  /\ p \notin Below(parent, n)
               /\ \A m \in Below(parent, n) : m # n /\ Waiting(m)' => F(n)' < F(m)'
    <3>1. status[n] = "OPEN" /\ n # p /\ Waiting(n)
      BY <1>4, <2>1 DEF Waiting
    <3>2. \A m \in Below(parent, n) : m # n /\ Waiting(m) => F(n) < F(m)
      BY <2>0, <3>1 DEF OrderInv
    <3>3. \A m \in Below(parent, n) : m \in State
      BY BelowClosed
    <3>4. p \notin Below(parent, n)
      BY <1>7, <1>8, <3>1, <3>2
    <3> QED BY <1>8, <3>2, <3>3, <3>4
  <2>2. ASSUME NEW n \in State, status'[n] = "CLOSED"
        PROVE  IF p \in Below(parent, n) THEN LateBeside(n)' ELSE LateBelow(n)'
    <3>0. Below(parent, n) \in SUBSET State
      BY BelowClosed
    <3>1. CASE n = p
      <4>1. p \in Below(parent, n)
        BY <3>1, BelowClosed
      <4> QED BY <1>7, <1>8, <3>1, <4>1 DEF LateBeside
    <3>2. CASE n # p
      <4>1. LateBelow(n) \/ LateBeside(n)
        BY <1>4, <2>0, <2>2, <3>2 DEF OrderInv
      <4>2. H(n) \in Nat /\ g[n] \in Nat
        <5>1. status[n] = "CLOSED"
          BY <1>4, <2>2, <3>2
        <5>2. H(n) \in Nat
          BY <1>6, <5>1 DEF PathsInv, ValuesInv
        <5> QED BY <1>2, <5>1, <5>2 DEF IInv, ExploredInv, Explored
      <4>3. F(n) \in Nat /\ F(p) \in Nat
        BY <1>7, <1>8, <4>2 DEF F
      <4>4. CASE p \in Below(parent, n)
        <5>1. CASE LateBelow(n)
          <6>1. F(n) <= F(p)
            BY <1>8, <4>4, <5>1 DEF LateBelow
          <6>2. \A s \in State : Waiting(s) => F(n) <= F(s)
            BY <1>7, <4>3, <6>1
          <6> QED BY <1>2, <1>8, <4>4, <6>2 DEF LateBeside
        <5>2. CASE LateBeside(n)
          BY <1>2, <1>8, <4>4, <5>2 DEF LateBeside
        <5> QED BY <4>1, <5>1, <5>2
      <4>5. CASE p \notin Below(parent, n)
        <5>1. CASE LateBelow(n)
          BY <1>2, <1>8, <3>0, <4>5, <5>1 DEF LateBelow
        <5>2. CASE LateBeside(n)
          <6>1. F(n) <= F(p)
            BY <1>8, <4>5, <5>2 DEF LateBeside
          <6>2. \A s \in State : Waiting(s) => F(n) <= F(s)
            BY <1>7, <4>3, <6>1
          <6> QED BY <1>2, <1>8, <3>0, <4>5, <6>2 DEF LateBelow
        <5> QED BY <4>1, <5>1, <5>2
      <4> QED BY <4>4, <4>5
    <3> QED BY <3>1, <3>2
  <2> QED BY <1>2, <1>5, <2>1, <2>2 DEF OrderInv
<1> QED BY <1>9, <1>10, <1>11, <1>12, <1>13 DEF PathsInv

LEMMA IgnorePlanInv == ASSUME IInv, PlanInv, NEW e \in succs, Ignore(e) PROVE PlanInv'
<1>1. /\ UNCHANGED <<call, nodeVars, open, result>> /\ succs' = succs \ {e}
      /\ result = "IN_PROGRESS" /\ ~Less(Metric(e), g[e.to])
  BY DEF Ignore, Take, Improves
<1> SUFFICES ASSUME Deterministic, Unpruned PROVE PathsInv'
  BY <1>1 DEF PlanInv, Deterministic, Unpruned
<1>2. PathsInv
  BY <1>1 DEF PlanInv
<1>3. g[e.to] \in Nat /\ g[e.from] + e.cost \in Nat /\ g[e.to] <= g[e.from] + e.cost
  <2>1. g[e.to] \in Cost
    BY Successor DEF IInv, TypeOK
  <2> QED BY <1>1, <2>1, Successor, SpaceAssumption DEF Less, Cost
<1>4. TreesInv'
  <2> SUFFICES ASSUME NEW s \in State, parent[s] \in State
               PROVE  /\ g[s] \in Nat /\ g[parent[s]] \in Nat /\ status[parent[s]] \in {"OPEN", "CLOSED"}
                      /\ \E d \in call.edges : Leads(d, s)'
    BY <1>1, <1>2 DEF PathsInv, TreesInv, nodeVars
  <2>1. /\ g[s] \in Nat /\ g[parent[s]] \in Nat /\ status[parent[s]] \in {"OPEN", "CLOSED"}
        /\ \E d \in call.edges : Leads(d, s)
    BY <1>2 DEF PathsInv, TreesInv
  <2>2. PICK d \in call.edges : Leads(d, s)
    BY <2>1
  <2>3. Leads(d, s)'
    <3>1. CASE d = e
      <4>1. g[s] = g[d.from] + d.cost
        BY <1>3, <2>1, <2>2, <3>1 DEF Leads
      <4> QED BY <1>1, <2>2, <4>1 DEF Leads, nodeVars
    <3>2. CASE d # e
      BY <1>1, <2>2, <3>2 DEF Leads, nodeVars
    <3> QED BY <3>1, <3>2
  <2> QED BY <2>1, <2>3
<1>5. (MetricsInv /\ BatchInv)'
  BY <1>1, <1>2 DEF PathsInv, MetricsInv, BatchInv, nodeVars
<1>6. ValuesInv'
  BY <1>1, <1>2 DEF PathsInv, ValuesInv, F, H, nodeVars
<1>7. \A n \in State : /\ LateBelow(n)' = LateBelow(n) /\ LateBeside(n)' = LateBeside(n)
                       /\ F(n)' = F(n) /\ Waiting(n)' = Waiting(n)
  BY <1>1 DEF LateBelow, LateBeside, Waiting, F, H, nodeVars
<1>8. OrderInv'
  <2>1. OrderInv
    BY <1>2 DEF PathsInv
  <2>2. \A n \in State : Below(parent, n) \in SUBSET State
    BY BelowClosed
  <2> QED BY <1>1, <1>7, <2>1, <2>2 DEF OrderInv, nodeVars
<1> QED BY <1>4, <1>5, <1>6, <1>8 DEF PathsInv

\* A state with children has been expanded.
LEMMA ParentExpanded ==
    ASSUME IInv, PathsInv, result = "IN_PROGRESS", Unpruned, NEW c \in State, Below(parent, c) # {c}
    PROVE  status[c] \in {"OPEN", "CLOSED"} /\ g[c] \in Nat /\ H(c) \in Nat /\ c \notin call.goals
<1>1. PICK s \in State : parent[s] = c
  BY BelowLeaf
<1>2. status[c] \in {"OPEN", "CLOSED"} /\ g[c] \in Nat
  BY <1>1 DEF PathsInv, TreesInv
<1> QED BY <1>2 DEF PathsInv, ValuesInv, IInv, ExploredInv, Explored

\* Metrics do not fall along the parent pointers.
LEMMA BelowCosts ==
    ASSUME IInv, PathsInv, NEW c \in State, g[c] \in Nat, NEW s \in Below(parent, c)
    PROVE  g[s] \in Nat /\ g[c] <= g[s]
<1> DEFINE R == {r \in State : g[r] \in Nat /\ g[c] <= g[r]}
<1>1. ASSUME NEW r \in State, parent[r] \in R PROVE r \in R
  <2>1. PICK e \in call.edges : Leads(e, r)
    BY <1>1 DEF PathsInv, TreesInv
  <2>2. g[r] \in Nat /\ g[parent[r]] \in Nat /\ e.cost \in Nat
    BY <1>1, CallType DEF PathsInv, TreesInv, IInv
  <2> QED BY <1>1, <2>1, <2>2 DEF Leads
<1>2. R \in SUBSET State /\ c \in R
  OBVIOUS
<1>3. s \in R
  <2> HIDE DEF R
  <2> QED BY <1>1, <1>2, BelowIn
<1> QED BY <1>3

LEMMA RelaxPlanInv ==
    ASSUME IInv, PlanInv, NEW e \in succs, NEW h \in call.h[e.to], Relax(e, h)
    PROVE  PlanInv'
<1> DEFINE st == IF h = Infinity THEN "DEAD_END" ELSE IF e.to \in call.goals THEN "GOAL" ELSE "OPEN"
<1>0. PICK m \in Nat, c \in State, x \in State :
        m = Metric(e) /\ c = e.to /\ x = e.from /\ m = g[x] + e.cost /\ g[x] \in Nat /\ e.cost \in Nat
  BY Successor
<1>1. /\ UNCHANGED <<call, result>> /\ succs' = succs \ {e}
      /\ result = "IN_PROGRESS" /\ Less(m, g[c])
      /\ g' = [g EXCEPT ![c] = m] /\ status' = [status EXCEPT ![c] = st]
      /\ parent' = [parent EXCEPT ![c] = x]
      /\ open' = IF h = Infinity THEN open ELSE open \cup {Entry(m + h, st, c)}
  BY <1>0 DEF Relax, Take, Improves
<1> SUFFICES ASSUME Deterministic, Unpruned PROVE PathsInv'
  BY <1>1 DEF PlanInv, Deterministic, Unpruned
<1>2. PathsInv
  BY <1>1 DEF PlanInv
<1>3. (g[c] \in Nat => m < g[c]) /\ x # c
  <2>1. g[c] \in Cost
    BY <1>0 DEF IInv, TypeOK
  <2> QED BY <1>0, <1>1, <2>1, SpaceAssumption DEF Less, Cost
<1>4. h \in Cost /\ h = H(c) /\ (\A s \in State : H(s)' = H(s))
  BY <1>0, <1>1, CallType DEF H, Deterministic, IInv
<1>5. /\ \A s \in State : status'[s] = IF s = c THEN st ELSE status[s]
      /\ \A s \in State : g'[s] = IF s = c THEN m ELSE g[s]
  BY <1>0, <1>1 DEF IInv, TypeOK
<1>6. parent \in [State -> State \cup {None}] /\ Acyclic(parent)
  BY <1>2 DEF PathsInv, TreesInv
<1>7. \A s \in State : parent'[s] = IF s = c THEN x ELSE parent[s]
  BY <1>0, <1>1, <1>6
<1>8. status[x] = "CLOSED" /\ \A d \in succs : d.from = x
  BY <1>0, <1>2 DEF PathsInv, BatchInv
<1>9. x \notin Below(parent, c)
  <2>1. Below(parent, c) # {c} => g[c] \in Nat
    BY <1>1, <1>2, ParentExpanded
  <2>2. CASE g[c] \in Nat
    BY <1>0, <1>2, <1>3, <2>2, BelowCosts
  <2>3. CASE Below(parent, c) = {c}
    BY <1>3, <2>3
  <2> QED BY <2>1, <2>2, <2>3
<1>10. c # Start
  BY <1>0, <1>2, <1>3, CallType DEF PathsInv, MetricsInv, IInv
<1>11. /\ \A n \in State : x \notin Below(parent, n) =>
            Below(parent', n) \subseteq Below(parent, n) /\ (n # c => c \notin Below(parent', n))
       /\ \A n \in State : x \in Below(parent, n) =>
            Below(parent, n) \subseteq Below(parent', n) /\ c \in Below(parent', n)
       /\ Below(parent', c) \subseteq Below(parent, c) /\ Acyclic(parent')
  <2>1. Reparented(parent, parent', c, x)
    BY <1>7 DEF Reparented
  <2> QED BY <1>6, <1>9, <2>1, Reparent
<1>12. /\ st \in {"OPEN", "GOAL", "DEAD_END"}
       /\ H(c) \in Nat => st # "DEAD_END" /\ h \in Nat
       /\ st # "DEAD_END" => H(c) \in Nat /\ h # Infinity
       /\ c \notin call.goals => st # "GOAL"
  BY <1>0, <1>4, SpaceAssumption DEF Cost
<1> HIDE DEF st
<1>13. /\ \A s \in State : s # c => F(s)' = F(s) /\ Waiting(s)' = Waiting(s) /\ status'[s] = status[s]
       /\ F(c)' = m + H(c) /\ (g[c] \in Nat /\ H(c) \in Nat => F(c)' < F(c))
  <2>1. \A s \in State : s # c => F(s)' = F(s) /\ Waiting(s)' = Waiting(s) /\ status'[s] = status[s]
    BY <1>4, <1>5 DEF F, Waiting
  <2>2. F(c)' = m + H(c)
    BY <1>4, <1>5 DEF F
  <2>3. g[c] \in Nat /\ H(c) \in Nat => m + H(c) < F(c)
    BY <1>3 DEF F
  <2> QED BY <2>1, <2>2, <2>3
<1>14. MetricsInv'
  <2>1. call.metric \in Nat /\ call.metric <= g[x]
    BY <1>0, <1>2, CallType DEF PathsInv, MetricsInv, IInv
  <2> QED BY <1>0, <1>1, <1>2, <1>5, <1>7, <1>10, <2>1, SpaceAssumption DEF PathsInv, MetricsInv
<1>15. TreesInv'
  <2>1. parent' \in [State -> State \cup {None}]
    BY <1>1, <1>6
  <2> SUFFICES ASSUME NEW s \in State, parent'[s] \in State
               PROVE  /\ g'[s] \in Nat /\ g'[parent'[s]] \in Nat /\ status'[parent'[s]] \in {"OPEN", "CLOSED"}
                      /\ \E d \in call.edges : Leads(d, s)'
    BY <1>1, <1>11, <2>1 DEF TreesInv
  <2>2. CASE s = c
    <3>1. parent'[s] = x /\ g'[s] = m /\ g'[x] = g[x] /\ status'[x] = "CLOSED"
      BY <1>3, <1>5, <1>7, <1>8, <2>2
    <3>2. Leads(e, s)'
      BY <1>0, <2>2, <3>1 DEF Leads
    <3> QED BY <1>0, <3>1, <3>2, Successor
  <2>3. CASE s # c
    <3>1. PICK q \in State : q = parent[s] /\ parent'[s] = q /\ g'[s] = g[s]
      BY <1>5, <1>7, <2>3
    <3>2. g[s] \in Nat /\ g[q] \in Nat /\ status[q] \in {"OPEN", "CLOSED"} /\ \E d \in call.edges : Leads(d, s)
      BY <1>2, <3>1 DEF PathsInv, TreesInv
    <3>3. PICK d \in call.edges : Leads(d, s)
      BY <3>2
    <3>4. d # e /\ d.from = q /\ d.to = s /\ g[q] + d.cost <= g[s] /\ d.cost \in Nat
      BY <1>0, <2>3, <3>1, <3>3, CallType DEF Leads, IInv
    <3>5. CASE q = c
      <4>1. g'[q] = m /\ m < g[q] /\ status'[q] = st /\ st = "OPEN"
        <5>1. s \in Below(parent, c)
          BY <3>1, <3>5, BelowClosed
        <5>2. H(c) \in Nat /\ c \notin call.goals
          BY <1>1, <1>2, <2>3, <5>1, ParentExpanded
        <5> QED BY <1>3, <1>5, <1>12, <3>2, <3>5, <5>2
      <4>2. Leads(d, s)'
        BY <3>1, <3>2, <3>4, <4>1 DEF Leads
      <4> QED BY <3>1, <3>2, <4>1, <4>2
    <3>6. CASE q # c
      <4>1. g'[q] = g[q] /\ status'[q] = status[q]
        BY <1>5, <3>6
      <4>2. Leads(d, s)'
        BY <1>1, <3>1, <3>3, <3>4, <4>1 DEF Leads
      <4> QED BY <3>1, <3>2, <4>1, <4>2
    <3> QED BY <3>5, <3>6
  <2> QED BY <2>2, <2>3
<1>16. ValuesInv'
  <2>0. ValuesInv
    BY <1>2 DEF PathsInv
  <2>1. \A s \in State : status'[s] \in {"OPEN", "CLOSED", "GOAL"} => H(s)' \in Nat
    BY <1>4, <1>5, <1>12, <2>0 DEF ValuesInv
  <2>2. ASSUME NEW y \in open PROVE H(y.state)' \in Nat /\ F(y.state)' <= y.f
    <3>1. y.state \in State /\ y.f \in Nat /\ g[y.state] \in Nat /\ H(y.state) \in Nat /\ F(y.state) <= y.f
      BY <2>0 DEF ValuesInv, IInv, TypeOK, Entries, EntriesInv
    <3>2. CASE y.state = c
      BY <1>0, <1>4, <1>13, <3>1, <3>2 DEF F
    <3>3. CASE y.state # c
      BY <1>4, <1>13, <3>1, <3>3
    <3> QED BY <3>2, <3>3
  <2>3. ASSUME h # Infinity, NEW y, y = Entry(m + h, st, c)
        PROVE  H(y.state)' \in Nat /\ F(y.state)' <= y.f
    <3>1. y.state = c /\ y.f = m + h /\ h \in Nat
      BY <1>4, <2>3 DEF Entry, Cost
    <3> QED BY <1>0, <1>4, <1>13, <3>1
  <2> QED BY <1>1, <2>1, <2>2, <2>3 DEF ValuesInv
<1>17. BatchInv'
  BY <1>1, <1>3, <1>5, <1>8 DEF BatchInv
<1>18. OrderInv'
  <2>0. /\ OrderInv
        /\ \A n \in State : Below(parent, n) \in SUBSET State /\ Below(parent', n) \in SUBSET State
    BY <1>2, BelowClosed DEF PathsInv
  <2>1. ASSUME NEW n \in State, status'[n] = "OPEN"
        PROVE  /\ x \notin Below(parent', n)
               /\ \A q \in Below(parent', n) : q # n /\ Waiting(q)' => F(n)' < F(q)'
    <3>1. CASE n = c
      <4>1. ASSUME NEW q \in Below(parent', c), q # c, Waiting(q)' PROVE F(c)' < F(q)'
        <5>1. q \in Below(parent, c) /\ q \in State /\ Waiting(q) /\ F(q)' = F(q)
          BY <1>11, <1>13, <2>0, <4>1
        <5>2. status[c] \in {"OPEN", "CLOSED"} /\ g[c] \in Nat /\ H(c) \in Nat
          BY <1>1, <1>2, <4>1, <5>1, ParentExpanded
        <5>3. F(c) <= F(q)
          <6>1. status[c] = "OPEN" => F(c) < F(q)
            BY <2>0, <4>1, <5>1 DEF OrderInv
          <6>2. status[c] = "CLOSED" => F(c) <= F(q)
            BY <1>0, <1>9, <2>0, <5>1 DEF OrderInv, LateBelow
          <6>3. F(q) \in Nat /\ F(c) \in Nat
            BY <1>1, <5>1, <5>2, WaitingEntry DEF F
          <6> QED BY <5>2, <6>1, <6>2, <6>3
        <5>4. F(q) \in Nat /\ F(c) \in Nat /\ F(c)' \in Nat
          BY <1>0, <1>1, <1>13, <5>1, <5>2, WaitingEntry DEF F
        <5> QED BY <1>13, <5>1, <5>2, <5>3, <5>4
      <4> QED BY <1>9, <1>11, <3>1, <4>1
    <3>2. CASE n # c
      <4>1. status[n] = "OPEN"
        BY <1>5, <2>1, <3>2
      <4>2. x \notin Below(parent, n) /\ \A q \in Below(parent, n) : q # n /\ Waiting(q) => F(n) < F(q)
        BY <1>0, <2>0, <4>1 DEF OrderInv
      <4>3. Below(parent', n) \subseteq Below(parent, n) /\ c \notin Below(parent', n)
        BY <1>11, <3>2, <4>2
      <4> QED BY <1>13, <2>0, <3>2, <4>2, <4>3
    <3> QED BY <3>1, <3>2
  <2>2. ASSUME NEW n \in State, status'[n] = "CLOSED"
        PROVE  IF x \in Below(parent', n) THEN LateBeside(n)' ELSE LateBelow(n)'
    <3>1. n # c /\ status[n] = "CLOSED"
      BY <1>5, <1>12, <2>2
    <3>2. CASE x \in Below(parent, n)
      <4>1. LateBeside(n)
        BY <1>0, <2>0, <3>1, <3>2 DEF OrderInv
      <4>2. Below(parent, n) \subseteq Below(parent', n) /\ c \in Below(parent', n)
        BY <1>11, <3>2
      <4>3. LateBeside(n)'
        BY <1>13, <3>1, <4>1, <4>2 DEF LateBeside
      <4> QED BY <3>2, <4>2, <4>3
    <3>3. CASE x \notin Below(parent, n)
      <4>1. LateBelow(n)
        BY <1>0, <2>0, <3>1, <3>3 DEF OrderInv
      <4>2. Below(parent', n) \subseteq Below(parent, n) /\ c \notin Below(parent', n)
        BY <1>11, <3>1, <3>3
      <4>3. LateBelow(n)'
        BY <1>13, <2>0, <3>1, <4>1, <4>2 DEF LateBelow
      <4> QED BY <3>3, <4>2, <4>3
    <3> QED BY <3>2, <3>3
  <2>3. \A d \in succs' : d.from = x
    BY <1>1, <1>8
  <2> QED BY <2>1, <2>2, <2>3 DEF OrderInv
<1> QED BY <1>14, <1>15, <1>16, <1>17, <1>18 DEF PathsInv

LEMMA NextPlanInv == IInv /\ PlanInv /\ [Next]_vars => PlanInv'
<1> SUFFICES ASSUME IInv, PlanInv, [Next]_vars PROVE PlanInv'
  OBVIOUS
<1>1. CASE UNCHANGED vars
  <2>1. PathsInv' = PathsInv
    <3>1. MetricsInv' = MetricsInv /\ TreesInv' = TreesInv /\ BatchInv' = BatchInv
      BY <1>1 DEF vars, nodeVars, MetricsInv, TreesInv, Leads, BatchInv
    <3>2. ValuesInv' = ValuesInv
      BY <1>1 DEF vars, nodeVars, ValuesInv, F, H
    <3>3. OrderInv' = OrderInv
      BY <1>1 DEF vars, nodeVars, OrderInv, LateBelow, LateBeside, Waiting, F, H
    <3> QED BY <3>1, <3>2, <3>3 DEF PathsInv
  <2> QED BY <1>1, <2>1 DEF vars, nodeVars, PlanInv, Deterministic, Unpruned
<1>2. CASE TimeOut \/ ExpandGoal \/ Exhausted \/ \E e \in succs : GiveUp(e)
  <2>1. result' \in {"OUT_OF_TIME", "SOLVED", "EXHAUSTED", "OUT_OF_STATES"}
    BY <1>2 DEF TimeOut, ExpandGoal, Exhausted, GiveUp
  <2> QED BY <2>1 DEF PlanInv
<1>3. CASE \E e \in succs : PruneSuccessor(e)
  <2>1. result' = "IN_PROGRESS" /\ ~Unpruned'
    BY <1>3 DEF PruneSuccessor, Take, Prune, Unpruned
  <2> QED BY <2>1 DEF PlanInv
<1> QED
  BY <1>1, <1>2, <1>3, BeginPlanInv, SkipStalePlanInv, ExpandPlanInv, RelaxPlanInv, IgnorePlanInv
  DEF Next

\* A goal node that is expanded has only expanded nodes above it.
LEMMA PlanAtGoal ==
    ASSUME IInv, PlanInv, ExpandGoal, Deterministic, Unpruned
    PROVE  ReachesGoal(call, plan') /\ Last(plan') = goalNode'
<1>1. PICK x \in Top : /\ status[x.state] = "GOAL" /\ goalNode' = Node(x.state, g[x.state])
                       /\ plan' = ExtractTotalOrderedPlan(call, parent, g, x.state)
  BY DEF ExpandGoal
<1>2. PathsInv /\ succs = {} /\ result = "IN_PROGRESS"
  BY DEF ExpandGoal, InLoop, PlanInv
<1>3. PICK t \in State : t = x.state /\ status[t] = "GOAL" /\ g[t] \in Nat /\ t \in call.goals /\ Waiting(t)
  BY <1>1, <1>2 DEF IInv, TypeOK, Entries, NodesInv, ExploredInv, Explored, Waiting, Top
<1> DEFINE A == {a \in State : t \in Below(parent, a) /\ g[a] \in Nat}
<1>4. t \in A
  BY <1>3, BelowClosed
<1>5. ASSUME NEW s \in A
      PROVE  \/ s = Start /\ parent[s] = None
             \/ parent[s] \in A /\ Follows(call, Node(parent[s], g[parent[s]]), Node(s, g[s]))
  <2>1. CASE parent[s] \notin State
    BY <1>2, <2>1 DEF PathsInv, MetricsInv
  <2>2. CASE parent[s] \in State
    <3>1. PICK q \in State : q = parent[s] /\ g[q] \in Nat /\ status[q] \in {"OPEN", "CLOSED"}
      BY <1>2, <2>2 DEF PathsInv, TreesInv
    <3>2. t \in Below(parent, q)
      <4>1. s \in Below(parent, q)
        BY <3>1, BelowClosed
      <4> QED BY <4>1, BelowTransitive
    <3>3. status[q] = "CLOSED"
      <4> SUFFICES ASSUME status[q] = "OPEN" PROVE FALSE
        BY <3>1
      <4>1. F(q) < F(t)
        BY <1>2, <1>3, <3>2 DEF PathsInv, OrderInv
      <4>2. F(t) <= F(q)
        BY <1>2, <1>3, TopFirst DEF Waiting
      <4>3. F(t) \in Nat /\ F(q) \in Nat
        BY <1>2, <1>3, WaitingEntry DEF Waiting, F
      <4> QED BY <4>1, <4>2, <4>3
    <3>4. PICK e \in call.edges : Leads(e, s)
      BY <1>2, <2>2 DEF PathsInv, TreesInv
    <3>5. e.from = q /\ e.to = s /\ g[s] = g[q] + e.cost
      BY <1>2, <3>1, <3>3, <3>4 DEF Leads
    <3>6. Follows(call, Node(q, g[q]), Node(s, g[s]))
      BY <3>5 DEF Follows, Node, Transitions
    <3> QED BY <3>1, <3>2, <3>6
  <2> QED BY <2>1, <2>2
<1>6. g[Start] = call.metric /\ Acyclic(parent)
  BY <1>2 DEF PathsInv, MetricsInv, TreesInv
<1>7. A \in SUBSET State
  OBVIOUS
<1> HIDE DEF A
<1>8. /\ ReachesGoal(call, ExtractTotalOrderedPlan(call, parent, g, t))
      /\ Last(ExtractTotalOrderedPlan(call, parent, g, t)) = Node(t, g[t])
  BY <1>3, <1>4, <1>5, <1>6, <1>7, PlanIsPath
<1> QED BY <1>1, <1>3, <1>8

\* The plan leads from the start to a goal, at the metric of the goal node, for every
\* heuristic that is a function of the state.
THEOREM PlansReachGoal == Spec => []PlanReachesGoal
<1>1. Init => PlanInv /\ PlanReachesGoal
  BY DEF Init, PlanInv, PlanReachesGoal
<1>2. ASSUME IInv, PlanInv, PlanReachesGoal, [Next]_vars PROVE PlanReachesGoal'
  <2> SUFFICES ASSUME result' = "SOLVED", Deterministic', Unpruned'
               PROVE  ReachesGoal(call, plan)' /\ Last(plan') = goalNode'
    BY DEF PlanReachesGoal
  <2>1. call' = call /\ Unpruned /\ Deterministic
    BY <1>2 DEF Next, vars, Begin, TimeOut, SkipStale, ExpandGoal, Expand, Exhausted, GiveUp,
       PruneSuccessor, Relax, Ignore, Take, Unpruned, Deterministic
  <2>2. CASE ExpandGoal
    BY <1>2, <2>1, <2>2, PlanAtGoal
  <2>3. CASE UNCHANGED vars
    BY <1>2, <2>1, <2>3 DEF vars, PlanReachesGoal
  <2>4. ASSUME NEW h \in call.h[Start], Begin(h) PROVE ReachesGoal(call, plan') /\ Last(plan') = goalNode'
    <3>1. plan' = <<Node(Start, call.metric)>> /\ goalNode' = Node(Start, call.metric) /\ Start \in call.goals
      BY <2>4 DEF Begin, StartOutcome
    <3>2. Len(plan') = 1 /\ plan'[1] = Node(Start, call.metric) /\ 1 .. Len(plan') - 1 = {}
      BY <3>1
    <3>3. Last(plan') = Node(Start, call.metric)
      BY <3>2 DEF Last
    <3> QED BY <3>1, <3>2, <3>3 DEF ReachesGoal, Node
  <2>5. CASE TimeOut \/ SkipStale \/ Expand \/ Exhausted \/ \E e \in succs :
               GiveUp(e) \/ PruneSuccessor(e) \/ Ignore(e) \/ \E h \in call.h[e.to] : Relax(e, h)
    BY <2>5 DEF TimeOut, SkipStale, Expand, Exhausted, InLoop, GiveUp, PruneSuccessor, Ignore,
       Relax, Take
  <2> QED BY <1>2, <2>1, <2>2, <2>3, <2>4, <2>5 DEF Next
<1> QED BY <1>1, <1>2, InitIInv, NextIInv, NextPlanInv, PTL DEF Spec
=============================================================================
