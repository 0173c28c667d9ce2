--------------------------- MODULE GbfsLazyProofs ---------------------------
(***************************************************************************)
(* What lazy GBFS guarantees for every state space, heuristic, set of       *)
(* preferred actions and boost.                                             *)
(***************************************************************************)
EXTENDS GbfsLazy, FiniteSetTheorems

Entries == [h : Nat, g : Nat, step : Nat, state : State]

\* The types of what the argument is about; registered, size and plan do not matter
\* to it.
TypeOK ==
    /\ call \in Calls
    /\ status \in [State -> {"NEW", "OPEN", "CLOSED", "GOAL", "DEAD_END"}]
    /\ g \in [State -> Cost]
    /\ queue \in [1 .. 2 -> SUBSET Entries]
    /\ pos \in 1 .. 2
    /\ count \in Nat
    /\ weight \in Nat \ {0}
    /\ step \in Nat
    /\ bestH \in Cost
    /\ stateH \in Cost
    /\ succs \subseteq call.edges
    /\ result \in {"NOT_STARTED", "IN_PROGRESS", "SOLVED", "UNSOLVABLE", "EXHAUSTED",
                   "OUT_OF_TIME", "OUT_OF_STATES"}

-----------------------------------------------------------------------------
(* The order of the entries.                                                *)

\* In a queue whose entries have different steps there is a first one.
LEMMA FirstIn ==
    ASSUME NEW Q \in SUBSET Entries, Q # {},
           \A x, y \in Q : x.step = y.step => x = y
    PROVE  First(Q) \in Q
<1>1. PICK m \in {x.h : x \in Q} : \A k \in {x.h : x \in Q} : m <= k
  <2>1. {x.h : x \in Q} \in SUBSET Nat /\ {x.h : x \in Q} # {}
    BY DEF Entries
  <2> QED BY <2>1, Least
<1>2. PICK d \in {x.g : x \in {y \in Q : y.h = m}} : \A k \in {x.g : x \in {y \in Q : y.h = m}} : d <= k
  <2>1. {x.g : x \in {y \in Q : y.h = m}} \in SUBSET Nat /\ {x.g : x \in {y \in Q : y.h = m}} # {}
    BY <1>1 DEF Entries
  <2> QED BY <2>1, Least
<1> DEFINE T == {x.step : x \in {y \in Q : y.h = m /\ y.g = d}}
<1>3. PICK l \in T : \A k \in T : l <= k
  <2>1. T \in SUBSET Nat /\ T # {}
    BY <1>2 DEF Entries
  <2> QED BY <2>1, Least
<1>4. PICK x \in Q : x.h = m /\ x.g = d /\ x.step = l
  BY <1>3
<1>5. ASSUME NEW y \in Q \ {x} PROVE Before(x, y)
  <2>1. /\ x.h \in Nat /\ x.g \in Nat /\ x.step \in Nat
        /\ y.h \in Nat /\ y.g \in Nat /\ y.step \in Nat
    BY DEF Entries
  <2>2. x.h <= y.h
    BY <1>1, <1>4
  <2>3. x.h = y.h => x.g <= y.g
    BY <1>2, <1>4
  <2>4. x.h = y.h /\ x.g = y.g => x.step <= y.step
    BY <1>3, <1>4
  <2>5. x.step # y.step
    OBVIOUS
  <2> QED BY <2>1, <2>2, <2>3, <2>4, <2>5 DEF Before
<1>6. \E z \in Q : \A y \in Q \ {z} : Before(z, y)
  BY <1>5
<1> QED BY <1>6 DEF First

-----------------------------------------------------------------------------
(* The inductive invariant.                                                 *)

\* Nodes that exist have a metric, successors are those of an existing node, and
\* nothing has happened before the call begins.
NodesInv ==
    /\ \A s \in State : status[s] # "NEW" => g[s] \in Nat
    /\ \A e \in succs : status[e.from] # "NEW"
    /\ succs # {} => stateH \in Nat
    /\ result = "NOT_STARTED" =>
        /\ \A s \in State : status[s] = "NEW"
        /\ \A q \in 1 .. 2 : queue[q] = {}
        /\ succs = {}
        /\ bestH \in call.h[Start]

\* Every insertion has a step of its own, and every open node one entry.
EntriesInv ==
    /\ \A q \in 1 .. 2 : \A x \in queue[q] : x.step < step
    /\ \A q, r \in 1 .. 2 : \A x \in queue[q], y \in queue[r] :
        x.state = y.state \/ x.step = y.step => q = r /\ x = y

OpenQueued ==
    result = "IN_PROGRESS" =>
        \A s \in State : status[s] = "OPEN" <=> \E q \in 1 .. 2 : \E x \in queue[q] : x.state = s

\* What an unpruned search with a safe heuristic has seen: the successors of what it
\* has closed, and no goal.
Explored ==
    /\ status[Start] # "NEW"
    /\ \A e \in call.edges : status[e.from] = "CLOSED" => status[e.to] # "NEW" \/ e \in succs
    /\ \A s \in State : status[s] \in {"OPEN", "CLOSED"} => s \notin call.goals
    /\ \A s \in State : status[s] = "DEAD_END" => Infinity \in call.h[s]
    /\ \A s \in State : status[s] # "GOAL"

ExploredInv ==
    /\ result = "IN_PROGRESS" /\ Unpruned => Explored
    /\ result = "EXHAUSTED" /\ Unpruned => Explored /\ succs = {} /\ \A s \in State : status[s] # "OPEN"
    /\ result = "UNSOLVABLE" => ~call.staticGoal \/ Infinity \in call.h[Start]

IInv == TypeOK /\ NodesInv /\ EntriesInv /\ OpenQueued /\ ExploredInv

-----------------------------------------------------------------------------
(* Steps.                                                                   *)

LEMMA CallType ==
    ASSUME TypeOK
    PROVE  /\ call.edges \subseteq [from : State, cost : Nat, to : State]
           /\ call.h \in [State -> SUBSET Cost]
           /\ call.metric \in Nat
  BY CallsAssumption DEF TypeOK, WellFormed

\* The entry that is popped is there, and stands for an open node.
LEMMA PopsOpen ==
    ASSUME IInv, InLoop, ~Empty
    PROVE  /\ Selected \in 1 .. 2
           /\ First(queue[Selected]) \in queue[Selected]
           /\ Popped \in State
           /\ status[Popped] = "OPEN"
<1>1. pos \in 1 .. 2 /\ queue \in [1 .. 2 -> SUBSET Entries] /\ weight \in Nat /\ count \in Nat
  BY DEF IInv, TypeOK
<1>2. Selected \in 1 .. 2 /\ queue[Selected] # {}
  <2>1. CASE pos = 1
    BY <1>1, <2>1 DEF Empty, Selected, Exchange
  <2>2. CASE pos = 2
    BY <1>1, <2>2 DEF Empty, Selected, Exchange
  <2> QED BY <1>1, <2>1, <2>2
<1>3. queue[Selected] \in SUBSET Entries
  BY <1>1, <1>2
<1>4. \A x, y \in queue[Selected] : x.step = y.step => x = y
  BY <1>2 DEF IInv, EntriesInv
<1>5. First(queue[Selected]) \in queue[Selected]
  BY <1>2, <1>3, <1>4, FirstIn
<1>6. Popped \in State
  BY <1>3, <1>5 DEF Popped, Entries
<1>7. status[Popped] = "OPEN"
  BY <1>2, <1>5, <1>6 DEF IInv, OpenQueued, InLoop, Popped
<1> QED BY <1>2, <1>5, <1>6, <1>7

LEMMA InitIInv == Init => IInv
<1> SUFFICES ASSUME Init PROVE IInv
  OBVIOUS
<1>1. WellFormed(call) /\ call \in Calls
  BY CallsAssumption DEF Init
<1>2. bestH \in Cost
  BY <1>1, SpaceAssumption DEF Init, WellFormed
<1> QED
  BY <1>1, <1>2 DEF Init, IInv, TypeOK, NodesInv, EntriesInv, OpenQueued, ExploredInv, Cost

LEMMA BeginIInv == ASSUME IInv, Begin PROVE IInv'
<1>0. /\ TypeOK /\ NodesInv /\ result = "NOT_STARTED"
      /\ call.metric \in Nat /\ Start \in State
      /\ bestH \in call.h[Start] /\ bestH \in Cost
      /\ \A s \in State : status[s] = "NEW"
      /\ \A q \in 1 .. 2 : queue[q] = {}
      /\ succs = {}
  BY CallType, SpaceAssumption DEF IInv, Begin, NodesInv, TypeOK
<1>1. result' = StartOutcome /\ StartOutcome \in {"UNSOLVABLE", "SOLVED", "EXHAUSTED", "IN_PROGRESS"}
  BY DEF Begin, StartOutcome
<1>2. /\ status' = [status EXCEPT ![Start] = IF bestH = Infinity THEN "DEAD_END" ELSE "OPEN"]
      /\ g' = [g EXCEPT ![Start] = call.metric]
      /\ call' = call /\ succs' = succs /\ stateH' = stateH /\ bestH' = bestH
      /\ pos' = pos /\ count' = count /\ weight' = weight
  BY DEF Begin
<1>3. StartOutcome = "IN_PROGRESS" =>
         /\ bestH \in Nat /\ Start \notin call.goals
         /\ queue' = [queue EXCEPT ![2] = {Entry(bestH, call.metric, step, Start)}]
         /\ step' = step + 1
  BY <1>0 DEF Begin, StartOutcome, Cost
<1>4. StartOutcome # "IN_PROGRESS" => queue' = queue /\ step' = step
  BY <1>1 DEF Begin
<1>5. TypeOK'
  <2>1. queue' \in [1 .. 2 -> SUBSET Entries] /\ step' \in Nat
    <3>1. CASE StartOutcome = "IN_PROGRESS"
      <4>1. Entry(bestH, call.metric, step, Start) \in Entries
        BY <1>0, <1>3, <3>1 DEF Entry, Entries, TypeOK
      <4> QED BY <1>0, <1>3, <3>1, <4>1 DEF TypeOK
    <3>2. CASE StartOutcome # "IN_PROGRESS"
      BY <1>0, <1>4, <3>2 DEF TypeOK
    <3> QED BY <3>1, <3>2
  <2> QED BY <1>0, <1>1, <1>2, <2>1 DEF TypeOK, Cost
<1>6. NodesInv'
  BY <1>0, <1>1, <1>2 DEF NodesInv, TypeOK
<1>7. (EntriesInv /\ OpenQueued)'
  <2>1. CASE StartOutcome = "IN_PROGRESS"
    <3>1. queue'[1] = {} /\ queue'[2] = {Entry(bestH, call.metric, step, Start)}
      BY <1>0, <1>3, <2>1 DEF TypeOK
    <3>2. \A s \in State : status'[s] = "OPEN" <=> s = Start
      BY <1>0, <1>2, <1>3, <2>1, SpaceAssumption DEF TypeOK
    <3>3. PICK x : x = Entry(bestH, call.metric, step, Start)
      OBVIOUS
    <3>4. x.state = Start /\ x.step = step /\ step \in Nat /\ step' = step + 1
      BY <1>0, <1>3, <2>1, <3>3 DEF Entry, TypeOK
    <3>5. \A q \in 1 .. 2 : \A y : y \in queue'[q] <=> q = 2 /\ y = x
      BY <3>1, <3>3
    <3>6. EntriesInv'
      BY <3>4, <3>5 DEF EntriesInv
    <3>7. OpenQueued'
      BY <3>2, <3>4, <3>5 DEF OpenQueued
    <3> QED BY <3>6, <3>7
  <2>2. CASE StartOutcome # "IN_PROGRESS"
    BY <1>0, <1>1, <1>4, <2>2 DEF EntriesInv, OpenQueued
  <2> QED BY <2>1, <2>2
<1>8. ExploredInv'
  <2>1. CASE StartOutcome = "IN_PROGRESS"
    <3>1. Explored'
      BY <1>0, <1>2, <1>3, <2>1, CallType, SpaceAssumption DEF Explored, TypeOK
    <3> QED BY <1>1, <2>1, <3>1 DEF ExploredInv
  <2>2. CASE StartOutcome = "UNSOLVABLE"
    BY <1>0, <1>1, <1>2, <2>2 DEF ExploredInv, StartOutcome
  <2>3. CASE StartOutcome = "EXHAUSTED"
    BY <1>0, <1>1, <1>2, <2>3 DEF ExploredInv, StartOutcome, Unpruned
  <2>4. CASE StartOutcome = "SOLVED"
    BY <1>1, <2>4 DEF ExploredInv
  <2> QED BY <1>1, <2>1, <2>2, <2>3, <2>4
<1> QED BY <1>5, <1>6, <1>7, <1>8 DEF IInv

LEMMA StopIInv ==
    ASSUME IInv, TimeOut \/ Exhausted \/ \E e \in succs : GiveUp(e)
    PROVE  IInv'
<1>1. CASE TimeOut
  BY <1>1 DEF TimeOut, InLoop, nodeVars, openVars, outVars, IInv, TypeOK, NodesInv, EntriesInv,
     OpenQueued, ExploredInv
<1>2. ASSUME NEW e \in succs, GiveUp(e) PROVE IInv'
  BY <1>2 DEF GiveUp, Take, nodeVars, IInv, TypeOK, NodesInv, EntriesInv, OpenQueued, ExploredInv
<1>3. CASE Exhausted
  <2>1. /\ result' = "EXHAUSTED" /\ result = "IN_PROGRESS" /\ succs = {} /\ Empty
        /\ UNCHANGED <<call, nodeVars, openVars, step, bestH, stateH, succs>>
    BY <1>3 DEF Exhausted, InLoop
  <2>2. \A s \in State : status[s] # "OPEN"
    BY <2>1 DEF IInv, OpenQueued, Empty
  <2>3. Unpruned => Explored
    BY <2>1 DEF IInv, ExploredInv
  <2>4. Unpruned' = Unpruned /\ Explored' = Explored
    BY <2>1 DEF Unpruned, Explored, nodeVars
  <2>5. ExploredInv'
    BY <2>1, <2>2, <2>3, <2>4 DEF ExploredInv, nodeVars
  <2>6. (TypeOK /\ NodesInv /\ EntriesInv /\ OpenQueued)'
    BY <2>1 DEF IInv, TypeOK, NodesInv, EntriesInv, OpenQueued, nodeVars, openVars
  <2> QED BY <2>5, <2>6 DEF IInv
<1> QED BY <1>1, <1>2, <1>3

\* What popping does to the entries and to the state of the alternation.
LEMMA PopKeeps ==
    ASSUME IInv, Pop
    PROVE  /\ queue' \in [1 .. 2 -> SUBSET Entries]
           /\ pos' \in 1 .. 2 /\ count' \in Nat
           /\ \A q \in 1 .. 2 : queue'[q] \subseteq queue[q]
           /\ \A s \in State : (\E q \in 1 .. 2 : \E x \in queue'[q] : x.state = s)
                                 <=> s # Popped /\ \E q \in 1 .. 2 : \E x \in queue[q] : x.state = s
<1>1. /\ Selected \in 1 .. 2 /\ First(queue[Selected]) \in queue[Selected]
  BY PopsOpen DEF Pop
<1>2. PICK q : q = Selected
  OBVIOUS
<1>3. PICK x : x = First(queue[q])
  OBVIOUS
<1>4. q \in 1 .. 2 /\ x \in queue[q] /\ Popped = x.state
  BY <1>1, <1>2, <1>3 DEF Popped
<1>5. queue \in [1 .. 2 -> SUBSET Entries] /\ count \in Nat
  BY DEF IInv, TypeOK
<1>6. queue' = [queue EXCEPT ![q] = @ \ {x}] /\ pos' = q /\ count' \in Nat
  BY <1>2, <1>3, <1>5 DEF Pop
<1>7. \A r \in 1 .. 2 : \A y : y \in queue'[r] <=> y \in queue[r] /\ ~(r = q /\ y = x)
  BY <1>4, <1>5, <1>6
<1>8. \A r \in 1 .. 2 : \A y \in queue[r] : y.state = x.state <=> r = q /\ y = x
  BY <1>4 DEF IInv, EntriesInv
<1>9. queue' \in [1 .. 2 -> SUBSET Entries] /\ \A r \in 1 .. 2 : queue'[r] \subseteq queue[r]
  BY <1>4, <1>5, <1>6
<1> QED BY <1>4, <1>6, <1>7, <1>8, <1>9

LEMMA DecayedType == ASSUME TypeOK PROVE Decayed \in Nat \ {0} /\ Decayed + Boost \in Nat \ {0}
  BY CallsAssumption DEF TypeOK, Decayed

LEMMA DropIInv ==
    ASSUME IInv, InLoop, ~Empty, NEW h \in call.h[Popped], Drop(h)
    PROVE  IInv'
<1>1. /\ Pop /\ h = Infinity /\ Popped \in State /\ status[Popped] = "OPEN"
      /\ status' = [status EXCEPT ![Popped] = "DEAD_END"]
  BY PopsOpen DEF Drop
<1>2. PICK p : p = Popped
  OBVIOUS
<1>3. /\ UNCHANGED <<call, g, parent, step, bestH, stateH, succs, result>> /\ weight' = Decayed
      /\ result = "IN_PROGRESS"
  BY DEF Drop, InLoop
<1>4. TypeOK'
  BY <1>1, <1>3, PopKeeps, DecayedType DEF IInv, TypeOK
<1>5. \A s \in State : status'[s] = IF s = p THEN "DEAD_END" ELSE status[s]
  BY <1>1, <1>2 DEF IInv, TypeOK
<1>6. NodesInv'
  BY <1>1, <1>2, <1>3, <1>5, CallType DEF IInv, TypeOK, NodesInv
<1>7. EntriesInv'
  BY <1>1, <1>3, PopKeeps DEF IInv, EntriesInv
<1>8. OpenQueued'
  BY <1>1, <1>2, <1>3, <1>5, PopKeeps DEF IInv, OpenQueued
<1>9. Infinity \in call.h[p] /\ status[p] = "OPEN"
  BY <1>1, <1>2
<1>10. ExploredInv'
  <2> SUFFICES ASSUME Unpruned PROVE Explored'
    BY <1>3 DEF ExploredInv, Unpruned
  <2>1. Explored
    BY <1>3 DEF IInv, ExploredInv
  <2>2. \A e \in call.edges : e.from \in State /\ e.to \in State
    BY CallType DEF IInv
  <2>3. \A e \in call.edges : status'[e.from] = "CLOSED" => status'[e.to] # "NEW" \/ e \in succs
    BY <1>5, <1>9, <2>1, <2>2 DEF Explored
  <2>4. \A s \in State : status'[s] \in {"OPEN", "CLOSED"} => s \notin call.goals
    BY <1>5, <2>1 DEF Explored
  <2>5. \A s \in State : status'[s] = "DEAD_END" => Infinity \in call.h[s]
    BY <1>5, <1>9, <2>1 DEF Explored
  <2>6. status'[Start] # "NEW" /\ \A s \in State : status'[s] # "GOAL"
    BY <1>5, <2>1, SpaceAssumption DEF Explored
  <2> QED BY <1>3, <2>3, <2>4, <2>5, <2>6 DEF Explored
<1> QED BY <1>4, <1>6, <1>7, <1>8, <1>10 DEF IInv

LEMMA ExpandIInv ==
    ASSUME IInv, InLoop, ~Empty, NEW h \in call.h[Popped], Expand(h)
    PROVE  IInv'
<1>1. /\ Pop /\ h # Infinity /\ Popped \in State /\ status[Popped] = "OPEN"
      /\ status' = [status EXCEPT ![Popped] = "CLOSED"]
      /\ succs' = Transitions(call, Popped)
  BY PopsOpen DEF Expand
<1>2. PICK p : p = Popped
  OBVIOUS
<1>3. /\ UNCHANGED <<call, g, parent, step, result>>
      /\ result = "IN_PROGRESS" /\ succs = {}
      /\ stateH' = h /\ bestH' \in {h, bestH} /\ weight' \in {Decayed, Decayed + Boost}
  BY DEF Expand, InLoop
<1>4. h \in Nat /\ bestH' \in Cost
  BY <1>1, <1>3, CallType DEF IInv, TypeOK, Cost
<1>5. \A s \in State : status'[s] = IF s = p THEN "CLOSED" ELSE status[s]
  BY <1>1, <1>2 DEF IInv, TypeOK
<1>6. \A e : e \in succs' <=> e \in call.edges /\ e.from = p
  BY <1>1, <1>2 DEF Transitions
<1>7. TypeOK'
  <2>1. weight' \in Nat \ {0}
    BY <1>3, DecayedType DEF IInv
  <2>2. succs' \subseteq call'.edges /\ stateH' \in Cost
    BY <1>3, <1>4, <1>6 DEF Cost
  <2> QED BY <1>1, <1>3, <1>4, <2>1, <2>2, PopKeeps DEF IInv, TypeOK
<1>8. NodesInv'
  BY <1>1, <1>2, <1>3, <1>4, <1>5, <1>6 DEF IInv, NodesInv
<1>9. EntriesInv'
  BY <1>1, <1>3, PopKeeps DEF IInv, EntriesInv
<1>10. OpenQueued'
  BY <1>1, <1>2, <1>3, <1>5, PopKeeps DEF IInv, OpenQueued
<1>11. ExploredInv'
  <2> SUFFICES ASSUME Unpruned PROVE Explored'
    BY <1>3 DEF ExploredInv, Unpruned
  <2>1. Explored /\ p \in State /\ status[p] = "OPEN"
    BY <1>1, <1>2, <1>3 DEF IInv, ExploredInv
  <2>2. \A e \in call.edges : e.from \in State /\ e.to \in State
    BY CallType DEF IInv
  <2>3. \A e \in call.edges : status'[e.from] = "CLOSED" => status'[e.to] # "NEW" \/ e \in succs'
    BY <1>3, <1>5, <1>6, <2>1, <2>2 DEF Explored
  <2>4. \A s \in State : status'[s] \in {"OPEN", "CLOSED"} => s \notin call.goals
    BY <1>5, <2>1 DEF Explored
  <2>5. \A s \in State : status'[s] = "DEAD_END" => Infinity \in call.h[s]
    BY <1>5, <2>1 DEF Explored
  <2>6. status'[Start] # "NEW" /\ \A s \in State : status'[s] # "GOAL"
    BY <1>5, <2>1, SpaceAssumption DEF Explored
  <2> QED BY <1>3, <2>3, <2>4, <2>5, <2>6 DEF Explored
<1> QED BY <1>7, <1>8, <1>9, <1>10, <1>11 DEF IInv

-----------------------------------------------------------------------------
(* The successors.                                                          *)

LEMMA SkipIInv == ASSUME IInv, NEW e \in succs, Skip(e) PROVE IInv'
<1>1. /\ UNCHANGED <<call, nodeVars, queue, step, pos, count, weight, bestH, stateH, result>>
      /\ succs' = succs \ {e} /\ result = "IN_PROGRESS"
      /\ status[e.to] # "NEW"
  BY DEF Skip, Take, IsNew
<1>2. (TypeOK /\ NodesInv /\ EntriesInv /\ OpenQueued)'
  BY <1>1 DEF IInv, TypeOK, NodesInv, EntriesInv, OpenQueued, nodeVars
<1>3. ExploredInv'
  <2> SUFFICES ASSUME Unpruned PROVE Explored'
    BY <1>1 DEF ExploredInv, Unpruned
  <2> QED BY <1>1 DEF IInv, ExploredInv, Explored, nodeVars
<1> QED BY <1>2, <1>3 DEF IInv

\* A new node: how it changes the statuses and metrics.
LEMMA ReachKeeps ==
    ASSUME IInv, NEW e \in succs, NEW st \in {"OPEN", "CLOSED", "GOAL"}, Reach(e, st)
    PROVE  /\ e.to \in State /\ e.from \in State /\ e \in call.edges /\ status[e.to] = "NEW"
           /\ g[e.from] + e.cost \in Nat
           /\ status' \in [State -> {"NEW", "OPEN", "CLOSED", "GOAL", "DEAD_END"}]
           /\ \A s \in State : status'[s] = IF s = e.to THEN st ELSE status[s]
           /\ g' \in [State -> Cost]
           /\ \A s \in State : g'[s] = IF s = e.to THEN g[e.from] + e.cost ELSE g[s]
           /\ succs' = succs \ {e}
           /\ UNCHANGED <<call, pos, count, weight, bestH, stateH>>
           /\ result = "IN_PROGRESS"
           /\ stateH \in Nat
           /\ e.to # Start \/ ~Unpruned
<1>1. /\ e \in call.edges /\ status \in [State -> {"NEW", "OPEN", "CLOSED", "GOAL", "DEAD_END"}]
      /\ g \in [State -> Cost] /\ status[e.from] # "NEW" /\ stateH \in Nat
  BY DEF IInv, TypeOK, NodesInv
<1>2. e.to \in State /\ e.from \in State /\ e.cost \in Nat
  BY <1>1, CallType DEF IInv
<1>3. g[e.from] \in Nat
  BY <1>1, <1>2 DEF IInv, NodesInv
<1>4. /\ status[e.to] = "NEW" /\ result = "IN_PROGRESS" /\ succs' = succs \ {e}
      /\ status' = [status EXCEPT ![e.to] = st]
      /\ g' = [g EXCEPT ![e.to] = g[e.from] + e.cost]
      /\ UNCHANGED <<call, pos, count, weight, bestH, stateH>>
  BY DEF Reach, Take, IsNew
<1>5. g[e.from] + e.cost \in Nat /\ g[e.from] + e.cost \in Cost
  BY <1>2, <1>3 DEF Cost
<1>6. g' \in [State -> Cost] /\ status' \in [State -> {"NEW", "OPEN", "CLOSED", "GOAL", "DEAD_END"}]
  BY <1>1, <1>2, <1>4, <1>5
<1>7. e.to # Start \/ ~Unpruned
  BY <1>4 DEF IInv, ExploredInv, Explored
<1> QED BY <1>1, <1>2, <1>4, <1>5, <1>6, <1>7

LEMMA ReachGoalIInv == ASSUME IInv, NEW e \in succs, ReachGoal(e) PROVE IInv'
<1>1. Reach(e, "GOAL") /\ result' = "SOLVED" /\ queue' = queue /\ step' = step
  BY DEF ReachGoal
<1>2. TypeOK'
  BY <1>1, ReachKeeps DEF IInv, TypeOK
<1>3. NodesInv'
  BY <1>1, ReachKeeps, CallType DEF IInv, NodesInv, TypeOK
<1>4. EntriesInv'
  BY <1>1 DEF IInv, EntriesInv
<1>5. OpenQueued' /\ ExploredInv'
  BY <1>1 DEF OpenQueued, ExploredInv
<1> QED BY <1>2, <1>3, <1>4, <1>5 DEF IInv

LEMMA PruneSuccessorIInv == ASSUME IInv, NEW e \in succs, PruneSuccessor(e) PROVE IInv'
<1>1. /\ Reach(e, "CLOSED") /\ queue' = queue /\ step' = step /\ result' = result
      /\ ~Unpruned /\ call' = call
  BY ReachKeeps DEF PruneSuccessor, Unpruned
<1>2. TypeOK'
  BY <1>1, ReachKeeps DEF IInv, TypeOK
<1>3. NodesInv'
  BY <1>1, ReachKeeps, CallType DEF IInv, NodesInv, TypeOK
<1>4. EntriesInv'
  BY <1>1 DEF IInv, EntriesInv
<1>5. OpenQueued'
  BY <1>1, ReachKeeps DEF IInv, OpenQueued
<1>6. ExploredInv'
  BY <1>1, ReachKeeps DEF IInv, ExploredInv, Unpruned
<1> QED BY <1>2, <1>3, <1>4, <1>5, <1>6 DEF IInv

LEMMA InsertIInv == ASSUME IInv, NEW e \in succs, Insert(e) PROVE IInv'
<1>1. PICK q \in 1 .. 2 : q = IF e \in call.preferred THEN 1 ELSE 2
  OBVIOUS
<1>2. PICK x : x = Entry(stateH, g[e.from] + e.cost, step, e.to)
  OBVIOUS
<1>3. /\ Reach(e, "OPEN") /\ e.to \notin call.goals /\ result' = result /\ step' = step + 1
      /\ queue' = [queue EXCEPT ![q] = @ \cup {x}]
  BY <1>1, <1>2 DEF Insert
<1>4. /\ queue \in [1 .. 2 -> SUBSET Entries] /\ step \in Nat /\ succs \subseteq call.edges
      /\ x.state = e.to /\ x.step = step /\ x \in Entries
  BY <1>2, <1>3, ReachKeeps DEF IInv, TypeOK, Entry, Entries
<1>5. /\ queue' \in [1 .. 2 -> SUBSET Entries]
      /\ \A r \in 1 .. 2 : \A y : y \in queue'[r] <=> y \in queue[r] \/ (r = q /\ y = x)
  BY <1>3, <1>4
<1>6. TypeOK'
  BY <1>3, <1>4, <1>5, ReachKeeps DEF IInv, TypeOK
<1>7. NodesInv'
  BY <1>3, <1>4, ReachKeeps, CallType DEF IInv, NodesInv
<1>8. \A r \in 1 .. 2 : \A y \in queue[r] : y.state # e.to /\ y.step < step /\ y.step \in Nat
  <2>1. \A r \in 1 .. 2 : \A y \in queue[r] : y.state \in State /\ y.step \in Nat
    BY <1>4 DEF Entries
  <2> QED BY <1>3, <2>1, ReachKeeps DEF IInv, OpenQueued, EntriesInv
<1>9. EntriesInv'
  BY <1>3, <1>4, <1>5, <1>8 DEF IInv, EntriesInv
<1>10. OpenQueued'
  BY <1>3, <1>4, <1>5, ReachKeeps DEF IInv, OpenQueued
<1>11. ExploredInv'
  <2> SUFFICES ASSUME Unpruned PROVE Explored'
    BY <1>3, ReachKeeps DEF ExploredInv, Unpruned
  <2>1. Explored
    BY <1>3, ReachKeeps DEF IInv, ExploredInv
  <2>2. \A d \in call.edges : d.from \in State /\ d.to \in State
    BY CallType DEF IInv
  <2>3. call' = call /\ succs' = succs \ {e}
        /\ \A s \in State : status'[s] = IF s = e.to THEN "OPEN" ELSE status[s]
    BY <1>3, ReachKeeps
  <2>4. status[e.to] = "NEW"
    BY <1>3, ReachKeeps
  <2>5. \A d \in call.edges : status'[d.from] = "CLOSED" => status'[d.to] # "NEW" \/ d \in succs'
    BY <2>1, <2>2, <2>3 DEF Explored
  <2>6. \A s \in State : status'[s] \in {"OPEN", "CLOSED"} => s \notin call.goals
    BY <1>3, <2>1, <2>3 DEF Explored
  <2>7. \A s \in State : status'[s] = "DEAD_END" => Infinity \in call.h[s]
    BY <2>1, <2>3 DEF Explored
  <2>8. status'[Start] # "NEW" /\ \A s \in State : status'[s] # "GOAL"
    BY <2>1, <2>3, SpaceAssumption DEF Explored
  <2> QED BY <2>3, <2>5, <2>6, <2>7, <2>8 DEF Explored
<1> QED BY <1>6, <1>7, <1>9, <1>10, <1>11 DEF IInv

LEMMA NextIInv == IInv /\ [Next]_vars => IInv'
<1> SUFFICES ASSUME IInv, [Next]_vars PROVE IInv'
  OBVIOUS
<1>1. CASE UNCHANGED vars
  BY <1>1 DEF vars, nodeVars, openVars, IInv, TypeOK, NodesInv, EntriesInv, OpenQueued,
     ExploredInv, Explored, Unpruned
<1>2. CASE Next
  BY <1>2, BeginIInv, StopIInv, DropIInv, ExpandIInv, SkipIInv, ReachGoalIInv,
     PruneSuccessorIInv, InsertIInv DEF Next
<1> QED BY <1>1, <1>2

LEMMA Invariance == Spec => []IInv
  BY InitIInv, NextIInv, PTL DEF Spec

-----------------------------------------------------------------------------

\* Every open node waits in exactly one of the two queues, once, and nothing else
\* does: the alternation of the preferred and the standard queue (top, pop and insert
\* of AlternatingOpenList) neither loses a node nor lets it be expanded twice.
THEOREM QueuesRight == Spec => []QueuesPartition
<1>1. IInv => QueuesPartition
  <2> SUFFICES ASSUME IInv, result = "IN_PROGRESS"
               PROVE  {s \in State : status[s] = "OPEN"} = {x.state : x \in queue[1] \cup queue[2]}
    BY DEF QueuesPartition, IInv, EntriesInv
  <2>1. \A x \in queue[1] \cup queue[2] : x.state \in State
    BY DEF IInv, TypeOK, Entries
  <2>2. \A s \in State : status[s] = "OPEN" <=> \E x \in queue[1] \cup queue[2] : x.state = s
    BY DEF IInv, OpenQueued
  <2> QED BY <2>1, <2>2
<1> QED BY <1>1, Invariance, PTL

\* An unpruned search with a safe heuristic that ends with empty queues, or at the
\* start node, has not missed a plan.
THEOREM Complete == Spec => []ExhaustedUnsolvable
<1>1. IInv => ExhaustedUnsolvable
  <2> SUFFICES ASSUME IInv, result \in {"EXHAUSTED", "UNSOLVABLE"}, Unpruned, Safe(call)
               PROVE  ~Solvable(call)
    BY DEF ExhaustedUnsolvable
  <2>1. WellFormed(call) /\ Start \in State
    BY CallsAssumption, SpaceAssumption DEF IInv, TypeOK
  <2>2. \A s \in State : Infinity \in call.h[s] => s \in Hopeless(call)
    BY DEF Safe, Hopeless
  <2>3. CASE result = "UNSOLVABLE"
    BY <2>1, <2>2, <2>3, UnsolvableFrom DEF IInv, ExploredInv, Solvable, Hopeless
  <2>4. CASE result = "EXHAUSTED"
    <3> DEFINE C == {s \in State : status[s] = "CLOSED"}
    <3>1. /\ Explored /\ succs = {} /\ \A s \in State : status[s] # "OPEN"
          /\ status \in [State -> {"NEW", "OPEN", "CLOSED", "GOAL", "DEAD_END"}]
      BY <2>4 DEF IInv, ExploredInv, TypeOK
    <3>2. \A s \in State : status[s] # "NEW" => s \in C \cup Hopeless(call)
      BY <2>2, <3>1 DEF Explored
    <3>3. C \cap call.goals = {} /\ Start \in C \cup Hopeless(call)
      BY <2>1, <3>1, <3>2 DEF Explored
    <3>4. \A e \in call.edges : e.from \in C => e.to \in C \cup Hopeless(call)
      <4>1. \A e \in call.edges : e.to \in State
        BY <2>1 DEF WellFormed
      <4> QED BY <3>1, <3>2, <4>1 DEF Explored
    <3>5. C \in SUBSET State
      OBVIOUS
    <3> HIDE DEF C
    <3> QED BY <2>1, <3>3, <3>4, <3>5, UnsolvableFrom
  <2> QED BY <2>3, <2>4
<1> QED BY <1>1, Invariance, PTL

-----------------------------------------------------------------------------
(* Plans.                                                                   *)

\* Every node but the start follows its parent, and no parent pointer changes once set.
PathsInv ==
    /\ parent \in [State -> State \cup {None}] /\ Acyclic(parent)
    /\ parent[Start] = None /\ g[Start] = call.metric /\ status[Start] # "NEW"
    /\ \A s \in State : status[s] = "NEW" => parent[s] = None
    /\ \A s \in State : status[s] # "NEW" /\ s # Start =>
        /\ parent[s] \in State /\ status[parent[s]] # "NEW"
        /\ Follows(call, Node(parent[s], g[parent[s]]), Node(s, g[s]))

PlanInv ==
    /\ result = "NOT_STARTED" => parent = [s \in State |-> None]
    /\ result = "IN_PROGRESS" => PathsInv

LEMMA BeginPlanInv == ASSUME IInv, PlanInv, Begin PROVE PlanInv'
<1>0. /\ Start \in State /\ None \notin State
      /\ \A s \in State : status[s] = "NEW"
      /\ parent = [s \in State |-> None]
  BY SpaceAssumption DEF IInv, Begin, NodesInv, PlanInv
<1>1. result' # "NOT_STARTED"
  BY DEF Begin, StartOutcome
<1>2. /\ call' = call /\ parent' = parent /\ g'[Start] = call.metric
      /\ status'[Start] # "NEW" /\ \A s \in State : s # Start => status'[s] = "NEW"
  BY <1>0 DEF Begin, IInv, TypeOK
<1>3. \A s \in State : parent'[s] = None
  BY <1>0, <1>2
<1>4. \A n \in State : Below(parent', n) = {n}
  BY <1>0, <1>3, BelowLeaf
<1>5. Acyclic(parent')
  BY <1>0, <1>3, <1>4 DEF Acyclic
<1>6. parent' \in [State -> State \cup {None}]
  BY <1>0, <1>2
<1>7. PathsInv'
  BY <1>0, <1>2, <1>3, <1>5, <1>6 DEF PathsInv
<1> QED BY <1>1, <1>7 DEF PlanInv

\* The steps that leave what is known of the nodes and their parents alone.
LEMMA SameNodes ==
    ASSUME PathsInv, UNCHANGED <<call, g, parent>>,
           \A s \in State : status'[s] = "NEW" <=> status[s] = "NEW"
    PROVE  PathsInv'
<1>1. /\ parent' \in [State -> State \cup {None}] /\ Acyclic(parent')
      /\ parent'[Start] = None /\ g'[Start] = call'.metric /\ status'[Start] # "NEW"
  BY SpaceAssumption DEF PathsInv
<1>2. ASSUME NEW s \in State, status'[s] # "NEW", s # Start
      PROVE  /\ parent'[s] \in State /\ status'[parent'[s]] # "NEW"
             /\ Follows(call', Node(parent'[s], g'[parent'[s]]), Node(s, g'[s]))
  BY <1>2 DEF PathsInv
<1>3. \A s \in State : status'[s] = "NEW" => parent'[s] = None
  BY DEF PathsInv
<1> QED BY <1>1, <1>2, <1>3 DEF PathsInv

\* A new node has no children, so it can become one of any node that exists.
LEMMA ReachPaths ==
    ASSUME IInv, PathsInv, NEW e \in succs, NEW st \in {"OPEN", "CLOSED", "GOAL"}, Reach(e, st)
    PROVE  PathsInv'
<1>1. PICK c \in State, x \in State : c = e.to /\ x = e.from /\ e \in call.edges
  BY ReachKeeps
<1>2. /\ status[c] = "NEW" /\ status[x] # "NEW" /\ x # c
      /\ \A s \in State : status'[s] = IF s = c THEN st ELSE status[s]
      /\ \A s \in State : g'[s] = IF s = c THEN g[x] + e.cost ELSE g[s]
      /\ call' = call
  BY <1>1, ReachKeeps DEF IInv, NodesInv
<1>3. parent \in [State -> State \cup {None}] /\ parent' = [parent EXCEPT ![c] = x]
  BY <1>1 DEF PathsInv, Reach
<1>4. \A s \in State : parent'[s] = IF s = c THEN x ELSE parent[s]
  BY <1>3
<1>5. \A s \in State : parent[s] # c
  <2> SUFFICES ASSUME NEW s \in State, parent[s] = c PROVE FALSE
    OBVIOUS
  <2>1. parent[s] # None
    BY SpaceAssumption
  <2>2. s # Start /\ status[s] # "NEW"
    BY <2>1 DEF PathsInv
  <2> QED BY <1>2, <2>2 DEF PathsInv
<1>6. Acyclic(parent')
  <2>1. x \notin Below(parent, c)
    BY <1>2, <1>5, BelowLeaf
  <2>2. Reparented(parent, parent', c, x)
    BY <1>4 DEF Reparented
  <2>3. Acyclic(parent)
    BY DEF PathsInv
  <2> QED BY <2>1, <2>2, <2>3, Reparent
<1>7. parent' \in [State -> State \cup {None}]
  BY <1>3
<1>8. c # Start /\ st # "NEW"
  BY <1>2 DEF PathsInv
<1>9. ASSUME NEW s \in State, status'[s] # "NEW", s # Start
      PROVE  /\ parent'[s] \in State /\ status'[parent'[s]] # "NEW"
             /\ Follows(call, Node(parent'[s], g'[parent'[s]]), Node(s, g'[s]))
  <2>1. CASE s = c
    <3>1. parent'[s] = x /\ g'[x] = g[x] /\ g'[s] = g[x] + e.cost /\ status'[x] # "NEW"
      BY <1>2, <1>4, <2>1
    <3>2. Follows(call, Node(x, g[x]), Node(c, g[x] + e.cost))
      BY <1>1 DEF Follows, Node, Transitions
    <3> QED BY <2>1, <3>1, <3>2
  <2>2. CASE s # c
    <3>1. PICK q \in State : /\ q = parent[s] /\ status[q] # "NEW"
                             /\ Follows(call, Node(q, g[q]), Node(s, g[s]))
      BY <1>2, <1>9, <2>2 DEF PathsInv
    <3> QED BY <1>2, <1>4, <2>2, <3>1
  <2> QED BY <2>1, <2>2
<1>10. \A s \in State : status'[s] = "NEW" => parent'[s] = None
  BY <1>2, <1>4, <1>8 DEF PathsInv
<1>11. parent'[Start] = None /\ g'[Start] = call.metric /\ status'[Start] # "NEW"
  BY <1>2, <1>4, <1>8, SpaceAssumption DEF PathsInv
<1> QED BY <1>2, <1>6, <1>7, <1>9, <1>10, <1>11 DEF PathsInv

LEMMA NextPlanInv == IInv /\ PlanInv /\ [Next]_vars => PlanInv'
<1> SUFFICES ASSUME IInv, PlanInv, [Next]_vars PROVE PlanInv'
  OBVIOUS
<1>1. CASE UNCHANGED vars
  BY <1>1, SameNodes DEF vars, nodeVars, PlanInv
<1>2. CASE TimeOut \/ Exhausted \/ \E e \in succs : GiveUp(e) \/ ReachGoal(e)
  <2>1. result' \in {"OUT_OF_TIME", "SOLVED", "EXHAUSTED", "OUT_OF_STATES"}
    BY <1>2 DEF TimeOut, Exhausted, GiveUp, ReachGoal
  <2> QED BY <2>1 DEF PlanInv
<1>3. ASSUME InLoop, ~Empty, NEW h \in call.h[Popped], Drop(h) \/ Expand(h) PROVE PlanInv'
  <2>1. /\ UNCHANGED <<call, g, parent, result>> /\ result = "IN_PROGRESS"
        /\ Popped \in State /\ status[Popped] = "OPEN"
        /\ status' \in {status, [status EXCEPT ![Popped] = "DEAD_END"], [status EXCEPT ![Popped] = "CLOSED"]}
    BY <1>3, PopsOpen DEF Drop, Expand, InLoop
  <2>2. \A s \in State : status'[s] = "NEW" <=> status[s] = "NEW"
    BY <2>1 DEF IInv, TypeOK
  <2> QED BY <2>1, <2>2, SameNodes DEF PlanInv
<1>4. ASSUME NEW e \in succs, Skip(e) PROVE PlanInv'
  <2>1. UNCHANGED <<call, status, g, parent, result>>
    BY <1>4 DEF Skip, Take, nodeVars
  <2> QED BY <2>1, SameNodes DEF PlanInv
<1>5. ASSUME NEW e \in succs, PruneSuccessor(e) \/ Insert(e) PROVE PlanInv'
  <2>1. (Reach(e, "CLOSED") \/ Reach(e, "OPEN")) /\ result' = result /\ result = "IN_PROGRESS"
    BY <1>5 DEF PruneSuccessor, Insert, Reach, Take
  <2> QED BY <2>1, ReachPaths DEF PlanInv
<1> QED BY <1>1, <1>2, <1>3, <1>4, <1>5, BeginPlanInv DEF Next

\* The plan of a solved search leads from the start to the goal node with the metrics of
\* its nodes, for every heuristic and pruning: parents never change.
THEOREM PlansReachGoal == Spec => []PlanReachesGoal
<1>1. Init => PlanInv /\ PlanReachesGoal
  BY DEF Init, PlanInv, PlanReachesGoal
<1>2. ASSUME IInv, PlanInv, PlanReachesGoal, [Next]_vars PROVE PlanReachesGoal'
  <2> SUFFICES ASSUME result' = "SOLVED" PROVE ReachesGoal(call, plan)' /\ Last(plan') = goalNode'
    BY DEF PlanReachesGoal
  <2>1. CASE UNCHANGED vars
    BY <1>2, <2>1 DEF vars, outVars, PlanReachesGoal
  <2>2. CASE Begin
    <3>1. /\ plan' = <<Node(Start, call.metric)>> /\ goalNode' = Node(Start, call.metric)
          /\ Start \in call.goals /\ call' = call
      BY <2>2 DEF Begin, StartOutcome
    <3>2. Len(plan') = 1 /\ plan'[1] = Node(Start, call.metric) /\ 1 .. Len(plan') - 1 = {}
      BY <3>1
    <3>3. Last(plan') = Node(Start, call.metric)
      BY <3>2 DEF Last
    <3> QED BY <3>1, <3>2, <3>3 DEF ReachesGoal, Node
  <2>3. ASSUME NEW e \in succs, ReachGoal(e) PROVE ReachesGoal(call, plan)' /\ Last(plan') = goalNode'
    <3>1. /\ Reach(e, "GOAL") /\ result = "IN_PROGRESS" /\ call' = call /\ e.to \in call.goals
          /\ plan' = ExtractTotalOrderedPlan(call, parent', g', e.to)
          /\ goalNode' = Node(e.to, g[e.from] + e.cost)
      BY <2>3 DEF ReachGoal, Reach, Take
    <3>2. PathsInv'
      BY <1>2, <3>1, ReachPaths DEF PlanInv
    <3>3. e.to \in State /\ status'[e.to] # "NEW" /\ g'[e.to] = g[e.from] + e.cost
      BY <1>2, <3>1, ReachKeeps
    <3> DEFINE A == {s \in State : status'[s] # "NEW"}
    <3>4. \A s \in A : \/ s = Start /\ parent'[s] = None
                       \/ /\ parent'[s] \in A
                          /\ Follows(call, Node(parent'[s], g'[parent'[s]]), Node(s, g'[s]))
      BY <3>1, <3>2 DEF PathsInv
    <3>5. A \in SUBSET State /\ e.to \in A
      BY <3>3
    <3>6. Acyclic(parent') /\ g'[Start] = call.metric
      BY <3>1, <3>2 DEF PathsInv
    <3> HIDE DEF A
    <3>7. /\ ReachesGoal(call, ExtractTotalOrderedPlan(call, parent', g', e.to))
          /\ Last(ExtractTotalOrderedPlan(call, parent', g', e.to)) = Node(e.to, g'[e.to])
      BY <3>1, <3>4, <3>5, <3>6, PlanIsPath
    <3> QED BY <3>1, <3>3, <3>7
  <2>4. CASE TimeOut \/ Exhausted \/ (\E e \in succs : GiveUp(e) \/ Skip(e) \/ PruneSuccessor(e) \/ Insert(e))
             \/ (InLoop /\ ~Empty /\ \E h \in call.h[Popped] : Drop(h) \/ Expand(h))
    BY <2>4 DEF TimeOut, Exhausted, InLoop, GiveUp, Skip, PruneSuccessor, Insert, Reach, Take, Drop, Expand
  <2> QED BY <1>2, <2>1, <2>2, <2>3, <2>4 DEF Next
<1> QED BY <1>1, <1>2, InitIInv, NextIInv, NextPlanInv, PTL DEF Spec

-----------------------------------------------------------------------------
(* The alternation of the two queues.                                       *)

\* The pops counted for the preferred queue exceed its weight by at most the decay of
\* one pop.
LEMMA ShareStep ==
    ASSUME NEW c \in Nat, NEW v \in Nat, NEW w \in Nat, c < v, v <= w + 1
    PROVE  c + 1 <= w + 1
  OBVIOUS

\* Waiting nodes are distinct states, so the queues are finite and no longer than State.
LEMMA QueueSize ==
    ASSUME IInv, NEW q \in 1 .. 2, NEW S \in SUBSET State,
           \A x \in queue[q] : x.state \in S
    PROVE  /\ IsFiniteSet(queue[q]) /\ Cardinality(queue[q]) \in Nat
           /\ Cardinality(queue[q]) <= Cardinality(S)
<1> DEFINE f == [x \in queue[q] |-> x.state]
<1>1. IsFiniteSet(S)
  BY SpaceAssumption, FS_Subset
<1>2. f \in Injection(queue[q], S)
  <2>1. f \in [queue[q] -> S]
    OBVIOUS
  <2>2. \A x, y \in queue[q] : f[x] = f[y] => x = y
    BY DEF IInv, EntriesInv
  <2> QED BY <2>1, <2>2 DEF Injection, IsInjective
<1>3. IsFiniteSet(queue[q]) /\ Cardinality(queue[q]) <= Cardinality(S)
  BY <1>1, <1>2, FS_Injection
<1> QED BY <1>3, FS_CardinalityType

\* What inserting an entry of a new state does to the sizes.
LEMMA InsertSizes ==
    ASSUME IInv, NEW q \in 1 .. 2, NEW x, NEW s \in State, queue' = [queue EXCEPT ![q] = @ \cup {x}],
           \A y \in queue[q] : y.state # s, x \notin queue[q],
           UNCHANGED <<pos, count, weight, bestH>>
    PROVE  OpenList!Insert(q)
<1>1. queue \in [1 .. 2 -> SUBSET Entries]
  BY DEF IInv, TypeOK
<1>2. \A y \in queue[q] : y.state \in State \ {s}
  BY <1>1 DEF Entries
<1>3. /\ IsFiniteSet(queue[q]) /\ Cardinality(queue[q]) \in Nat
      /\ Cardinality(queue[q]) <= Cardinality(State \ {s})
  BY <1>2, QueueSize
<1>4. Cardinality(State \ {s}) = Cardinality(State) - 1 /\ Cardinality(State) \in Nat
  BY SpaceAssumption, FS_RemoveElement, FS_CardinalityType
<1>5. Cardinality(queue[q] \cup {x}) = Cardinality(queue[q]) + 1
  BY <1>3, FS_AddElement
<1>6. \A r \in 1 .. 2 : queue'[r] = IF r = q THEN queue[r] \cup {x} ELSE queue[r]
  BY <1>1
<1>7. \A r \in 1 .. 2 : Cardinality(queue'[r]) =
        IF r = q THEN Cardinality(queue[r]) + 1 ELSE Cardinality(queue[r])
  BY <1>5, <1>6
<1>8. Cardinality(queue[q]) < Cardinality(State)
  BY <1>3, <1>4
<1> QED BY <1>7, <1>8 DEF OpenList!Insert

\* The heuristic value the open list is told of is finite and within the bound.
BestInv ==
    /\ bestH # Infinity => bestH \in 0 .. MaxH
    /\ result = "IN_PROGRESS" => bestH # Infinity

LEMMA FiniteH ==
    ASSUME TypeOK, NEW s \in State, NEW h \in call.h[s], h # Infinity
    PROVE  h \in 0 .. MaxH
<1>1. h \in Nat /\ h <= MaxH
  BY CallType, CallsAssumption DEF TypeOK, Cost
<1> QED BY <1>1, CallsAssumption

LEMMA BestStep == ASSUME IInv, BestInv, [Next]_vars PROVE BestInv'
<1>1. CASE UNCHANGED vars
  BY <1>1 DEF vars, BestInv
<1>2. CASE Begin
  BY <1>2 DEF Begin, BestInv, StartOutcome
<1>3. ASSUME InLoop, ~Empty, NEW h \in call.h[Popped], Expand(h) PROVE BestInv'
  <2>1. h \in 0 .. MaxH /\ bestH' \in {h, bestH} /\ result' = "IN_PROGRESS" /\ h # Infinity
    BY <1>3, PopsOpen, FiniteH DEF IInv, Expand, InLoop
  <2> QED BY <1>3, <2>1 DEF BestInv, InLoop
<1>4. ASSUME InLoop, ~Empty, NEW h \in call.h[Popped], Drop(h) PROVE BestInv'
  BY <1>4 DEF Drop, BestInv
<1>5. CASE TimeOut \/ Exhausted \/ \E e \in succs : GiveUp(e) \/ Skip(e)
  BY <1>5 DEF TimeOut, Exhausted, GiveUp, Skip, Take, BestInv
<1>6. CASE \E e \in succs : ReachGoal(e) \/ PruneSuccessor(e) \/ Insert(e)
  BY <1>6 DEF ReachGoal, PruneSuccessor, Insert, Reach, Take, BestInv
<1> QED BY <1>1, <1>2, <1>3, <1>4, <1>5, <1>6 DEF Next

LEMMA PopSizes ==
    ASSUME IInv, BestInv, InLoop, ~Empty, Pop, NEW h \in 0 .. MaxH,
           h < bestH => bestH' = h /\ weight' = Decayed + Boost,
           ~(h < bestH) => bestH' = bestH /\ weight' = Decayed
    PROVE  OpenList!Pop(h)
<1>1. /\ queue \in [1 .. 2 -> SUBSET Entries] /\ pos \in 1 .. 2 /\ count \in Nat
      /\ weight \in Nat \ {0} /\ bestH \in 0 .. MaxH /\ bestH # Infinity
  BY DEF IInv, TypeOK, BestInv, InLoop
<1>2. /\ Selected \in 1 .. 2 /\ First(queue[Selected]) \in queue[Selected]
      /\ queue' = [queue EXCEPT ![Selected] = @ \ {First(@)}]
  BY PopsOpen DEF Pop
<1>3. \A q \in 1 .. 2 : IsFiniteSet(queue[q]) /\ Cardinality(queue[q]) \in Nat
  <2> TAKE q \in 1 .. 2
  <2>1. \A x \in queue[q] : x.state \in State
    BY <1>1 DEF Entries
  <2> QED BY <2>1, QueueSize
<1>4. \A q \in 1 .. 2 : Cardinality(queue[q]) = 0 <=> queue[q] = {}
  BY <1>3, FS_EmptySet
<1>5. \A q \in 1 .. 2 : Cardinality(queue[q]) > 0 <=> queue[q] # {}
  BY <1>3, <1>4
<1>6. OpenList!Exchange = Exchange /\ OpenList!Decayed = Decayed /\ \A q : OpenList!Weight(q) = Weight(q)
  BY <1>1, <1>4 DEF OpenList!Exchange, Exchange, OpenList!Decayed, Decayed, OpenList!Weight, Weight
<1>7. 3 - pos \in 1 .. 2
  BY <1>1
<1>8. OpenList!Selected = Selected
  BY <1>5, <1>6, <1>7 DEF OpenList!Selected, Selected
<1>9. \E q \in 1 .. 2 : Cardinality(queue[q]) > 0
  BY <1>5 DEF Empty
<1>10. Cardinality(queue[Selected] \ {First(queue[Selected])}) = Cardinality(queue[Selected]) - 1
  BY <1>2, <1>3, FS_RemoveElement
<1>11. PICK p \in 1 .. 2 : p = Selected
  BY <1>2
<1>12. \A q \in 1 .. 2 : queue'[q] = IF q = p THEN queue[q] \ {First(queue[q])} ELSE queue[q]
  BY <1>1, <1>2, <1>11
<1>13. \A q \in 1 .. 2 : Cardinality(queue'[q]) = IF q = p THEN Cardinality(queue[q]) - 1 ELSE Cardinality(queue[q])
  BY <1>10, <1>11, <1>12
<1>14. [q \in 1 .. 2 |-> Cardinality(queue'[q])] = [[q \in 1 .. 2 |-> Cardinality(queue[q])] EXCEPT ![OpenList!Selected] = @ - 1]
  BY <1>8, <1>11, <1>13
<1>15. pos' = OpenList!Selected /\ count' = (IF OpenList!Exchange THEN 0 ELSE count) + 1
  BY <1>6, <1>8 DEF Pop
<1>16. h < bestH \/ ~(h < bestH)
  OBVIOUS
<1>17. bestH' # Infinity
  BY <1>1, <1>16, SpaceAssumption
<1>18. /\ (IF bestH' = Infinity THEN 0 ELSE bestH') = IF h < bestH THEN h ELSE bestH
       /\ weight' = IF h < bestH THEN OpenList!Decayed + Boost ELSE OpenList!Decayed
  BY <1>6, <1>17
<1> QED BY <1>1, <1>9, <1>14, <1>15, <1>18 DEF OpenList!Pop

LEMMA AlternatesStep ==
    ASSUME IInv, BestInv, [Next]_vars PROVE [OpenList!Next]_(OpenList!vars)
<1>1. \A q \in 1 .. 2 : OpenList!Insert(q) => OpenList!Next
  BY DEF OpenList!Next
<1>2. \A h \in 0 .. MaxH : OpenList!Pop(h) => OpenList!Next
  BY DEF OpenList!Next
<1>3. UNCHANGED <<queue, pos, count, weight, bestH>> => UNCHANGED OpenList!vars
  BY DEF OpenList!vars
<1>4. CASE UNCHANGED vars \/ TimeOut \/ Exhausted \/ \E e \in succs : GiveUp(e) \/ Skip(e)
  BY <1>3, <1>4 DEF vars, openVars, TimeOut, Exhausted, GiveUp, Skip, Take
<1>5. CASE \E e \in succs : ReachGoal(e) \/ PruneSuccessor(e)
  BY <1>3, <1>5 DEF ReachGoal, PruneSuccessor, Reach, Take
<1>6. ASSUME Begin PROVE [OpenList!Next]_(OpenList!vars)
  <2>1. CASE StartOutcome = "IN_PROGRESS"
    <3>1. PICK x : x = Entry(bestH, call.metric, step, Start)
      OBVIOUS
    <3>2. /\ queue' = [queue EXCEPT ![2] = {x}] /\ queue[2] = {}
          /\ queue \in [1 .. 2 -> SUBSET Entries]
          /\ UNCHANGED <<pos, count, weight, bestH>>
      BY <1>6, <2>1, <3>1 DEF Begin, IInv, NodesInv, TypeOK
    <3>3. queue' = [queue EXCEPT ![2] = @ \cup {x}]
      BY <3>2
    <3>4. 2 \in 1 .. 2 /\ Start \in State /\ (\A y \in queue[2] : y.state # Start) /\ x \notin queue[2]
      BY <3>2, SpaceAssumption
    <3>5. OpenList!Insert(2)
      BY <3>2, <3>3, <3>4, InsertSizes
    <3> QED BY <1>1, <3>4, <3>5
  <2>2. CASE StartOutcome # "IN_PROGRESS"
    BY <1>3, <1>6, <2>2 DEF Begin
  <2> QED BY <2>1, <2>2
<1>7. ASSUME InLoop, ~Empty, NEW h \in call.h[Popped], Drop(h)
      PROVE  [OpenList!Next]_(OpenList!vars)
  <2>1. Pop /\ bestH' = bestH /\ weight' = Decayed /\ bestH \in 0 .. MaxH /\ MaxH \in Nat
    BY <1>7, CallsAssumption DEF Drop, BestInv, InLoop
  <2>2. MaxH \in 0 .. MaxH /\ ~(MaxH < bestH)
    BY <2>1
  <2> QED BY <1>2, <1>7, <2>1, <2>2, PopSizes
<1>8. ASSUME InLoop, ~Empty, NEW h \in call.h[Popped], Expand(h)
      PROVE  [OpenList!Next]_(OpenList!vars)
  <2>1. /\ Pop /\ h \in 0 .. MaxH /\ bestH \in 0 .. MaxH /\ bestH # Infinity /\ h # Infinity
        /\ bestH' = IF Less(h, bestH) THEN h ELSE bestH
        /\ weight' = IF Less(h, bestH) THEN Decayed + Boost ELSE Decayed
    BY <1>8, PopsOpen, FiniteH DEF IInv, Expand, BestInv, InLoop
  <2>2. Less(h, bestH) <=> h < bestH
    BY <2>1 DEF Less
  <2> QED BY <1>2, <1>8, <2>1, <2>2, PopSizes
<1>9. ASSUME NEW e \in succs, Insert(e) PROVE [OpenList!Next]_(OpenList!vars)
  <2>1. PICK q \in 1 .. 2 : q = IF e \in call.preferred THEN 1 ELSE 2
    OBVIOUS
  <2>2. PICK x : x = Entry(stateH, g[e.from] + e.cost, step, e.to)
    OBVIOUS
  <2>3. /\ Reach(e, "OPEN") /\ queue' = [queue EXCEPT ![q] = @ \cup {x}]
        /\ x.state = e.to
    BY <1>9, <2>1, <2>2 DEF Insert, Entry
  <2>4. /\ e.to \in State /\ status[e.to] = "NEW" /\ result = "IN_PROGRESS"
        /\ UNCHANGED <<pos, count, weight, bestH>>
    BY <2>3, ReachKeeps
  <2>5. \A y \in queue[q] : y.state \in State
    BY DEF IInv, TypeOK, Entries
  <2>6. \A y \in queue[q] : y.state # e.to
    BY <2>4, <2>5 DEF IInv, OpenQueued
  <2>7. x \notin queue[q]
    BY <2>3, <2>6
  <2> QED BY <1>1, <2>3, <2>4, <2>6, <2>7, InsertSizes
<1> QED BY <1>4, <1>5, <1>6, <1>7, <1>8, <1>9 DEF Next

\* The search serves its two queues as the abstract open list of AlternatingOpenList
\* allows: Begin and Insert insert, Drop and Expand pop, everything else stutters.
THEOREM Alternation == Spec => Alternates
<1>1. Init => BestInv /\ OpenList!Init
  <2> SUFFICES ASSUME Init PROVE BestInv /\ OpenList!Init
    OBVIOUS
  <2>1. bestH # Infinity => bestH \in 0 .. MaxH
    BY InitIInv, FiniteH, SpaceAssumption DEF Init, IInv
  <2>2. \A q \in 1 .. 2 : Cardinality(queue[q]) = 0
    BY FS_EmptySet DEF Init
  <2>3. MaxH \in Nat
    BY CallsAssumption
  <2> QED BY <2>1, <2>2, <2>3 DEF Init, BestInv, OpenList!Init
<1>2. IInv /\ BestInv /\ [Next]_vars => BestInv' /\ [OpenList!Next]_(OpenList!vars)
  BY BestStep, AlternatesStep
<1> QED BY <1>1, <1>2, InitIInv, NextIInv, PTL DEF Spec, Alternates

\* The preferred queue's share stays bounded by its weight in every search.
THEOREM ShareOfPreferred == Spec => []ShareBounded
<1>1. Init => ShareBounded
  BY DEF Init, ShareBounded, OpenList!ShareBounded
<1>2. ASSUME IInv, ShareBounded, [Next]_vars PROVE ShareBounded'
  <2>1. CASE UNCHANGED <<pos, count, weight>>
    BY <1>2, <2>1 DEF ShareBounded, OpenList!ShareBounded
  <2>2. ASSUME Pop, weight' \in {Decayed, Decayed + Boost} PROVE ShareBounded'
    <3>1. pos \in 1 .. 2 /\ count \in Nat /\ weight \in Nat \ {0} /\ Boost \in Nat
      BY <1>2, CallsAssumption DEF IInv, TypeOK
    <3>2. Decayed \in Nat \ {0} /\ weight <= Decayed + 1
      BY <3>1 DEF Decayed
    <3>3. weight' \in Nat \ {0} /\ weight <= weight' + 1
      <4>1. CASE weight' = Decayed
        BY <3>2, <4>1
      <4>2. CASE weight' = Decayed + Boost
        BY <3>1, <3>2, <4>2
      <4> QED BY <2>2, <4>1, <4>2
    <3>4. CASE Exchange
      <4>1. count' = 1
        BY <2>2, <3>4 DEF Pop
      <4>2. \A w \in Nat : 1 <= w + 1
        OBVIOUS
      <4>3. weight' \in Nat
        BY <3>3
      <4> QED BY <4>1, <4>2, <4>3 DEF ShareBounded, OpenList!ShareBounded
    <3>5. CASE ~Exchange
      <4>1. pos' = pos /\ count' = count + 1 /\ (pos = 1 => count < weight)
        BY <2>2, <3>1, <3>5 DEF Pop, Selected, Exchange, Weight
      <4>2. count < weight => count + 1 <= weight' + 1
        BY <3>1, <3>3, ShareStep
      <4> QED BY <4>1, <4>2 DEF ShareBounded, OpenList!ShareBounded
    <3> QED BY <3>4, <3>5
  <2>3. \A h : Drop(h) \/ Expand(h) => Pop /\ weight' \in {Decayed, Decayed + Boost}
    BY DEF Drop, Expand
  <2>4. CASE UNCHANGED vars \/ Begin \/ TimeOut \/ Exhausted \/ \E e \in succs : GiveUp(e) \/ Skip(e)
    BY <2>1, <2>4 DEF vars, openVars, Begin, TimeOut, Exhausted, GiveUp, Skip, Take
  <2>5. CASE \E e \in succs : ReachGoal(e) \/ PruneSuccessor(e) \/ Insert(e)
    BY <2>1, <2>5 DEF ReachGoal, PruneSuccessor, Insert, Reach, Take
  <2> QED BY <1>2, <2>2, <2>3, <2>4, <2>5 DEF Next
<1> QED BY <1>1, <1>2, InitIInv, NextIInv, PTL DEF Spec

-----------------------------------------------------------------------------
(* The abstract open list on its own: for every boost, every bound on the    *)
(* heuristic values and any lengths of the queues up to the number of states,*)
(* the weights stay positive and the preferred queue's share is bounded.     *)

VARIABLES n, best   \* the state of an AlternatingOpenList, with pos, count and weight

List == INSTANCE AlternatingOpenList WITH MaxSize <- Cardinality(State)

LEMMA ListConstants == Boost \in Nat /\ MaxH \in Nat /\ Cardinality(State) \in Nat
  BY CallsAssumption, SpaceAssumption, FS_CardinalityType

ListInv == List!TypeOK /\ List!ShareBounded

LEMMA ListInitInv == List!Init => ListInv
  BY ListConstants DEF List!Init, ListInv, List!TypeOK, List!ShareBounded

LEMMA ListInsertInv == ASSUME ListInv, NEW q \in 1 .. 2, List!Insert(q) PROVE ListInv'
<1>1. n' \in [1 .. 2 -> 0 .. Cardinality(State)]
  BY ListConstants DEF ListInv, List!TypeOK, List!Insert
<1> QED BY <1>1 DEF ListInv, List!TypeOK, List!ShareBounded, List!Insert

\* A pop either opens a new turn or counts one more below the weight, which it lets
\* decay by at most one.
LEMMA ListPopInv == ASSUME ListInv, NEW h \in 0 .. MaxH, List!Pop(h) PROVE ListInv'
<1>1. /\ n \in [1 .. 2 -> 0 .. Cardinality(State)] /\ pos \in 1 .. 2 /\ count \in Nat
      /\ weight \in Nat \ {0} /\ best \in 0 .. MaxH
  BY DEF ListInv, List!TypeOK
<1>2. List!Selected \in 1 .. 2 /\ n[List!Selected] > 0
  <2>1. n[1] > 0 \/ n[2] > 0
    BY DEF List!Pop
  <2>2. CASE pos = 1
    BY <1>1, <2>1, <2>2 DEF List!Selected, List!Exchange
  <2>3. CASE pos = 2
    BY <1>1, <2>1, <2>3 DEF List!Selected, List!Exchange
  <2> QED BY <1>1, <2>2, <2>3
<1>3. n' \in [1 .. 2 -> 0 .. Cardinality(State)]
  BY <1>1, <1>2, ListConstants DEF List!Pop
<1>4. /\ List!Decayed \in Nat \ {0}
      /\ weight <= List!Decayed + 1
  BY <1>1 DEF List!Decayed
<1>5. weight' \in Nat \ {0} /\ weight <= weight' + 1
  BY <1>1, <1>4, ListConstants DEF List!Pop
<1>6. best' \in 0 .. MaxH /\ pos' = List!Selected /\ count' \in Nat
  BY <1>1 DEF List!Pop
<1>7. pos' = 1 => count' <= weight' + 1
  <2>1. CASE List!Exchange
    BY <1>5, <2>1 DEF List!Pop
  <2>2. CASE ~List!Exchange
    <3>1. pos' = pos /\ count' = count + 1 /\ count < List!Weight(pos)
      BY <1>1, <2>2 DEF List!Pop, List!Selected, List!Exchange, List!Weight
    <3>2. pos = 1 => count < weight
      BY <3>1 DEF List!Weight
    <3>3. ASSUME pos' = 1 PROVE count' <= weight' + 1
      <4>1. count < weight /\ count' = count + 1
        BY <3>1, <3>2, <3>3
      <4>2. count + 1 <= weight
        BY <1>1, <4>1
      <4>3. \A c, v, w \in Nat : c + 1 <= v /\ v <= w + 1 => c + 1 <= w + 1
        OBVIOUS
      <4>4. count + 1 <= weight' + 1
        <5>1. count \in Nat /\ weight \in Nat /\ weight' \in Nat
          BY <1>1, <1>5
        <5> QED BY <1>5, <4>2, <4>3, <5>1, Zenon
      <4> QED BY <4>1, <4>4, Zenon
    <3> QED BY <3>3
  <2> QED BY <2>1, <2>2
<1> QED BY <1>2, <1>3, <1>5, <1>6, <1>7 DEF ListInv, List!TypeOK, List!ShareBounded

LEMMA ListInvariant == List!Spec => []ListInv
<1>1. ListInv /\ [List!Next]_(List!vars) => ListInv'
  <2> SUFFICES ASSUME ListInv, [List!Next]_(List!vars) PROVE ListInv'
    OBVIOUS
  <2>1. CASE UNCHANGED List!vars
    BY <2>1 DEF List!vars, ListInv, List!TypeOK, List!ShareBounded
  <2> QED BY <2>1, ListInsertInv, ListPopInv DEF List!Next
<1> QED BY <1>1, ListInitInv, PTL DEF List!Spec

\* The state of the alternating open list keeps its type: no queue ever gets weight 0
\* and top() never selects an empty queue.
THEOREM OpenListTypeCorrect == List!Spec => []List!TypeOK
<1>1. ListInv => List!TypeOK
  BY DEF ListInv
<1> QED BY <1>1, ListInvariant, PTL

\* The pops counted for the preferred queue never exceed its weight by more than one.
THEOREM ShareIsBounded == List!Spec => []List!ShareBounded
<1>1. ListInv => List!ShareBounded
  BY DEF ListInv
<1> QED BY <1>1, ListInvariant, PTL
=============================================================================
