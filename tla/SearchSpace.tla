---------------------------- MODULE SearchSpace -----------------------------
(***************************************************************************)
(* What the search algorithms share: the state space a successor generator  *)
(* spans, the search node statuses, and the extraction of a plan from the   *)
(* parent pointers of the search nodes (search_space.hpp).                  *)
(*                                                                          *)
(* A search is called with a record of its inputs: the labelled transitions *)
(* [from, cost, to], the goal states, the values heuristic.evaluate may     *)
(* return for a state, and the options. Metric values are naturals; the     *)
(* metric of a node is the cost of the path it was generated along.         *)
(***************************************************************************)
EXTENDS Naturals, FiniteSets, SequencesExt, FiniteSetTheorems, WellFoundedInduction, TLAPS

CONSTANTS
    State,      \* the reachable states of the task
    Start,      \* the state of the start node
    Infinity,   \* the infinite float_t
    None        \* Index<State>::max(), no parent

ASSUME SpaceAssumption ==
    /\ IsFiniteSet(State)
    /\ Start \in State
    /\ Infinity \notin Nat
    /\ None \notin State

Cost == Nat \cup {Infinity}

\* The inputs a search works on: every successor is a state, costs are naturals.
WellFormed(call) ==
    /\ call.edges \subseteq [from : State, cost : Nat, to : State]
    /\ call.h \in [State -> SUBSET Cost]
    /\ call.metric \in Nat

Less(x, y) == x # Infinity /\ (y # Infinity => x < y)

Transitions(call, s) == {e \in call.edges : e.from = s}

\* The order in which an expansion registers the successor states that the state
\* repository does not know yet: any, as the generator or a shuffle produces it.
Registrations(call, s, registered) ==
    LET new == {e.to : e \in Transitions(call, s)} \ ToSet(registered)
    IN  {registered \o q : q \in SetToSeqs(new)}

IndexOf(registered, s) == CHOOSE i \in DOMAIN registered : registered[i] = s

\* get_or_create_search_node: the node vector grows up to the state's index.
GrownTo(size, registered, s) ==
    IF IndexOf(registered, s) > size THEN IndexOf(registered, s) ELSE size

-----------------------------------------------------------------------------

Node(s, m) == [state |-> s, metric |-> m]

\* One node more of each trajectory: that of s ends with that of its parent and s.
Climbed(parent, g, trajectories) ==
    [s \in State \cup {None} |->
        IF s = None THEN <<>> ELSE Append(trajectories[parent[s]], Node(s, g[s]))]

\* extract_node_trajectory: up the parent pointers, then reversed.
ExtractNodeTrajectory(parent, g, final) ==
    LET upTo[k \in 0 .. Cardinality(State)] ==
            IF k = 0 THEN [s \in State \cup {None} |-> <<>>]
            ELSE Climbed(parent, g, upTo[k - 1])
    IN  upTo[Cardinality(State)][final]

\* y is a labelled successor of the node x, in state and metric.
Follows(call, x, y) ==
    \E e \in Transitions(call, x.state) : y = Node(e.to, x.metric + e.cost)

\* What is kept of the nodes from next on, if the last node kept is the i-th one.
Kept(call, trajectory, next, rest) ==
    [i \in DOMAIN trajectory |->
        IF Follows(call, trajectory[i], trajectory[next])
        THEN <<trajectory[next]>> \o rest[next] ELSE rest[i]]

\* extract_labeled_node_trajectory: keeps the nodes of the trajectory that follow
\* the last node kept, and silently skips the others.
ExtractPlan(call, trajectory) ==
    LET n == Len(trajectory)
        lastNodes[k \in 0 .. n] ==
            IF k = 0 THEN [i \in DOMAIN trajectory |-> <<>>]
            ELSE Kept(call, trajectory, n - k + 1, lastNodes[k - 1])
    IN  <<trajectory[1]>> \o lastNodes[n - 1][1]

\* extract_total_ordered_plan
ExtractTotalOrderedPlan(call, parent, g, final) ==
    ExtractPlan(call, ExtractNodeTrajectory(parent, g, final))

-----------------------------------------------------------------------------
(* Reference definitions for the properties.                                *)

\* The states reachable from S along the transitions.
ReachableFrom(call, S) ==
    {s \in State : \A R \in SUBSET State :
        S \subseteq R /\ (\A e \in call.edges : e.from \in R => e.to \in R) => s \in R}

Solvable(call) ==
    call.staticGoal /\ ReachableFrom(call, {Start}) \cap call.goals # {}

\* The heuristic is infinite only for states from which no goal can be reached.
Safe(call) ==
    \A s \in State : Infinity \in call.h[s] => ReachableFrom(call, {s}) \cap call.goals = {}

\* The cost of a path that begins with a transition of cost c and goes on at cost x.
Plus(c, x) == IF x = Infinity THEN Infinity ELSE c + x

Cheapest(X) == CHOOSE x \in X : \A y \in X : ~Less(y, x)

\* One round of relaxation: costs v[s] of reaching a goal from s, one step further.
Relaxed(call, v) ==
    [s \in State |-> Cheapest({v[s]} \cup {Plus(e.cost, v[e.to]) : e \in Transitions(call, s)})]

\* The cost of a cheapest path from each state to a goal; a cheapest path need not
\* visit a state twice, so there are as many rounds as states.
GoalCosts(call) ==
    LET after[k \in 0 .. Cardinality(State)] ==
            IF k = 0 THEN [s \in State |-> IF s \in call.goals THEN 0 ELSE Infinity]
            ELSE Relaxed(call, after[k - 1])
    IN  after[Cardinality(State)]

\* d[s] is at most the cost of every path from s to a goal.
Underestimates(call, d) ==
    /\ d \in [State -> Cost]
    /\ \A s \in State \cap call.goals : d[s] = 0
    /\ \A e \in call.edges : ~Less(Plus(e.cost, d[e.to]), d[e.from])

\* No heuristic value exceeds the cost of a path to a goal; the first conjunct says
\* that the rounds of GoalCosts were enough, as they are for every call.
Admissible(call) ==
    /\ Underestimates(call, GoalCosts(call))
    /\ \A s \in State : \A v \in call.h[s] : ~Less(GoalCosts(call)[s], v)

\* plan is a path from the start node to a goal state with the metrics of its nodes.
ReachesGoal(call, plan) ==
    /\ plan[1] = Node(Start, call.metric)
    /\ \A k \in 1 .. Len(plan) - 1 : Follows(call, plan[k], plan[k + 1])
    /\ Last(plan).state \in call.goals
-----------------------------------------------------------------------------
(* Lemmas about the state space, for the proofs of the searches.            *)

\* Every nonempty set of naturals has a least element.
LEMMA Least ==
    ASSUME NEW T \in SUBSET Nat, T # {}
    PROVE  \E m \in T : \A k \in T : m <= k
<1>1. IsWellFoundedOn(OpToRel(<, Nat), Nat)
  BY NatLessThanWellFounded
<1>2. \E x \in T : \A y \in T : ~(<<y, x>> \in OpToRel(<, Nat))
  BY <1>1, WFMin
<1>3. PICK x \in T : \A y \in T : ~(<<y, x>> \in OpToRel(<, Nat))
  BY <1>2
<1>4. \A y \in T : ~(y < x)
  BY <1>3 DEF OpToRel
<1> QED BY <1>4

\* What is closed under the transitions contains all that is reachable from it.
LEMMA ReachableInClosed ==
    ASSUME NEW call, NEW S, NEW R \in SUBSET State, S \subseteq R,
           \A e \in call.edges : e.from \in R => e.to \in R
    PROVE  ReachableFrom(call, S) \subseteq R
  BY DEF ReachableFrom

LEMMA StartReachable ==
    ASSUME NEW call, NEW s \in State
    PROVE  s \in ReachableFrom(call, {s})
  BY DEF ReachableFrom

\* What a successor reaches, the state reaches.
LEMMA ReachableStep ==
    ASSUME NEW call, WellFormed(call), NEW e \in call.edges
    PROVE  ReachableFrom(call, {e.to}) \subseteq ReachableFrom(call, {e.from})
<1> SUFFICES ASSUME NEW s \in ReachableFrom(call, {e.to}), NEW R \in SUBSET State,
                    {e.from} \subseteq R, \A d \in call.edges : d.from \in R => d.to \in R
             PROVE  s \in R
  BY DEF ReachableFrom
<1>1. {e.to} \subseteq R
  OBVIOUS
<1> QED BY <1>1, ReachableInClosed

\* The states from which no goal can be reached.
Hopeless(call) == {s \in State : ReachableFrom(call, {s}) \cap call.goals = {}}

LEMMA HopelessClosed ==
    ASSUME NEW call, WellFormed(call), NEW e \in call.edges, e.from \in Hopeless(call)
    PROVE  e.to \in Hopeless(call)
<1>1. e.to \in State
  BY DEF WellFormed
<1> QED BY <1>1, ReachableStep DEF Hopeless

\* No goal is reachable from the start if the start is in a set of states that are no
\* goals, which the transitions leave for hopeless states only.
LEMMA UnsolvableFrom ==
    ASSUME NEW call, WellFormed(call), NEW C \in SUBSET State, C \cap call.goals = {},
           Start \in C \cup Hopeless(call),
           \A e \in call.edges : e.from \in C => e.to \in C \cup Hopeless(call)
    PROVE  ~Solvable(call)
<1>1. \A e \in call.edges : e.from \in C \cup Hopeless(call) => e.to \in C \cup Hopeless(call)
  BY HopelessClosed
<1>2. C \cup Hopeless(call) \in SUBSET State
  BY DEF Hopeless
<1>3. {Start} \subseteq C \cup Hopeless(call)
  OBVIOUS
<1>4. ReachableFrom(call, {Start}) \subseteq C \cup Hopeless(call)
  <2>1. PICK R \in SUBSET State : R = C \cup Hopeless(call)
    BY <1>2
  <2> QED BY <1>1, <1>3, <2>1, ReachableInClosed
<1>5. Hopeless(call) \cap call.goals = {}
  BY StartReachable DEF Hopeless
<1> QED BY <1>4, <1>5 DEF Solvable

\* A nonempty set of costs has a cheapest one.
LEMMA CheapestIn ==
    ASSUME NEW X \in SUBSET Cost, X # {}
    PROVE  Cheapest(X) \in X
<1>1. CASE X \cap Nat = {}
  BY <1>1 DEF Cheapest, Cost, Less
<1>2. CASE X \cap Nat # {}
  <2>1. PICK m \in X \cap Nat : \A k \in X \cap Nat : m <= k
    BY <1>2, Least
  <2>2. \A y \in X : ~Less(y, m)
    BY <2>1, SpaceAssumption DEF Cost, Less
  <2> QED BY <2>1, <2>2 DEF Cheapest
<1> QED BY <1>1, <1>2

\* A round of relaxation keeps costs at or above an underestimate.
LEMMA RelaxedAbove ==
    ASSUME NEW call, WellFormed(call), NEW d, Underestimates(call, d),
           NEW v \in [State -> Cost], \A s \in State : ~Less(v[s], d[s])
    PROVE  /\ Relaxed(call, v) \in [State -> Cost]
           /\ \A s \in State : ~Less(Relaxed(call, v)[s], d[s])
<1> SUFFICES ASSUME NEW s \in State
             PROVE  Relaxed(call, v)[s] \in Cost /\ ~Less(Relaxed(call, v)[s], d[s])
  BY DEF Relaxed
<1> DEFINE X == {v[s]} \cup {Plus(e.cost, v[e.to]) : e \in Transitions(call, s)}
<1>1. \A e \in Transitions(call, s) :
        /\ e \in call.edges /\ e.from = s /\ e.to \in State /\ e.cost \in Nat /\ v[e.to] \in Cost
        /\ Plus(e.cost, v[e.to]) \in Cost
  BY DEF WellFormed, Transitions, Plus, Cost
<1>2. X \in SUBSET Cost /\ X # {}
  BY <1>1
<1>3. Cheapest(X) \in X
  BY <1>2, CheapestIn
<1>4. ASSUME NEW e \in Transitions(call, s) PROVE ~Less(Plus(e.cost, v[e.to]), d[s])
  <2>1. ~Less(Plus(e.cost, d[e.to]), d[s]) /\ ~Less(v[e.to], d[e.to])
    BY <1>1 DEF Underestimates
  <2>2. d[s] \in Cost /\ d[e.to] \in Cost
    BY <1>1 DEF Underestimates
  <2> QED BY <1>1, <2>1, <2>2, SpaceAssumption DEF Less, Plus, Cost
<1>5. Relaxed(call, v)[s] = Cheapest(X)
  BY DEF Relaxed
<1> QED BY <1>2, <1>3, <1>4, <1>5

\* No underestimate exceeds the goal costs.
LEMMA UnderGoalCosts ==
    ASSUME NEW call, WellFormed(call), NEW d, Underestimates(call, d)
    PROVE  \A s \in State : ~Less(GoalCosts(call)[s], d[s])
<1> DEFINE N == Cardinality(State)
           AtGoals == [s \in State |-> IF s \in call.goals THEN 0 ELSE Infinity]
           Rounds(f, m) == f = [k \in 0 .. m |-> IF k = 0 THEN AtGoals ELSE Relaxed(call, f[k - 1])]
<1> DEFINE Defined(m) == \E f : Rounds(f, m)
<1>1. \A m \in Nat : Defined(m)
  <2> SUFFICES ASSUME NEW T \in SUBSET Nat, T = {m \in Nat : ~Defined(m)}, T # {}
               PROVE  FALSE
    <3> HIDE DEF Defined
    <3> QED OBVIOUS
  <2>1. PICK m \in T : \A k \in T : m <= k
    BY Least
  <2>2. CASE m = 0
    <3>1. Rounds([k \in 0 .. 0 |-> AtGoals], 0)
      OBVIOUS
    <3> QED BY <2>2, <3>1
  <2>3. CASE m # 0
    <3>1. m - 1 \in Nat /\ m - 1 \notin T
      <4>1. m \in Nat /\ \A k \in T : m <= k
        BY <2>1
      <4> HIDE DEF Defined
      <4>2. m - 1 \in Nat /\ ~(m <= m - 1)
        BY <2>3, <4>1
      <4> QED BY <4>1, <4>2
    <3>2. PICK f : Rounds(f, m - 1)
      BY <3>1
    <3> DEFINE h == [k \in 0 .. m |-> IF k = 0 THEN AtGoals ELSE Relaxed(call, f[k - 1])]
    <3>3. \A k \in 0 .. m - 1 : k \in 0 .. m /\ (k # 0 => k - 1 \in 0 .. m - 1)
      BY <3>1
    <3>4. \A k \in 0 .. m - 1 : f[k] = IF k = 0 THEN AtGoals ELSE Relaxed(call, f[k - 1])
      BY <3>2, <3>3
    <3>5. \A k \in 0 .. m : h[k] = IF k = 0 THEN AtGoals ELSE Relaxed(call, f[k - 1])
      OBVIOUS
    <3>6. \A k \in 0 .. m - 1 : h[k] = f[k]
      BY <3>3, <3>4, <3>5
    <3>7. \A k \in 0 .. m : k # 0 => k - 1 \in 0 .. m - 1
      BY <3>1
    <3>8. h = [k \in 0 .. m |-> IF k = 0 THEN AtGoals ELSE Relaxed(call, h[k - 1])]
      <4>1. \A k \in 0 .. m : h[k] = IF k = 0 THEN AtGoals ELSE Relaxed(call, h[k - 1])
        BY <3>5, <3>6, <3>7
      <4> HIDE DEF AtGoals
      <4> QED BY <4>1
    <3> QED BY <3>8
  <2> QED BY <2>2, <2>3
<1>2. N \in Nat
  BY SpaceAssumption, FS_CardinalityType
<1>3. PICK f : Rounds(f, N) /\ GoalCosts(call) = f[N]
  <2>1. \E f : Rounds(f, N)
    BY <1>1, <1>2
  <2> DEFINE after == CHOOSE f : Rounds(f, N)
  <2>2. Rounds(after, N)
    BY <2>1
  <2>3. GoalCosts(call) = after[N]
    BY DEF GoalCosts
  <2> QED BY <2>2, <2>3
<1> DEFINE Above(v) == v \in [State -> Cost] /\ \A s \in State : ~Less(v[s], d[s])
<1>4. \A k \in 0 .. N : Above(f[k])
  <2> DEFINE T == {k \in Nat : k \in 0 .. N /\ ~Above(f[k])}
  <2> SUFFICES ASSUME T # {} PROVE FALSE
    <3> HIDE DEF Above
    <3>1. 0 .. N \subseteq Nat
      BY <1>2
    <3> QED BY <3>1
  <2>0. T \in SUBSET Nat
    OBVIOUS
  <2>1. PICK k \in T : \A j \in T : k <= j
    BY <2>0, Least
  <2>2. k \in 0 .. N /\ f[k] = IF k = 0 THEN AtGoals ELSE Relaxed(call, f[k - 1])
    BY <1>3, <2>1
  <2>3. CASE k = 0
    <3>1. Above(AtGoals)
      BY SpaceAssumption DEF Underestimates, Less, Cost
    <3> QED BY <2>1, <2>2, <2>3, <3>1
  <2>4. CASE k # 0
    <3>1. k - 1 \in 0 .. N /\ ~(k <= k - 1)
      BY <1>2, <2>2, <2>4
    <3>2. Above(f[k - 1])
      BY <2>1, <3>1
    <3>3. Above(Relaxed(call, f[k - 1]))
      BY <3>2, RelaxedAbove
    <3> QED BY <2>1, <2>2, <2>4, <3>3
  <2> QED BY <2>3, <2>4
<1>5. N \in 0 .. N
  BY <1>2
<1> QED BY <1>3, <1>4, <1>5
-----------------------------------------------------------------------------
(* Lemmas about the parent pointers: trees, and the plans read off them.    *)

\* The states from which the parent pointers lead to n.
Below(parent, n) ==
    {m \in State : \A R \in SUBSET State :
        n \in R /\ (\A s \in State : parent[s] \in R => s \in R) => m \in R}

Acyclic(parent) ==
    /\ \A s \in State : parent[s] # s
    /\ \A a, b \in State : a \in Below(parent, b) /\ b \in Below(parent, a) => a = b

\* What contains n and with each state its children contains what is below n.
LEMMA BelowIn ==
    ASSUME NEW parent, NEW n, NEW R \in SUBSET State, n \in R,
           \A s \in State : parent[s] \in R => s \in R
    PROVE  Below(parent, n) \subseteq R
  BY DEF Below

LEMMA BelowClosed ==
    ASSUME NEW parent, NEW n \in State
    PROVE  /\ n \in Below(parent, n) /\ Below(parent, n) \in SUBSET State
           /\ \A s \in State : parent[s] \in Below(parent, n) => s \in Below(parent, n)
  BY DEF Below

LEMMA BelowTransitive ==
    ASSUME NEW parent, NEW n \in State, NEW m \in Below(parent, n)
    PROVE  Below(parent, m) \subseteq Below(parent, n)
  BY BelowIn, BelowClosed

\* What is below n, but not n, has its parent there too.
LEMMA BelowParent ==
    ASSUME NEW parent, NEW n \in State, NEW m \in Below(parent, n), m # n
    PROVE  parent[m] \in Below(parent, n)
<1> SUFFICES ASSUME parent[m] \notin Below(parent, n) PROVE FALSE
  OBVIOUS
<1> DEFINE R == Below(parent, n) \ {m}
<1>1. R \in SUBSET State /\ n \in R /\ \A s \in State : parent[s] \in R => s \in R
  BY BelowClosed
<1> HIDE DEF R
<1>2. Below(parent, n) \subseteq R
  BY <1>1, BelowIn
<1> QED BY <1>2 DEF R

\* Nothing is below a state without children.
LEMMA BelowLeaf ==
    ASSUME NEW parent, NEW n \in State, \A s \in State : parent[s] # n
    PROVE  Below(parent, n) = {n}
<1>1. PICK R \in SUBSET State : R = {n} /\ \A s \in State : parent[s] \in R => s \in R
  OBVIOUS
<1>2. Below(parent, n) \subseteq R
  BY <1>1, BelowIn
<1> QED BY <1>1, <1>2, BelowClosed

Reparented(parent, new, c, x) ==
    \A s \in State : new[s] = IF s = c THEN x ELSE parent[s]

\* The state c gets the parent x, which was not below it.
LEMMA Reparent ==
    ASSUME NEW parent, NEW new, NEW c \in State, NEW x \in State,
           Reparented(parent, new, c, x), x \notin Below(parent, c)
    PROVE  /\ \A n \in State : x \notin Below(parent, n) =>
                /\ Below(new, n) \subseteq Below(parent, n)
                /\ n # c => c \notin Below(new, n)
           /\ \A n \in State : x \in Below(parent, n) =>
                /\ Below(parent, n) \subseteq Below(new, n)
                /\ c \in Below(new, n)
                /\ Below(new, n) \subseteq Below(parent, n) \cup Below(parent, c)
           /\ Below(new, c) \subseteq Below(parent, c)
           /\ Acyclic(parent) => Acyclic(new)
<1>1. \A s \in State : new[s] = IF s = c THEN x ELSE parent[s]
  BY DEF Reparented
<1>2. ASSUME NEW n \in State, x \notin Below(parent, n)
      PROVE  Below(new, n) \subseteq Below(parent, n) /\ (n # c => c \notin Below(new, n))
  <2>1. \A s \in State : new[s] \in Below(parent, n) => s \in Below(parent, n)
    BY <1>1, <1>2, BelowClosed
  <2>2. Below(parent, n) \in SUBSET State /\ n \in Below(parent, n)
    BY BelowClosed
  <2>3. Below(new, n) \subseteq Below(parent, n)
    BY <2>1, <2>2, BelowIn
  <2>4. c \in Below(new, n) /\ n # c => x \in Below(new, n)
    BY <1>1, BelowParent
  <2> QED BY <1>2, <2>3, <2>4
<1>3. ASSUME NEW n \in State, x \in Below(parent, n)
      PROVE  Below(new, n) \subseteq Below(parent, n) \cup Below(parent, c)
  <2> DEFINE R == Below(parent, n) \cup Below(parent, c)
  <2>1. R \in SUBSET State /\ n \in R /\ \A s \in State : new[s] \in R => s \in R
    BY <1>1, BelowClosed
  <2> HIDE DEF R
  <2>2. Below(new, n) \subseteq R
    BY <2>1, BelowIn
  <2> QED BY <2>2 DEF R
<1>4. ASSUME NEW n \in State, x \in Below(parent, n)
      PROVE  Below(parent, n) \subseteq Below(new, n) /\ c \in Below(new, n)
  <2> DEFINE R == Below(new, n)
             Q == R \cup Below(parent, c)
  <2>1. R \in SUBSET State /\ n \in R /\ \A s \in State : new[s] \in R => s \in R
    BY BelowClosed
  <2> HIDE DEF R
  <2>2. Q \in SUBSET State /\ n \in Q
    BY <2>1, BelowClosed
  <2>3. \A s \in State : parent[s] \in Q => s \in Q
    BY <1>1, <2>1, BelowClosed
  <2> HIDE DEF Q
  <2>4. Below(parent, n) \subseteq Q
    BY <2>2, <2>3, BelowIn
  <2>5. x \in R
    BY <1>4, <2>4 DEF Q
  <2>6. c \in R
    BY <1>1, <2>1, <2>5
  <2>7. \A s \in State : parent[s] \in R => s \in R
    BY <1>1, <2>1, <2>6
  <2>8. Below(parent, n) \subseteq R
    BY <2>1, <2>7, BelowIn
  <2> QED BY <2>6, <2>8 DEF R
<1>5. Below(new, c) \subseteq Below(parent, c)
  BY <1>2
<1>6. ASSUME Acyclic(parent) PROVE Acyclic(new)
  <2>1. x # c
    BY BelowClosed
  <2>2. \A s \in State : new[s] # s
    BY <1>1, <1>6, <2>1 DEF Acyclic
  <2>3. ASSUME NEW a \in State, NEW b \in State, a \in Below(new, b), b \in Below(new, a)
        PROVE  a = b
    <3>1. CASE x \notin Below(parent, a) /\ x \notin Below(parent, b)
      BY <1>2, <1>6, <2>3, <3>1 DEF Acyclic
    <3>2. CASE x \in Below(parent, a) /\ x \in Below(parent, b)
      <4>1. a \notin Below(parent, c) /\ b \notin Below(parent, c)
        BY <3>2, BelowTransitive
      <4> QED BY <1>3, <1>6, <2>3, <3>2, <4>1 DEF Acyclic
    <3>3. CASE x \in Below(parent, a) /\ x \notin Below(parent, b)
      BY <1>2, <2>3, <3>3, BelowTransitive
    <3>4. CASE x \notin Below(parent, a) /\ x \in Below(parent, b)
      BY <1>2, <2>3, <3>4, BelowTransitive
    <3> QED BY <3>1, <3>2, <3>3, <3>4
  <2> QED BY <2>2, <2>3 DEF Acyclic
<1> QED BY <1>2, <1>3, <1>4, <1>5, <1>6

\* How many states are above s, s included.
Depth(parent, s) == Cardinality({a \in State : s \in Below(parent, a)})

LEMMA DepthFalls ==
    ASSUME NEW parent, Acyclic(parent), NEW s \in State
    PROVE  /\ Depth(parent, s) \in 1 .. Cardinality(State)
           /\ parent[s] \in State => Depth(parent, parent[s]) = Depth(parent, s) - 1
<1> DEFINE Above(t) == {a \in State : t \in Below(parent, a)}
<1>1. \A t \in State : IsFiniteSet(Above(t)) /\ Cardinality(Above(t)) \in Nat
                      /\ Cardinality(Above(t)) <= Cardinality(State) /\ t \in Above(t)
  <2> SUFFICES ASSUME NEW t \in State
               PROVE  IsFiniteSet(Above(t)) /\ Cardinality(Above(t)) \in Nat
                      /\ Cardinality(Above(t)) <= Cardinality(State) /\ t \in Above(t)
    OBVIOUS
  <2>1. Above(t) \in SUBSET State
    OBVIOUS
  <2>2. IsFiniteSet(Above(t)) /\ Cardinality(Above(t)) <= Cardinality(State)
    BY <2>1, SpaceAssumption, FS_Subset
  <2>3. Cardinality(Above(t)) \in Nat
    BY <2>2, FS_CardinalityType
  <2> QED BY <2>2, <2>3, BelowClosed
<1>2. Cardinality(State) \in Nat
  BY SpaceAssumption, FS_CardinalityType
<1>3. Cardinality(Above(s)) # 0
  BY <1>1, FS_EmptySet
<1>4. ASSUME parent[s] \in State PROVE Cardinality(Above(parent[s])) = Cardinality(Above(s)) - 1
  <2>1. Above(parent[s]) = Above(s) \ {s}
    <3>1. ASSUME NEW a \in Above(parent[s]) PROVE a \in Above(s) /\ a # s
      <4>1. a \in Above(s)
        BY <3>1, BelowClosed
      <4>2. s \in Below(parent, parent[s])
        BY <1>4, BelowClosed
      <4> QED BY <1>4, <3>1, <4>1, <4>2 DEF Acyclic
    <3>2. ASSUME NEW a \in Above(s), a # s PROVE a \in Above(parent[s])
      BY <3>2, BelowParent
    <3> HIDE DEF Above
    <3> QED BY <3>1, <3>2
  <2> HIDE DEF Above
  <2> QED BY <1>1, <2>1, FS_RemoveElement
<1> QED BY <1>1, <1>2, <1>3, <1>4 DEF Depth

\* t is a path from the start to the node of s, along which states have their metric in g.
PathTo(call, g, t, s) ==
    /\ t \in Seq({Node(r, g[r]) : r \in State}) /\ t # <<>>
    /\ t[1] = Node(Start, g[Start])
    /\ \A k \in 1 .. Len(t) - 1 : Follows(call, t[k], t[k + 1])
    /\ t[Len(t)] = Node(s, g[s])

\* f[k] has the trajectories of at most k nodes, for k up to m.
Climbs(parent, g, m, f) ==
    f = [k \in 0 .. m |-> IF k = 0 THEN [s \in State \cup {None} |-> <<>>]
                         ELSE Climbed(parent, g, f[k - 1])]

\* The recursive definition of ExtractNodeTrajectory defines a function.
LEMMA TrajectoriesExist ==
    ASSUME NEW parent, NEW g
    PROVE  \A m \in Nat : \E f : Climbs(parent, g, m, f)
<1> DEFINE Empty == [s \in State \cup {None} |-> <<>>]
           Levels(f, m) == f = [k \in 0 .. m |-> IF k = 0 THEN Empty ELSE Climbed(parent, g, f[k - 1])]
<1> DEFINE Defined(m) == \E f : Levels(f, m)
<1>1. \A m \in Nat : Defined(m)
  <2> SUFFICES ASSUME NEW T \in SUBSET Nat, T = {m \in Nat : ~Defined(m)}, T # {}
               PROVE  FALSE
    <3> HIDE DEF Defined
    <3> QED OBVIOUS
  <2>1. PICK m \in T : \A k \in T : m <= k
    BY Least
  <2>2. CASE m = 0
    <3>1. Levels([k \in 0 .. 0 |-> Empty], 0)
      OBVIOUS
    <3> QED BY <2>2, <3>1
  <2>3. CASE m # 0
    <3>1. m - 1 \in Nat /\ m - 1 \notin T
      <4>1. m \in Nat /\ \A k \in T : m <= k
        BY <2>1
      <4> HIDE DEF Defined
      <4>2. m - 1 \in Nat /\ ~(m <= m - 1)
        BY <2>3, <4>1
      <4> QED BY <4>1, <4>2
    <3>2. PICK f : Levels(f, m - 1)
      BY <3>1
    <3> DEFINE h == [k \in 0 .. m |-> IF k = 0 THEN Empty ELSE Climbed(parent, g, f[k - 1])]
    <3>3. \A k \in 0 .. m - 1 : k \in 0 .. m /\ (k # 0 => k - 1 \in 0 .. m - 1)
      BY <3>1
    <3>4. \A k \in 0 .. m - 1 : f[k] = IF k = 0 THEN Empty ELSE Climbed(parent, g, f[k - 1])
      BY <3>2, <3>3
    <3>5. \A k \in 0 .. m : h[k] = IF k = 0 THEN Empty ELSE Climbed(parent, g, f[k - 1])
      OBVIOUS
    <3>6. \A k \in 0 .. m - 1 : h[k] = f[k]
      BY <3>3, <3>4, <3>5
    <3>7. \A k \in 0 .. m : k # 0 => k - 1 \in 0 .. m - 1
      BY <3>1
    <3>8. h = [k \in 0 .. m |-> IF k = 0 THEN Empty ELSE Climbed(parent, g, h[k - 1])]
      <4>1. \A k \in 0 .. m : h[k] = IF k = 0 THEN Empty ELSE Climbed(parent, g, h[k - 1])
        BY <3>5, <3>6, <3>7
      <4> HIDE DEF Empty
      <4> QED BY <4>1
    <3> QED BY <3>8
  <2> QED BY <2>2, <2>3
<1> QED BY <1>1 DEF Climbs

LEMMA AppendFacts ==
    ASSUME NEW S, NEW t \in Seq(S), t # <<>>, NEW y \in S
    PROVE  /\ Append(t, y) \in Seq(S) /\ Len(Append(t, y)) = Len(t) + 1
           /\ Len(t) \in Nat /\ Len(t) >= 1 /\ Append(t, y)[Len(t) + 1] = y
           /\ \A j \in 1 .. Len(t) : Append(t, y)[j] = t[j]
  OBVIOUS

\* Where each state but the start follows its parent, the trajectory is a path.
LEMMA TrajectoryIsPath ==
    ASSUME NEW call, NEW g, NEW parent, Acyclic(parent), NEW A \in SUBSET State, NEW final \in A,
           \A s \in A : \/ s = Start /\ parent[s] = None
                       \/ /\ parent[s] \in A
                          /\ Follows(call, Node(parent[s], g[parent[s]]), Node(s, g[s]))
    PROVE  PathTo(call, g, ExtractNodeTrajectory(parent, g, final), final)
<1> DEFINE N == Cardinality(State)
<1>2. N \in Nat
  BY SpaceAssumption, FS_CardinalityType
<1>3. PICK f : Climbs(parent, g, N, f) /\ ExtractNodeTrajectory(parent, g, final) = f[N][final]
  <2>1. \E f : Climbs(parent, g, N, f)
    BY <1>2, TrajectoriesExist
  <2> DEFINE upTo == CHOOSE f : Climbs(parent, g, N, f)
  <2>2. Climbs(parent, g, N, upTo)
    BY <2>1
  <2>3. ExtractNodeTrajectory(parent, g, final) = upTo[N][final]
    BY DEF ExtractNodeTrajectory, Climbs
  <2> QED BY <2>2, <2>3
<1>4. \A k \in 0 .. N : \A s \in State \cup {None} :
        f[k][s] = IF k = 0 \/ s = None THEN <<>> ELSE Append(f[k - 1][parent[s]], Node(s, g[s]))
  <2> SUFFICES ASSUME NEW k \in 0 .. N, NEW s \in State \cup {None}
               PROVE  f[k][s] = IF k = 0 \/ s = None THEN <<>>
                                ELSE Append(f[k - 1][parent[s]], Node(s, g[s]))
    OBVIOUS
  <2>1. CASE k = 0
    BY <1>3, <2>1 DEF Climbs
  <2>2. CASE k # 0
    <3>1. f[k] = Climbed(parent, g, f[k - 1])
      BY <1>3, <2>2 DEF Climbs
    <3>2. PICK level : level = f[k - 1]
      OBVIOUS
    <3>3. Climbed(parent, g, level)[s] = IF s = None THEN <<>> ELSE Append(level[parent[s]], Node(s, g[s]))
      BY DEF Climbed
    <3> QED BY <2>2, <3>1, <3>2, <3>3
  <2> QED BY <2>1, <2>2
<1> DEFINE Right(k) == \A s \in A : Depth(parent, s) <= k => PathTo(call, g, f[k][s], s)
<1>5. \A k \in 0 .. N : Right(k)
  <2> DEFINE T == {k \in Nat : k \in 0 .. N /\ ~Right(k)}
  <2> SUFFICES ASSUME T # {} PROVE FALSE
    <3> HIDE DEF Right
    <3>1. 0 .. N \subseteq Nat
      BY <1>2
    <3> QED BY <3>1
  <2>1. PICK k \in T : \A j \in T : k <= j
    <3>1. T \in SUBSET Nat
      OBVIOUS
    <3> HIDE DEF T
    <3> QED BY <3>1, Least
  <2>2. k \in 0 .. N /\ k \in Nat
    BY <2>1
  <2>3. PICK s \in A : Depth(parent, s) <= k /\ ~PathTo(call, g, f[k][s], s)
    BY <2>1
  <2>4. k # 0 /\ k - 1 \in 0 .. N /\ k - 1 < k
    BY <1>2, <2>2, <2>3, DepthFalls
  <2>5. Right(k - 1)
    BY <2>1, <2>4
  <2>6. f[k][s] = Append(f[k - 1][parent[s]], Node(s, g[s])) /\ s # None
    BY <1>4, <2>2, <2>4, SpaceAssumption
  <2>7. CASE s = Start /\ parent[s] = None
    <3>1. f[k - 1][parent[s]] = <<>>
      BY <1>4, <2>4, <2>7
    <3>2. f[k][s] = <<Node(s, g[s])>>
      BY <2>6, <3>1
    <3>3. PathTo(call, g, <<Node(s, g[s])>>, s)
      <4>1. Node(s, g[s]) \in {Node(r, g[r]) : r \in State}
        OBVIOUS
      <4> QED BY <2>7, <4>1 DEF PathTo
    <3> QED BY <2>3, <3>2, <3>3
  <2>8. CASE parent[s] \in A /\ Follows(call, Node(parent[s], g[parent[s]]), Node(s, g[s]))
    <3>1. PICK p \in A : p = parent[s] /\ Follows(call, Node(p, g[p]), Node(s, g[s]))
      BY <2>8
    <3>2. Depth(parent, p) <= k - 1
      BY <2>2, <2>3, <3>1, DepthFalls
    <3>3. PICK t : t = f[k - 1][p] /\ PathTo(call, g, t, p)
      BY <2>5, <3>2
    <3>4. PICK y : y = Node(s, g[s]) /\ y \in {Node(r, g[r]) : r \in State}
      OBVIOUS
    <3>5. PathTo(call, g, Append(t, y), s)
      <4> DEFINE NS == {Node(r, g[r]) : r \in State}
      <4>1. t \in Seq(NS) /\ t # <<>> /\ y \in NS
        BY <3>3, <3>4 DEF PathTo
      <4> HIDE DEF NS
      <4>2. /\ Append(t, y) \in Seq(NS) /\ Len(Append(t, y)) = Len(t) + 1
            /\ Len(t) \in Nat /\ Len(t) >= 1 /\ Append(t, y)[Len(t) + 1] = y
            /\ \A j \in 1 .. Len(t) : Append(t, y)[j] = t[j]
        BY <4>1, AppendFacts
      <4>3. Append(t, y)[1] = Node(Start, g[Start])
        BY <3>3, <4>2 DEF PathTo
      <4>4. ASSUME NEW j \in 1 .. Len(t) PROVE Follows(call, Append(t, y)[j], Append(t, y)[j + 1])
        <5>1. CASE j = Len(t)
          <6>1. t[Len(t)] = Node(p, g[p]) /\ Len(t) \in 1 .. Len(t)
            BY <3>3, <4>2 DEF PathTo
          <6>2. Append(t, y)[j] = Node(p, g[p]) /\ Append(t, y)[j + 1] = y
            BY <4>2, <5>1, <6>1
          <6> QED BY <3>1, <3>4, <6>2
        <5>2. CASE j # Len(t)
          <6>1. j \in 1 .. Len(t) - 1 /\ j + 1 \in 1 .. Len(t)
            BY <4>2, <5>2
          <6> QED BY <3>3, <4>2, <6>1 DEF PathTo
        <5> QED BY <5>1, <5>2
      <4>5. Append(t, y) # <<>>
        BY <4>1
      <4>6. 1 .. Len(Append(t, y)) - 1 = 1 .. Len(t)
        BY <4>2
      <4> QED BY <3>4, <4>2, <4>3, <4>4, <4>5, <4>6 DEF PathTo, NS
    <3> QED BY <2>3, <2>6, <3>1, <3>3, <3>4, <3>5
  <2> QED BY <2>7, <2>8
<1>6. Depth(parent, final) <= N /\ N \in 0 .. N
  BY <1>2, DepthFalls
<1> QED BY <1>3, <1>5, <1>6

\* f[k] has what is kept of the last k nodes of t, for k up to m.
Keeps(call, t, n, m, f) ==
    f = [k \in 0 .. m |-> IF k = 0 THEN [i \in DOMAIN t |-> <<>>]
                         ELSE Kept(call, t, n - k + 1, f[k - 1])]

\* The recursive definition of ExtractPlan defines a function.
LEMMA KeptExist ==
    ASSUME NEW call, NEW t, NEW n
    PROVE  \A m \in Nat : \E f : Keeps(call, t, n, m, f)
<1> DEFINE Empty == [i \in DOMAIN t |-> <<>>]
           Levels(f, m) == f = [k \in 0 .. m |-> IF k = 0 THEN Empty ELSE Kept(call, t, n - k + 1, f[k - 1])]
<1> DEFINE Defined(m) == \E f : Levels(f, m)
<1>1. \A m \in Nat : Defined(m)
  <2> SUFFICES ASSUME NEW T \in SUBSET Nat, T = {m \in Nat : ~Defined(m)}, T # {}
               PROVE  FALSE
    <3> HIDE DEF Defined
    <3> QED OBVIOUS
  <2>1. PICK m \in T : \A k \in T : m <= k
    BY Least
  <2>2. CASE m = 0
    <3>1. Levels([k \in 0 .. 0 |-> Empty], 0)
      OBVIOUS
    <3> QED BY <2>2, <3>1
  <2>3. CASE m # 0
    <3>1. m - 1 \in Nat /\ m - 1 \notin T
      <4>1. m \in Nat /\ \A k \in T : m <= k
        BY <2>1
      <4> HIDE DEF Defined
      <4>2. m - 1 \in Nat /\ ~(m <= m - 1)
        BY <2>3, <4>1
      <4> QED BY <4>1, <4>2
    <3>2. PICK f : Levels(f, m - 1)
      BY <3>1
    <3> DEFINE h == [k \in 0 .. m |-> IF k = 0 THEN Empty ELSE Kept(call, t, n - k + 1, f[k - 1])]
    <3>3. \A k \in 0 .. m - 1 : k \in 0 .. m /\ (k # 0 => k - 1 \in 0 .. m - 1)
      BY <3>1
    <3>4. \A k \in 0 .. m - 1 : f[k] = IF k = 0 THEN Empty ELSE Kept(call, t, n - k + 1, f[k - 1])
      BY <3>2, <3>3
    <3>5. \A k \in 0 .. m : h[k] = IF k = 0 THEN Empty ELSE Kept(call, t, n - k + 1, f[k - 1])
      OBVIOUS
    <3>6. \A k \in 0 .. m - 1 : h[k] = f[k]
      BY <3>3, <3>4, <3>5
    <3>7. \A k \in 0 .. m : k # 0 => k - 1 \in 0 .. m - 1
      BY <3>1
    <3>8. h = [k \in 0 .. m |-> IF k = 0 THEN Empty ELSE Kept(call, t, n - k + 1, h[k - 1])]
      <4>1. \A k \in 0 .. m : h[k] = IF k = 0 THEN Empty ELSE Kept(call, t, n - k + 1, h[k - 1])
        BY <3>5, <3>6, <3>7
      <4> HIDE DEF Empty
      <4> QED BY <4>1
    <3> QED BY <3>8
  <2> QED BY <2>2, <2>3
<1> QED BY <1>1 DEF Keeps

LEMMA SubSeqFirst ==
    ASSUME NEW NS, NEW t \in Seq(NS), NEW i \in 1 .. Len(t)
    PROVE  <<t[i]>> \o SubSeq(t, i + 1, Len(t)) = SubSeq(t, i, Len(t))
<1>1. Len(t) \in Nat /\ i \in Nat
  OBVIOUS
<1>2. SubSeq(t, i + 1, Len(t)) \in Seq(NS) /\ Len(SubSeq(t, i + 1, Len(t))) = Len(t) - i
  BY <1>1
<1>3. SubSeq(t, i, Len(t)) \in Seq(NS) /\ Len(SubSeq(t, i, Len(t))) = Len(t) - i + 1
  BY <1>1
<1>4. \A j \in 1 .. Len(t) - i : SubSeq(t, i + 1, Len(t))[j] = t[i + j]
  BY <1>1
<1>5. \A j \in 1 .. Len(t) - i + 1 : SubSeq(t, i, Len(t))[j] = t[i + j - 1]
  BY <1>1
<1> DEFINE u == SubSeq(t, i + 1, Len(t))
           v == SubSeq(t, i, Len(t))
<1>6. /\ <<t[i]>> \o u \in Seq(NS) /\ Len(<<t[i]>> \o u) = Len(t) - i + 1
      /\ \A j \in 1 .. Len(t) - i + 1 :
            (<<t[i]>> \o u)[j] = IF j = 1 THEN t[i] ELSE u[j - 1]
  BY <1>1, <1>2
<1>7. \A j \in 1 .. Len(t) - i + 1 : (<<t[i]>> \o u)[j] = v[j]
  <2> SUFFICES ASSUME NEW j \in 1 .. Len(t) - i + 1 PROVE (<<t[i]>> \o u)[j] = v[j]
    OBVIOUS
  <2>1. CASE j = 1
    BY <1>1, <1>5, <1>6, <2>1
  <2>2. CASE j # 1
    <3>1. j - 1 \in 1 .. Len(t) - i /\ i + (j - 1) = i + j - 1
      BY <1>1, <2>2
    <3> QED BY <1>4, <1>5, <1>6, <2>2, <3>1
  <2> QED BY <2>1, <2>2
<1> QED BY <1>3, <1>6, <1>7

\* No node of a path is skipped.
LEMMA PlanOfPath ==
    ASSUME NEW call, NEW NS, NEW t \in Seq(NS), t # <<>>,
           \A k \in 1 .. Len(t) - 1 : Follows(call, t[k], t[k + 1])
    PROVE  ExtractPlan(call, t) = t
<1> DEFINE n == Len(t)
           Empty == [i \in DOMAIN t |-> <<>>]
<1>1. n \in Nat /\ n >= 1 /\ DOMAIN t = 1 .. n
  OBVIOUS
<1>2. PICK f : Keeps(call, t, n, n, f) /\ ExtractPlan(call, t) = <<t[1]>> \o f[n - 1][1]
  <2>1. \E f : Keeps(call, t, n, n, f)
    BY <1>1, KeptExist
  <2> DEFINE lastNodes == CHOOSE f : Keeps(call, t, n, n, f)
  <2>2. Keeps(call, t, n, n, lastNodes)
    BY <2>1
  <2>3. ExtractPlan(call, t) = <<t[1]>> \o lastNodes[n - 1][1]
    BY DEF ExtractPlan, Keeps
  <2> QED BY <2>2, <2>3
<1>3. \A k \in 0 .. n : f[k] = IF k = 0 THEN Empty ELSE Kept(call, t, n - k + 1, f[k - 1])
  BY <1>2 DEF Keeps
<1> HIDE DEF n, Empty
<1> DEFINE Rest(k) == f[k][n - k] = SubSeq(t, n - k + 1, n)
<1>4. \A k \in 0 .. n - 1 : Rest(k)
  <2> DEFINE T == {k \in Nat : k \in 0 .. n - 1 /\ ~Rest(k)}
  <2> SUFFICES ASSUME T # {} PROVE FALSE
    <3> HIDE DEF Rest
    <3>1. 0 .. n - 1 \subseteq Nat
      BY <1>1
    <3> QED BY <3>1
  <2>1. PICK k \in T : \A j \in T : k <= j
    <3>1. T \in SUBSET Nat
      OBVIOUS
    <3> HIDE DEF T
    <3> QED BY <3>1, Least
  <2>2. k \in 0 .. n - 1 /\ k \in Nat /\ ~Rest(k) /\ n - k \in 1 .. n /\ k \in 0 .. n
    BY <1>1, <2>1
  <2>3. CASE k = 0
    <3>1. f[k][n - k] = <<>>
      BY <1>1, <1>3, <2>2, <2>3 DEF Empty
    <3>2. SubSeq(t, n + 1, n) = <<>>
      BY <1>1 DEF n
    <3> QED BY <1>1, <2>2, <2>3, <3>1, <3>2
  <2>4. CASE k # 0
    <3>1. k - 1 \in 0 .. n - 1 /\ k - 1 < k /\ k - 1 \in Nat
      <4>1. k \in 0 .. n - 1 /\ k # 0
        BY <2>2, <2>4
      <4> QED BY <1>1, <4>1
    <3>2. Rest(k - 1)
      BY <2>1, <3>1
    <3>3. n - (k - 1) = n - k + 1 /\ n - k + 1 \in 1 .. n /\ n - k \in 1 .. n - 1
      BY <1>1, <2>2, <2>4
    <3>4. PICK i, rest : i = n - k /\ rest = f[k - 1]
      OBVIOUS
    <3>5. Follows(call, t[i], t[i + 1])
      BY <3>3, <3>4 DEF n
    <3>6. f[k] = Kept(call, t, i + 1, rest)
      BY <1>3, <2>2, <2>4, <3>4
    <3>7. f[k][i] = <<t[i + 1]>> \o rest[i + 1]
      BY <1>1, <2>2, <3>4, <3>5, <3>6 DEF Kept
    <3>8. rest[i + 1] = SubSeq(t, i + 2, n)
      <4>1. n - (k - 1) = i + 1 /\ n - (k - 1) + 1 = i + 2
        BY <1>1, <2>2, <3>4
      <4> QED BY <3>2, <3>4, <4>1
    <3>9. <<t[i + 1]>> \o SubSeq(t, i + 2, n) = SubSeq(t, i + 1, n)
      <4>1. i + 1 \in 1 .. n /\ i + 1 + 1 = i + 2
        BY <1>1, <3>3, <3>4
      <4> QED BY <4>1, SubSeqFirst DEF n
    <3> QED BY <2>2, <3>4, <3>7, <3>8, <3>9
  <2> QED BY <2>3, <2>4
<1>5. f[n - 1][1] = SubSeq(t, 2, n)
  <2>1. n - 1 \in 0 .. n - 1 /\ n - (n - 1) = 1 /\ n - (n - 1) + 1 = 2
    BY <1>1
  <2>2. Rest(n - 1)
    BY <1>4, <2>1
  <2> QED BY <2>1, <2>2
<1>6. <<t[1]>> \o SubSeq(t, 2, n) = t
  BY <1>1 DEF n
<1> QED BY <1>2, <1>5, <1>6

\* Where each state but the start follows its parent, the plan leads from the start to
\* the final state along its metrics.
LEMMA PlanIsPath ==
    ASSUME NEW call, NEW g, NEW parent, Acyclic(parent), NEW A \in SUBSET State, NEW final \in A,
           \A s \in A : \/ s = Start /\ parent[s] = None
                       \/ /\ parent[s] \in A
                          /\ Follows(call, Node(parent[s], g[parent[s]]), Node(s, g[s])),
           g[Start] = call.metric, final \in call.goals
    PROVE  LET plan == ExtractTotalOrderedPlan(call, parent, g, final)
           IN  ReachesGoal(call, plan) /\ Last(plan) = Node(final, g[final])
<1> DEFINE t == ExtractNodeTrajectory(parent, g, final)
<1>1. PathTo(call, g, t, final)
  BY TrajectoryIsPath
<1> HIDE DEF t
<1>2. ExtractPlan(call, t) = t
  BY <1>1, PlanOfPath DEF PathTo
<1>3. ExtractTotalOrderedPlan(call, parent, g, final) = t
  BY <1>2 DEF ExtractTotalOrderedPlan, t
<1>4. ReachesGoal(call, t) /\ Last(t) = Node(final, g[final])
  BY <1>1 DEF PathTo, ReachesGoal, Last, Node
<1> QED BY <1>3, <1>4
=============================================================================
