---------------------------- MODULE TaskGrounder ----------------------------
(***************************************************************************)
(* instantiate_ground_task (planning/lifted_task/task_grounder.cpp): the    *)
(* delete-free program of the task is solved, finite-domain variables are   *)
(* created for the reached atoms, and every reached action and axiom is     *)
(* grounded with literals pruned that no reachable state can change.        *)
(* Afterwards lifted and ground task are executed side by side.             *)
(***************************************************************************)
EXTENDS TaskPrograms, SequencesExt, FiniteSetsExt

CONSTANTS
    DerivedFacts,   \* the derived atoms; every other atom is fluent
    Tasks           \* the lifted tasks

\* What every task provides: finitely many actions, effects and axioms, atoms of its own
\* for the applicability of each action, axioms that derive derived atoms only.
WellFormed(t) ==
    LET applicability == {App(x) : x \in t.actions}
    IN  /\ IsFiniteSet(t.actions) /\ IsFiniteSet(t.axioms)
        /\ \A a \in t.actions : IsFiniteSet(a.effects) /\ \A e \in a.effects : IsFiniteSet(e.add)
        /\ \A a, b \in t.actions : App(a) = App(b) => a = b
        /\ applicability \cap (t.init \cup DerivedFacts) = {}
        /\ \A a \in t.actions : applicability \cap (a.cond.pos \cup UNION {e.add : e \in a.effects}) = {}
        /\ \A x \in t.axioms : x.head \in DerivedFacts
        /\ t.strata \in Seq(SUBSET DerivedFacts)

ASSUME TaskAssumption == \A t \in Tasks : WellFormed(t)

VARIABLES
    task,
    stage,      \* "program", "create", "ground", "done" or "unsolvable"
    reached,    \* the facts of the solved program, applicability atoms included
    variables,  \* Seq(Seq(atom)): FDRContext::m_variables; value 0 is none
    layout,     \* number of variables collected into the task
    goal, groundActions, groundAxioms,   \* of the ground task
    todo,       \* applicability atoms not yet grounded
    state,      \* state of the lifted task: its fluent atoms
    values,     \* state of the ground task: Seq(value)
    costs       \* costs of the plan so far: [lifted, ground]

vars == <<task, stage, reached, variables, layout, goal, groundActions, groundAxioms,
          todo, state, values, costs>>

-----------------------------------------------------------------------------
(* FDRContext *)

\* get_fact: the variable and value of an atom, a new variable if it has none.
Known(vs, f) == \E i \in DOMAIN vs : f \in ToSet(vs[i])

Fact(vs, f) ==
    LET i == CHOOSE j \in DOMAIN vs : f \in ToSet(vs[j])
    IN  <<i, CHOOSE v \in DOMAIN vs[i] : vs[i][v] = f>>

Facts(vs, F) == {Fact(vs, f) : f \in F}

\* The variables after get_fact was called for the atoms F.
Grown(vs, F) == vs \o [i \in 1 .. Cardinality({f \in F : ~Known(vs, f)}) |->
                          <<SetToSeq({f \in F : ~Known(vs, f)})[i]>>]

-----------------------------------------------------------------------------
(* ground_pruned *)

\* Mutant: a negative literal of an atom that is not reached is a contradiction too.
ContradictionBoth(c) == ~(c.pos \cup c.neg \subseteq reached)

\* classify_literal: a positive literal of an atom that is not reached is a
\* contradiction, a negative one a tautology.
Contradiction(c) == ~(c.pos \subseteq reached)
Mapped(c) == [c EXCEPT !.neg = @ \cap reached]

\* The condition over facts and derived literals.
GroundCondition(vs, c) ==
    LET m == Mapped(c)
    IN  [static |-> c.static,
         pos |-> Facts(vs, m.pos \ DerivedFacts), neg |-> Facts(vs, m.neg \ DerivedFacts),
         dpos |-> m.pos \cap DerivedFacts, dneg |-> m.neg \cap DerivedFacts]

\* Effects without added, deleted or numeric part are no-ops.
Kept(e) == ~Contradiction(e.cond) /\ (e.add \cup e.del # {} \/ e.numeric)

GroundEffect(vs, e) ==
    [cond |-> GroundCondition(vs, e.cond), add |-> Facts(vs, e.add), del |-> Facts(vs, e.del), cost |-> e.cost]

EffectAtoms(a) == UNION {e.add \cup e.del : e \in {d \in a.effects : Kept(d)}}

\* is_consistent: no variable has two values, no derived atom two polarities.
Consistent(c) ==
    /\ \A f, g \in c.pos : f[1] = g[1] => f[2] = g[2]
    /\ c.pos \cap c.neg = {}
    /\ c.dpos \cap c.dneg = {}

-----------------------------------------------------------------------------
(* Instantiation *)

Init ==
    /\ task \in Tasks
    /\ stage = "program"
    /\ reached = {}
    /\ variables = <<>>
    /\ layout = 0
    /\ goal = [static |-> TRUE, pos |-> {}, neg |-> {}, dpos |-> {}, dneg |-> {}]
    /\ groundActions = {}
    /\ groundAxioms = {}
    /\ todo = {}
    /\ state = task.init
    /\ values = <<>>
    /\ costs = <<0, 0>>

\* The delete-free program is solved from the initial atoms.
SolveProgram ==
    /\ stage = "program"
    /\ reached' = Fixpoint(GroundTaskProgram(task), task.init)
    /\ stage' = "create"
    /\ UNCHANGED <<task, variables, layout, goal, groundActions, groundAxioms, todo, state, values, costs>>

\* Variables for the mutex groups of the reached atoms or, without invariant
\* synthesis, for single atoms.
Groups ==
    LET fluent == reached \cap UNION {ToSet(g) : g \in ToSet(task.groups)}
        live == [i \in DOMAIN task.groups |-> SelectSeq(task.groups[i], LAMBDA f : f \in fluent)]
    IN  SelectSeq(live, LAMBDA g : g # <<>>)

InitialValues(vs) ==
    [i \in DOMAIN vs |-> LET true == {v \in DOMAIN vs[i] : vs[i][v] \in task.init}
                         IN  IF true = {} THEN 0 ELSE CHOOSE v \in true : TRUE]

\* The task's variables are collected here, before its actions are grounded.
CreateVariables ==
    /\ stage = "create"
    /\ variables' = Groups
    /\ layout' = Len(Groups)
    /\ values' = InitialValues(Groups)
    /\ IF Contradiction(task.goal)
       THEN stage' = "unsolvable" /\ UNCHANGED <<goal, todo>>
       ELSE /\ stage' = "ground"
            /\ goal' = GroundCondition(Groups, task.goal)
            /\ todo' = {x \in task.actions \cup task.axioms : App(x) \in reached}
    /\ UNCHANGED <<task, reached, groundActions, groundAxioms, state, costs>>

\* ground_pruned of an action: dropped if its condition is contradictory or
\* inconsistent, or if no effect is left.
GroundAction(a) ==
    /\ stage = "ground"
    /\ a \in todo \cap task.actions
    /\ todo' = todo \ {a}
    /\ variables' = IF Contradiction(a.cond) THEN variables ELSE Grown(variables, EffectAtoms(a))
    /\ LET cond == GroundCondition(variables', a.cond)
           effects == {GroundEffect(variables', e) : e \in {d \in a.effects : Kept(d)}}
       IN  groundActions' = IF ~Contradiction(a.cond) /\ effects # {} /\ Consistent(cond)
                            THEN groundActions \cup {[name |-> a.name, cond |-> cond, effects |-> effects]}
                            ELSE groundActions
    /\ UNCHANGED <<task, stage, reached, layout, goal, groundAxioms, state, values, costs>>

\* Axioms are grounded after the actions.
GroundAxiom(x) ==
    /\ stage = "ground"
    /\ todo \cap task.actions = {}
    /\ x \in todo
    /\ todo' = todo \ {x}
    /\ LET body == GroundCondition(variables, x.body)
       IN  groundAxioms' = IF ~Contradiction(x.body) /\ x.head \in reached /\ Consistent(body)
                           THEN groundAxioms \cup {[body |-> body, head |-> x.head]}
                           ELSE groundAxioms
    /\ UNCHANGED <<task, stage, reached, variables, layout, goal, groundActions, state, values, costs>>

Finish ==
    /\ stage = "ground"
    /\ todo = {}
    /\ stage' = "done"
    /\ UNCHANGED <<task, reached, variables, layout, goal, groundActions, groundAxioms, todo, state, values, costs>>

-----------------------------------------------------------------------------
(* Execution *)

\* The extended state of the lifted task, and its applicable actions, as the
\* programs of the task compute them.
ExtendedState == Stratified(AxiomProgram(task), task.strata, state)
Applicable == {a \in task.actions : App(a) \in Fixpoint(ActionProgram(task), ExtendedState)}

\* Added, deleted and cost of what fires among effects, deletes before adds.
SumCosts(E) == MapThenSumSet(LAMBDA e : e.cost, E)

\* The ground task's counterparts, over values and derived atoms D. The match trees
\* leave the static literals out.
Matches(c, D) ==
    /\ \A f \in c.pos : values[f[1]] = f[2]
    /\ \A f \in c.neg : values[f[1]] # f[2]
    /\ c.dpos \subseteq D /\ c.dneg \cap D = {}

HoldsGround(c, D) == c.static /\ Matches(c, D)

\* compute_extended_state: stratum by stratum until nothing new is discovered.
DerivedGround ==
    LET step(S, D) == D \cup {x.head : x \in {y \in groundAxioms : y.head \in S /\ Matches(y.body, D)}}
        close(S, D0) == LET d[n \in 0 .. Cardinality(DerivedFacts)] == IF n = 0 THEN D0 ELSE LET D == d[n - 1] IN step(S, D)
                        IN  d[Cardinality(DerivedFacts)]
        model[k \in 0 .. Len(task.strata)] == IF k = 0 THEN {} ELSE LET D == model[k - 1] IN close(task.strata[k], D)
    IN  model[Len(task.strata)]

ApplicableGround == {a \in groundActions : HoldsGround(a.cond, DerivedGround)}

\* A value of a variable outside the layout is memory behind the vector; here
\* it is left alone.
SuccessorValues(effects) ==
    LET del == UNION {e.del : e \in effects}
        add == UNION {e.add : e \in effects}
    IN  [i \in DOMAIN values |->
            IF \E f \in add : f[1] = i THEN (CHOOSE f \in add : f[1] = i)[2]
            ELSE IF <<i, values[i]>> \in del THEN 0 ELSE values[i]]

\* One step of both tasks by the action of one name.
Execute(a) ==
    /\ stage \in {"done", "unsolvable"}
    /\ a \in Applicable
    /\ LET fired == {e \in a.effects : Holds(e.cond, ExtendedState)}
           ground == {b \in ApplicableGround : b.name = a.name}
           firedGround == UNION {{e \in b.effects : HoldsGround(e.cond, DerivedGround)} : b \in ground}
       IN  /\ state' = (state \ UNION {e.del : e \in fired}) \cup UNION {e.add : e \in fired}
           /\ values' = SuccessorValues(firedGround)
           /\ costs' = <<SumCosts(fired), SumCosts(firedGround)>>
    /\ UNCHANGED <<task, stage, reached, variables, layout, goal, groundActions, groundAxioms, todo>>

Next ==
    \/ SolveProgram
    \/ CreateVariables
    \/ \E a \in task.actions : GroundAction(a)
    \/ \E x \in task.axioms : GroundAxiom(x)
    \/ Finish
    \/ \E a \in task.actions : Execute(a)

Spec == Init /\ [][Next]_vars

-----------------------------------------------------------------------------
(* Properties *)

\* The fluent atoms of the ground state.
AtomsOf == {variables[i][values[i]] : i \in {j \in DOMAIN values : values[j] # 0}}

\* An action the ground task lacks may only be one that changes nothing.
NoEffect(a) ==
    \A e \in a.effects : Holds(e.cond, ExtendedState) =>
        e.add \subseteq state /\ e.del \cap state \subseteq e.add /\ ~e.numeric

\* Every fact an applicable ground action reads or writes belongs to a variable
\* of the task's state layout (UnpackedState<GroundTag>::get asserts it).
FactsInLayout ==
    stage = "done" =>
        \A a \in ApplicableGround : \A e \in a.effects :
            HoldsGround(e.cond, DerivedGround) => \A f \in e.add \cup e.del : f[1] <= layout

\* An axiom is grounded only for bindings that satisfy its static literals, which the
\* axiom match trees do not test (instantiate_ground_task asserts it).
AxiomsStatic == \A x \in groundAxioms : x.body.static

\* A step costs the same in both tasks.
CostsAgree == stage = "done" => costs[1] = costs[2]

\* The verdict PROVEN_UNSOLVABLE is given only if no reachable state satisfies the goal
\* (instantiate_ground_task).
VerdictRight == stage = "unsolvable" => ~Holds(task.goal, ExtendedState)

\* Whatever the lifted task does, the ground task does too: the same atoms, derived
\* ones included, the same goal, the same applicable actions but for those without
\* effect, at the same cost, within the state layout; and a verdict that there is no
\* plan is right.
LiftedAndGroundAgree ==
    /\ stage = "done" =>
        /\ AtomsOf = state
        /\ DerivedGround = ExtendedState \cap DerivedFacts
        /\ HoldsGround(goal, DerivedGround) <=> Holds(task.goal, ExtendedState)
        /\ {a.name : a \in ApplicableGround} \subseteq {a.name : a \in Applicable}
        /\ \A a \in Applicable : NoEffect(a) \/ \E b \in ApplicableGround : b.name = a.name
    /\ VerdictRight /\ FactsInLayout /\ AxiomsStatic /\ CostsAgree

\* What the relaxed planning graph program derives from a state only shrinks along a
\* plan, so that a goal atom it does not derive is never reached: the dead ends that
\* the heuristics report are dead ends (RPGProgram drops negative and derived
\* literals and deletes).
DeadEndsStay ==
    [][(stage \in {"done", "unsolvable"} =>
        Fixpoint(RPGProgram(task, DerivedFacts), state') \subseteq Fixpoint(RPGProgram(task, DerivedFacts), state))]_vars
=============================================================================
