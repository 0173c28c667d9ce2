----------------------------- MODULE FFHeuristic ----------------------------
(***************************************************************************)
(* The FF heuristic of a lifted task (planning/lifted_task/heuristics/      *)
(* rpg_ff.cpp) on top of the engine with costs, and the successor generator *)
(* that shares its cache of ground actions.                                 *)
(*                                                                          *)
(* The delete-free program has one rule for every add literal of every      *)
(* conditional effect. A binding of a rule is the binding of the action's   *)
(* parameters followed by the objects of the effect's universally           *)
(* quantified variables. After a solve the witnesses are followed from the  *)
(* goals; the actions met are the relaxed plan, the applicable ones among   *)
(* them are preferred.                                                      *)
(***************************************************************************)
EXTENDS BottomUpCosts, Sequences, SequencesExt

CONSTANTS
    Binding,       \* bindings of the actions' parameters
    BindingOf,     \* [Instance -> Binding]: the action (rule_to_action) and its objects
    EffectOf,      \* [Instance -> effect]: the conditional effect the rule was made from
    RowOf,         \* [Instance -> Seq(object)]: the objects of its effect variables
    EffectsOf,     \* [Binding -> SUBSET effect]
    Rows,          \* [effect -> SUBSET Seq(object)]: the domains of its effect variables
    Precondition,  \* [Binding -> SUBSET Fact]
    Forbidden      \* [Binding -> SUBSET Fact]: the negative preconditions

\* The positive preconditions are part of the body of every rule of the action.
ASSUME RelaxationAssumption ==
    \A i \in Instance :
        /\ BindingOf[i] \in Binding
        /\ EffectOf[i] \in EffectsOf[BindingOf[i]]
        /\ RowOf[i] \in Rows[EffectOf[i]]
        /\ Body(i) \subseteq Positive
        /\ Precondition[BindingOf[i]] \subseteq {Atom[l] : l \in Body(i)}

ASSUME FiniteAssumption == IsFiniteSet(Goal) /\ \A i \in Instance : IsFiniteSet(Body(i))

VARIABLES
    phase,        \* "solve", "extract" or "returned"
    calls,        \* atoms the recursion still has to visit, the next one first
    marked,       \* m_markings
    plan,         \* m_relaxed_plan
    preferred,    \* m_preferred_actions
    preferredViews, dirty,   \* m_preferred_action_views and its dirty flag
    cache,        \* the task's grounder cache: binding -> effects of the ground action
    successors    \* binding -> atoms its ground action adds in the state

ffVars == <<phase, calls, marked, plan, preferred, preferredViews, dirty, cache, successors>>
allVars == <<vars, ffVars>>

-----------------------------------------------------------------------------
(* Grounding an action *)

\* ground(ActionView): the effects of binding b, for a context whose binding has
\* the objects row behind the action's parameters. The objects of the effect
\* variables are appended to that.
GroundEffects(b, row) ==
    UNION {{<<c, SubSeq(row \o t, 1, Len(t))>> : t \in Rows[c]} : c \in EffectsOf[b]}

\* The cache wins over the context.
Ground(b, row) == IF b \in DOMAIN cache THEN cache[b] ELSE GroundEffects(b, row)

Cached(c, b, row) == [x \in DOMAIN c \cup {b} |-> IF x \in DOMAIN c THEN c[x] ELSE GroundEffects(b, row)]

IsApplicable(b, s) == Precondition[b] \subseteq s /\ Forbidden[b] \cap s = {}

\* The atoms added in s by an action with these effects.
AddedBy(b, effects, s) ==
    {HeadOf[i] : i \in {j \in Instance : /\ BindingOf[j] = b
                                         /\ <<EffectOf[j], RowOf[j]>> \in effects
                                         /\ Holds(Body(j), s)}}

-----------------------------------------------------------------------------
FFInit ==
    /\ Init
    /\ phase = "solve"
    /\ calls = <<>>
    /\ marked = {}
    /\ plan = {}
    /\ preferred = {}
    /\ preferredViews = {}
    /\ dirty = TRUE
    /\ cache = EmptyMap
    /\ successors = EmptyMap

\* A step of solve_bottom_up.
SolveStep ==
    /\ EngineStep
    /\ UNCHANGED ffVars

\* Mutant: the markings of the last evaluation are kept.
BeginExtractionMarked ==
    /\ phase' = "extract"
    /\ calls' = SetToSeq(Goal)
    /\ plan' = {}
    /\ preferred' = {}
    /\ dirty' = TRUE
    /\ UNCHANGED <<marked, preferredViews, cache, successors>>

\* extract_cost_and_set_preferred_actions_impl, up to its loop over the goals.
BeginExtraction ==
    /\ phase' = "extract"
    /\ calls' = SetToSeq(Goal)
    /\ marked' = {}
    /\ plan' = {}
    /\ preferred' = {}
    /\ dirty' = TRUE
    /\ UNCHANGED <<preferredViews, cache, successors>>

\* evaluate after the solve: no extraction without proven goals.
EndSolve ==
    /\ phase = "solve"
    /\ pc = "done"
    /\ \/ unsatGoals = {} /\ BeginExtraction
       \/ /\ unsatGoals # {}
          /\ phase' = "returned"
          /\ UNCHANGED <<calls, marked, plan, preferred, preferredViews, dirty, cache, successors>>
    /\ UNCHANGED vars

\* extract_relaxed_plan_and_preferred_actions: marked atoms and atoms without
\* witness end the recursion, any other atom adds the action of its witness and
\* calls itself for the witness's body.
ExtractAtom ==
    /\ phase = "extract"
    /\ calls # <<>>
    /\ LET f == Head(calls)
       IN  /\ marked' = marked \cup {f}
           /\ \/ /\ f \in marked \/ f \notin DOMAIN andAnnot
                 /\ calls' = Tail(calls)
                 /\ UNCHANGED <<plan, preferred, cache>>
              \/ /\ f \notin marked /\ f \in DOMAIN andAnnot
                 /\ LET i == andAnnot[f].inst
                        action == <<BindingOf[i], Ground(BindingOf[i], RowOf[i])>>
                    IN  /\ calls' = SetToSeq({Atom[l] : l \in Body(i)}) \o Tail(calls)
                        /\ cache' = Cached(cache, BindingOf[i], RowOf[i])
                        /\ plan' = plan \cup {action}
                        /\ preferred' = IF IsApplicable(BindingOf[i], start)
                                        THEN preferred \cup {action} ELSE preferred
    /\ UNCHANGED <<phase, preferredViews, dirty, successors, vars>>

EndExtraction ==
    /\ phase = "extract"
    /\ calls = <<>>
    /\ phase' = "returned"
    /\ UNCHANGED <<calls, marked, plan, preferred, preferredViews, dirty, cache, successors, vars>>

\* get_preferred_action_views.
GetPreferredActionViews ==
    /\ phase = "returned"
    /\ dirty
    /\ dirty' = FALSE
    /\ preferredViews' = preferred
    /\ UNCHANGED <<phase, calls, marked, plan, preferred, cache, successors, vars>>

\* SuccessorGenerator::get_labeled_successor_nodes for the evaluated state.
GenerateSuccessors ==
    /\ phase = "returned"
    /\ LET applicable == {b \in Binding : IsApplicable(b, start)}
       IN  /\ cache' = [b \in DOMAIN cache \cup applicable |-> Ground(b, <<>>)]
           /\ successors' = [b \in applicable |-> AddedBy(b, cache'[b], start)]
    /\ UNCHANGED <<phase, calls, marked, plan, preferred, preferredViews, dirty, vars>>

\* The next evaluation.
Reevaluate(S) ==
    /\ phase = "returned"
    /\ Solve(S)
    /\ phase' = "solve"
    /\ successors' = EmptyMap
    /\ UNCHANGED <<calls, marked, plan, preferred, preferredViews, dirty, cache>>

FFNext ==
    \/ SolveStep
    \/ EndSolve
    \/ ExtractAtom
    \/ EndExtraction
    \/ GetPreferredActionViews
    \/ GenerateSuccessors
    \/ \E S \in StartFacts : Reevaluate(S)

FFSpec == FFInit /\ [][FFNext]_allVars

-----------------------------------------------------------------------------
(* Properties *)

\* The plan contains the conditional effect that instance i stands for.
InPlan(i) == \E a \in plan : a[1] = BindingOf[i] /\ <<EffectOf[i], RowOf[i]>> \in a[2]

\* F contains the state and what the effects of the plan's actions add to F.
ClosedUnderPlan(F) ==
    /\ start \subseteq F
    /\ \A i \in Instance : InPlan(i) /\ Holds(Body(i), F) => HeadOf[i] \in F

\* Reference: what the state reaches with the actions of the plan if nothing is
\* deleted.
RelaxedReach == {f \in Fact : \A F \in SUBSET Fact : ClosedUnderPlan(F) => f \in F}

\* When an evaluation with a finite value returns, the relaxed plan solves the
\* delete-free task from the evaluated state, is no longer than the sum of the
\* goals' costs (h_add), and the preferred actions, also through the cached
\* views, are its actions that are applicable in that state, whatever earlier
\* evaluations left behind (extract_relaxed_plan_and_preferred_actions).
RelaxedPlanRight ==
    phase = "returned" /\ unsatGoals = {} =>
        /\ Goal \subseteq RelaxedReach
        /\ Cardinality(plan) <= Aggregate([f \in Goal |-> orAnnot[f]])
        /\ preferred = {a \in plan : IsApplicable(a[1], start)}
        /\ ~dirty => preferredViews = preferred

\* The ground action an applicable binding is expanded with does what the binding
\* itself does (get_labeled_successor_nodes against get_successor_node of a binding).
SuccessorsAgree ==
    \A b \in DOMAIN successors : successors[b] = AddedBy(b, GroundEffects(b, <<>>), start)
=============================================================================
