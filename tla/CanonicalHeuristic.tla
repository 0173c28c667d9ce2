-------------------------- MODULE CanonicalHeuristic --------------------------
(***************************************************************************)
(* The canonical heuristic over lifted projections: the generator turns     *)
(* each pattern into a projection, vertex by vertex; each projection gets   *)
(* its table of goal distances; projections whose transition labels never   *)
(* overlap may be added up, and the maximal cliques of that relation are    *)
(* the sums the heuristic takes the maximum of.  A search then walks        *)
(* through concrete states and evaluates the heuristic in each.             *)
(* (projection_generator.cpp, projection_abstraction.cpp, canonical.cpp)    *)
(*                                                                         *)
(* First lifted pattern databases: project_task (task_projection.cpp), the  *)
(* explicit projection built over all 2^|pattern| abstract states by        *)
(* matching lifted effects against the difference of two states             *)
(* (projection_generator.cpp), and the label of each abstract transition.   *)
(*                                                                         *)
(* A term is <<"p", i>>, parameter i counted from 0, or <<"o", n>>, object  *)
(* n > 0.  An atom is <<predicate, terms>>; a literal is [atom, polarity].  *)
(* A condition is [static, fluent] and an action [name, arity, cost,        *)
(* condition, effects]; an effect is [vars, condition, literals], whose own *)
(* variables are numbered from the action's arity on.  A substitution maps  *)
(* parameters to objects, 0 for an unbound one.                             *)
(***************************************************************************)
EXTENDS Integers, Sequences, FiniteSets, SequencesExt, FiniteSetsExt, Functions

Unbound == 0

-----------------------------------------------------------------------------
(* Terms, substitution and matching *)

IsGround(atom) == \A i \in DOMAIN atom[2] : atom[2][i][1] = "o"

\* apply_substitution_fixpoint: substitutions built here bind objects only.
ApplySubstitution(atom, sigma) ==
    LET apply(t) == IF t[1] = "p" /\ sigma[t[2]] # Unbound THEN <<"o", sigma[t[2]]>> ELSE t
    IN  <<atom[1], [i \in DOMAIN atom[2] |-> apply(atom[2][i])]>>

\* match of an atom with a ground one: the extension of sigma, if there is one.
Match(atom, target, sigma) ==
    LET at(p) == {i \in DOMAIN atom[2] : atom[2][i] = <<"p", p>>}
        extended == [p \in DOMAIN sigma |->
                        IF sigma[p] = Unbound /\ at(p) # {} THEN target[2][Min(at(p))][2] ELSE sigma[p]]
    IN  IF atom[1] = target[1] /\ ApplySubstitution(atom, extended) = target THEN {extended} ELSE {}

-----------------------------------------------------------------------------
(* project_task *)

Predicates(pattern) == {atom[1] : atom \in Range(pattern)}

ParametersOf(literals, predicates) ==
    FlattenSeq([i \in DOMAIN literals |->
        IF literals[i].atom[1] \in predicates
        THEN SelectSeq(literals[i].atom[2], LAMBDA t : t[1] = "p") ELSE <<>>])

\* compute_variable_remapping: the parameters of literals over predicates of
\* the pattern, numbered in the order in which they first occur.  The result
\* is projected_to_original: entry i + 1 is the original of parameter i.
ProjectedToOriginal(action, pattern) ==
    LET preds == Predicates(pattern)
        occurring == ParametersOf(action.condition.fluent, preds) \o
            FlattenSeq([i \in DOMAIN action.effects |->
                ParametersOf(action.effects[i].condition.fluent, preds) \o
                ParametersOf(action.effects[i].literals, preds)])
        add(kept, t) == IF Contains(kept, t[2]) THEN kept ELSE Append(kept, t[2])
    IN  FoldLeft(add, <<>>, occurring)

\* should_keep and merge_projected_literal.
ProjectLiterals(literals, kept, keep(_)) ==
    LET inDomain(l) == \A i \in DOMAIN l.atom[2] : l.atom[2][i][1] = "p" => Contains(kept, l.atom[2][i][2])
        chosen == SelectSeq(literals, LAMBDA l : keep(l) /\ inDomain(l))
        remap(t) == IF t[1] = "p" THEN <<"p", (CHOOSE i \in DOMAIN kept : kept[i] = t[2]) - 1>> ELSE t
    IN  [j \in DOMAIN chosen |->
            [chosen[j] EXCEPT !.atom = <<@[1], [i \in DOMAIN @[2] |-> remap(@[2][i])]>>]]

ProjectCondition(condition, kept, pattern) ==
    [static |-> ProjectLiterals(condition.static, kept, LAMBDA l : TRUE),
     fluent |-> ProjectLiterals(condition.fluent, kept, LAMBDA l : l.atom[1] \in Predicates(pattern))]

ProjectEffect(effect, kept, pattern) ==
    [condition |-> ProjectCondition(effect.condition, kept, pattern),
     literals |-> ProjectLiterals(effect.literals, kept, LAMBDA l : l.atom[1] \in Predicates(pattern))]

\* append_projected_action: project_variables keeps as many variables as the
\* mapping has parameters of the action (and of the effect).
ProjectAction(action, pattern) ==
    LET kept == ProjectedToOriginal(action, pattern)
    IN  [original |-> action,
         kept |-> kept,
         arity |-> Cardinality({p \in Range(kept) : p < action.arity}),
         condition |-> ProjectCondition(action.condition, kept, pattern),
         effects |-> [i \in DOMAIN action.effects |-> ProjectEffect(action.effects[i], kept, pattern)]]

-----------------------------------------------------------------------------
(* Matching an action against a pair of abstract states *)

\* satisfy_static_literals_rec for one literal.
StaticOptions(literal, statics, sigma) ==
    LET atom == ApplySubstitution(literal.atom, sigma)
    IN  IF IsGround(atom) THEN IF (atom \in statics) = literal.polarity THEN {sigma} ELSE {}
        ELSE IF ~literal.polarity THEN {}
        ELSE UNION {Match(atom, target, sigma) : target \in statics}

SatisfyStaticLiterals(literals, statics, sigma) ==
    FoldLeft(LAMBDA sigmas, l : UNION {StaticOptions(l, statics, s) : s \in sigmas}, {sigma}, literals)

\* visible_fluent_literals_hold_in_src: literals that are not ground or not in
\* the pattern are ignored.
VisibleFluentLiteralsHold(literals, src, pattern, sigma) ==
    \A i \in DOMAIN literals :
        LET atom == ApplySubstitution(literals[i].atom, sigma)
        IN  IsGround(atom) /\ atom \in Range(pattern) => (atom \in src) = literals[i].polarity

SatisfyCondition(condition, statics, src, pattern, sigma) ==
    {s \in SatisfyStaticLiterals(condition.static, statics, sigma) :
        VisibleFluentLiteralsHold(condition.fluent, src, pattern, s)}

\* unify_changes_rec: every way to explain each added and deleted atom by an
\* effect literal.
UnifyChanges(action, added, deleted, sigma) ==
    LET literals == UNION {Range(action.effects[i].literals) : i \in DOMAIN action.effects}
        explain(target, sigmas, polarity) ==
            UNION {Match(l.atom, target, s) : l \in {k \in literals : k.polarity = polarity}, s \in sigmas}
        adds == FoldSet(LAMBDA target, sigmas : explain(target, sigmas, TRUE), {sigma}, added)
    IN  FoldSet(LAMBDA target, sigmas : explain(target, sigmas, FALSE), adds, deleted)

\* One effect of enumerate_verified_bindings_rec: skip it, or satisfy its
\* condition and produce its visible literals.  A literal that is not ground,
\* or that the target state contradicts, discards the binding.
EffectOptions(effect, partial, statics, src, dst, pattern) ==
    LET ground(s) == {[l EXCEPT !.atom = ApplySubstitution(@, s)] : l \in Range(effect.literals)}
        visible(s, polarity) == {l.atom : l \in {k \in ground(s) : k.polarity = polarity}} \cap Range(pattern)
        fires(s) == /\ \A l \in ground(s) : IsGround(l.atom)
                    /\ visible(s, TRUE) \subseteq dst
                    /\ visible(s, FALSE) \cap dst = {}
    IN  {partial} \cup
        {[sigma |-> s, add |-> partial.add \cup visible(s, TRUE), del |-> partial.del \cup visible(s, FALSE)] :
            s \in {t \in SatisfyCondition(effect.condition, statics, src, pattern, partial.sigma) : fires(t)}}

\* enumerate_verified_bindings_rec over all effects.
VerifiedBindings(action, statics, src, dst, pattern, sigma) ==
    LET done == FoldLeft(LAMBDA partials, e : UNION {EffectOptions(e, p, statics, src, dst, pattern) : p \in partials},
                         {[sigma |-> sigma, add |-> {}, del |-> {}]}, action.effects)
    IN  {p.sigma : p \in {q \in done : /\ q.add = dst \ src
                                       /\ q.del = src \ dst
                                       /\ q.add # {} \/ q.del # {}}}

\* for_each_unifier, with to_object_substitution restricting the result to the
\* parameters of the projected action.
Unifiers(action, statics, src, dst, pattern) ==
    LET blank == [p \in 0 .. Len(action.kept) - 1 |-> Unbound]
        unified == UnifyChanges(action, dst \ src, src \ dst, blank)
        conditioned == UNION {SatisfyCondition(action.condition, statics, src, pattern, s) : s \in unified}
        verified == UNION {VerifiedBindings(action, statics, src, dst, pattern, s) : s \in conditioned}
    IN  {[p \in 0 .. action.arity - 1 |-> s[p]] : s \in verified}

\* lift_substitution_to_original: assign() throws when the projected parameter
\* stands for a variable that is not a parameter of the original action.
LiftThrows(action, sigma) ==
    \E p \in DOMAIN sigma : sigma[p] # Unbound /\ action.kept[p + 1] >= action.original.arity

LiftSubstitution(action, sigma) ==
    [q \in 0 .. action.original.arity - 1 |->
        LET from == {p \in DOMAIN sigma : action.kept[p + 1] = q}
        IN  IF from = {} THEN Unbound ELSE sigma[CHOOSE p \in from : TRUE]]

-----------------------------------------------------------------------------
(* Abstract states *)

\* The increment of for_each_boolean_vector: set the first FALSE, clear those
\* before it; <<>> when it overflows.
Increment(vec) ==
    LET clear == {i \in DOMAIN vec : ~vec[i]}
    IN  IF clear = {} THEN <<>>
        ELSE [i \in DOMAIN vec |-> IF i < Min(clear) THEN FALSE ELSE i = Min(clear) \/ vec[i]]

AbstractState(pattern, vec) == {pattern[i] : i \in {j \in DOMAIN pattern : vec[j]}}

\* The projected goal keeps the facts of the pattern.
IsAbstractGoal(goal, pattern, astate) ==
    /\ goal.positive \cap Range(pattern) \subseteq astate
    /\ goal.negative \cap Range(pattern) \cap astate = {}

\* map_state: bit i of the index is set when fact i of the pattern holds.
MapState(pattern, state) ==
    FoldLeftDomain(LAMBDA r, i : IF pattern[i] \in state THEN r + 2 ^ (i - 1) ELSE r, 0, pattern)

\* dijkstra_shortest_paths over the backward graph with weight 1 on every edge
\* (boost): the distance to the closest goal vertex, Infinity if there is none.
Distances(numVertices, edges, goals, Infinity) ==
    LET reach[k \in 0 .. numVertices] ==
            IF k = 0 THEN goals
            ELSE reach[k - 1] \cup {e[1] : e \in {f \in edges : f[2] \in reach[k - 1]}}
    IN  [v \in 0 .. numVertices - 1 |->
            IF v \in reach[numVertices] THEN Min({k \in 0 .. numVertices : v \in reach[k]}) ELSE Infinity]

-----------------------------------------------------------------------------
(* The heuristic and the search that uses it                                *)

CONSTANTS
    Tasks,     \* lifted tasks with the pattern collections to try on them
    Infinity   \* std::numeric_limits<float_t>::infinity()

VARIABLES
    task,         \* the lifted task
    patterns,     \* m_patterns
    vec,          \* create_abstract_states: the boolean vector
    astates,      \* abstract states of the current pattern, by index
    transitions,  \* transitions of the current pattern
    source,       \* index of the next source vertex
    projections,  \* finished projections, with their distances
    partitions,   \* m_additive_partitions
    state,        \* the concrete state of the search
    phase         \* "project", "states", "transitions", "canonical", "search", "threw"
vars == <<task, patterns, vec, astates, transitions, source, projections, partitions, state, phase>>

-----------------------------------------------------------------------------
(* compute_maximal_cliques (src/graphs/bron_kerbosch.cpp): Bron and          *)
(* Kerbosch's enumeration with a pivot, over a graph given by its            *)
(* neighbourhoods, graph[v] \subseteq DOMAIN graph. Cliques are sets; the    *)
(* list of cliques keeps repetitions.                                        *)

\* (mutant) the pivot is any vertex of the graph, also one left out before.
ChoosePivotAdjacent(graph, candidates, excluded) ==
    LET most == Max({Cardinality(candidates \cap graph[u]) : u \in DOMAIN graph})
    IN  Min({u \in DOMAIN graph : Cardinality(candidates \cap graph[u]) = most})

\* The first vertex of P or X with the most neighbours in P.
ChoosePivot(graph, candidates, excluded) ==
    LET score(u) == Cardinality(candidates \cap graph[u])
        best == Max({score(u) : u \in candidates \cup excluded})
    IN  Min({u \in candidates \cup excluded : score(u) = best})

\* bron_kerbosch_pivot: the loop moves each vertex of the extension from the
\* candidates to the excluded ones after its recursive call.
RECURSIVE BronKerboschPivot(_, _, _, _)
BronKerboschPivot(graph, clique, candidates, excluded) ==
    IF candidates = {} /\ excluded = {} THEN <<clique>>
    ELSE LET pivot == ChoosePivot(graph, candidates, excluded)
             extension == SetToSortSeq(candidates \ graph[pivot], <)
             step(loop, v) ==
                 [found |-> loop.found \o
                      BronKerboschPivot(graph, clique \cup {v}, loop.P \cap graph[v], loop.X \cap graph[v]),
                  P |-> loop.P \ {v},
                  X |-> loop.X \cup {v}]
         IN  FoldLeft(step, [found |-> <<>>, P |-> candidates, X |-> excluded], extension).found

\* Without vertices the result is one empty clique.
ComputeMaximalCliques(graph) ==
    IF DOMAIN graph = {} THEN <<{}>>
    ELSE BronKerboschPivot(graph, {}, DOMAIN graph, {})

IsClique(graph, c) == \A u, v \in c : u # v => v \in graph[u]

\* The cliques to which no vertex can be added.
MaximalCliques(graph) ==
    {c \in SUBSET DOMAIN graph :
        /\ IsClique(graph, c)
        /\ \A v \in DOMAIN graph \ c : ~IsClique(graph, c \cup {v})}

-----------------------------------------------------------------------------
(* Concrete semantics *)

Bindings(n) == [0 .. n - 1 -> task.objects]

HoldsUnder(condition, sigma, s) ==
    /\ \A i \in DOMAIN condition.static :
           (ApplySubstitution(condition.static[i].atom, sigma) \in task.static) = condition.static[i].polarity
    /\ \A i \in DOMAIN condition.fluent :
           (ApplySubstitution(condition.fluent[i].atom, sigma) \in s) = condition.fluent[i].polarity

Effects(action, sigma, s, polarity) ==
    UNION {LET e == action.effects[i]
           IN  {ApplySubstitution(l.atom, b) :
                   l \in {k \in Range(e.literals) : k.polarity = polarity},
                   b \in {c \in Bindings(action.arity + e.vars) :
                             /\ \A p \in DOMAIN sigma : c[p] = sigma[p]
                             /\ HoldsUnder(e.condition, c, s)}}
           : i \in DOMAIN action.effects}

Successor(action, sigma, s) == (s \ Effects(action, sigma, s, FALSE)) \cup Effects(action, sigma, s, TRUE)

-----------------------------------------------------------------------------
(* Projections *)

Pattern == patterns[Len(projections) + 1]

Init ==
    /\ task \in Tasks
    /\ patterns \in task.patterns
    /\ vec = <<>> /\ astates = <<>> /\ transitions = {} /\ source = 0
    /\ projections = <<>> /\ partitions = <<>>
    /\ state = task.initial
    /\ phase = "project"

\* create_projection starts on the next pattern.
StartProjection ==
    /\ phase = "project"
    /\ IF Len(projections) = Len(patterns)
       THEN phase' = "canonical" /\ UNCHANGED <<vec, astates, transitions, source>>
       ELSE /\ vec' = [i \in DOMAIN Pattern |-> FALSE]
            /\ astates' = <<{}>>
            /\ transitions' = {} /\ source' = 0
            /\ phase' = "states"
    /\ UNCHANGED <<task, patterns, projections, partitions, state>>

\* The next boolean vector is registered as an abstract state.
CreateAbstractState ==
    /\ phase = "states"
    /\ vec' = Increment(vec)
    /\ IF vec' = <<>>
       THEN phase' = "transitions" /\ UNCHANGED astates
       ELSE astates' = Append(astates, AbstractState(Pattern, vec')) /\ UNCHANGED phase
    /\ UNCHANGED <<task, patterns, transitions, source, projections, partitions, state>>

\* (mutant) the abstract difference is matched from target to source.
TransitionsFromSwapped(i) ==
    UNION {{[action |-> a, sigma |-> s, src |-> i, dst |-> j] :
               s \in Unifiers(a, task.static, astates[j + 1], astates[i + 1], Pattern)} :
           j \in (0 .. Len(astates) - 1) \ {i},
           a \in {ProjectAction(b, Pattern) : b \in task.actions}}

\* All transitions that leave abstract state i.
TransitionsFrom(i) ==
    UNION {{[action |-> a, sigma |-> s, src |-> i, dst |-> j] :
               s \in Unifiers(a, task.static, astates[i + 1], astates[j + 1], Pattern)} :
           j \in (0 .. Len(astates) - 1) \ {i},
           a \in {ProjectAction(b, Pattern) : b \in task.actions}}

\* create_abstract_state_changing_transitions, one source vertex at a time.
CreateTransitions ==
    /\ phase = "transitions" /\ source < Len(astates)
    /\ LET new == TransitionsFrom(source)
       IN  IF \E t \in new : LiftThrows(t.action, t.sigma)
           THEN phase' = "threw" /\ UNCHANGED <<transitions, source>>
           ELSE /\ transitions' = transitions \cup
                      {[action |-> t.action.original.name, sigma |-> LiftSubstitution(t.action, t.sigma),
                        src |-> t.src, dst |-> t.dst] : t \in new}
                /\ source' = source + 1
                /\ UNCHANGED phase
    /\ UNCHANGED <<task, patterns, vec, astates, projections, partitions, state>>

\* The projection is complete; ProjectionAbstractionHeuristic tabulates it.
FinishProjection ==
    /\ phase = "transitions" /\ source = Len(astates)
    /\ LET goals == {i \in 0 .. Len(astates) - 1 : IsAbstractGoal(task.goal, Pattern, astates[i + 1])}
           edges == {<<t.src, t.dst>> : t \in transitions}
       IN  projections' = Append(projections,
               [pattern |-> Pattern, transitions |-> transitions,
                distances |-> Distances(Len(astates), edges, goals, Infinity)])
    /\ phase' = "project"
    /\ UNCHANGED <<task, patterns, vec, astates, transitions, source, partitions, state>>

-----------------------------------------------------------------------------
(* Additivity *)

\* substitutions_compatible: an unbound parameter stands for any object.
SubstitutionsCompatible(lhs, rhs) ==
    \A p \in DOMAIN lhs \cap DOMAIN rhs : Unbound \in {lhs[p], rhs[p]} \/ lhs[p] = rhs[p]

\* collect_labels: labels of the transitions that change the abstract state.
Labels(projection) == {<<t.action, t.sigma>> : t \in {u \in projection.transitions : u.src # u.dst}}

LabelsOverlap(lhs, rhs) ==
    \E l \in lhs, r \in rhs : l[1] = r[1] /\ SubstitutionsCompatible(l[2], r[2])

AdditivityGraph ==
    [i \in DOMAIN projections |->
        {j \in DOMAIN projections \ {i} : ~LabelsOverlap(Labels(projections[i]), Labels(projections[j]))}]

CreateCanonical ==
    /\ phase = "canonical"
    /\ partitions' = ComputeMaximalCliques(AdditivityGraph)
    /\ phase' = "search"
    /\ UNCHANGED <<task, patterns, vec, astates, transitions, source, projections, state>>

\* ProjectionAbstractionHeuristic::evaluate.
Estimate(i, s) == projections[i].distances[MapState(projections[i].pattern, s)]

\* CanonicalHeuristic::evaluate; a sum with an infinite part is infinite.
Evaluate(s) ==
    LET part(c) == IF \E i \in c : Estimate(i, s) = Infinity THEN Infinity
                   ELSE FoldSet(LAMBDA i, h : h + Estimate(i, s), 0, c)
    IN  Max({0} \cup {part(c) : c \in Range(partitions)})

-----------------------------------------------------------------------------
(* The search *)

Steps == {<<a, sigma>> \in UNION {{a} \X Bindings(a.arity) : a \in task.actions} :
             HoldsUnder(a.condition, sigma, state)}

Walk ==
    /\ phase = "search"
    /\ \E step \in Steps : state' = Successor(step[1], step[2], state)
    /\ UNCHANGED <<task, patterns, vec, astates, transitions, source, projections, partitions, phase>>

Next == StartProjection \/ CreateAbstractState \/ CreateTransitions \/ FinishProjection \/ CreateCanonical \/ Walk

Spec == Init /\ [][Next]_vars

-----------------------------------------------------------------------------
(* Properties *)

IsGoal(s) == task.goal.positive \subseteq s /\ task.goal.negative \cap s = {}

\* for_each_unifier enumerates all substitutions of an action that realize a
\* change of the visible atoms: a concrete step that changes the abstract state
\* has a transition with its action and a compatible binding.
TransitionsCovered ==
    phase = "search" =>
        \A step \in Steps, i \in DOMAIN projections :
            LET from == MapState(projections[i].pattern, state)
                to == MapState(projections[i].pattern, Successor(step[1], step[2], state))
            IN  from # to => \E t \in projections[i].transitions :
                                /\ t.src = from /\ t.dst = to /\ t.action = step[1].name
                                /\ SubstitutionsCompatible(t.sigma, step[2])

\* The estimate is consistent: it is 0 in goal states and no action lowers it
\* by more than the action costs.  So A* with the canonical heuristic returns
\* optimal plans and never prunes a state from which the goal can be reached.
\* It needs every concrete step that changes an abstract state to be covered by
\* a transition, every label to be lifted back to the parameters of its action, and
\* no two summands to count the same action.
Consistent ==
    /\ phase # "threw"
    /\ phase = "search" =>
        /\ TransitionsCovered
        /\ IsGoal(state) => Evaluate(state) = 0
        /\ \A step \in Steps :
               LET after == Evaluate(Successor(step[1], step[2], state))
               IN  after = Infinity \/ Evaluate(state) <= step[1].cost + after

\* The sums are taken over the maximal sets of pairwise additive projections, each
\* of them once (compute_maximal_cliques).
CliquesRight ==
    phase = "search" => IsInjective(partitions) /\ Range(partitions) = MaximalCliques(AdditivityGraph)
=============================================================================
