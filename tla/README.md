# Tyr: a TLA+ verification project

Tyr is a planner for PDDL tasks that keeps actions, axioms and derived predicates
*lifted* and evaluates them with a parallel bottom-up Datalog engine. This directory
holds TLA+ models of the planner from the translation of a parsed task to the plan, the
TLC configurations that check them on small instances, and TLAPS proofs of the results
that matter most for every instance. Paths below are relative to the repository root.

Contents: [1 Inventory](#1-inventory) · [2 Modules and code](#2-modules-and-the-code) ·
[3 Runs](#3-what-the-runs-check) · [4 Fairness](#4-fairness) ·
[5 Proofs](#5-what-is-proved) · [6 Findings](#6-where-code-and-documentation-disagree) ·
[7 Departures](#7-known-departures-and-inputs-left-out) ·
[8 Not modelled](#8-what-is-not-modelled) · [9 Plan](#9-plan)

## 1 Inventory

| component | state it keeps | operations | hard because |
|---|---|---|---|
| PDDL translation (`src/formalism/planning/loki_to_tyr.cpp`) | parameters in scope, predicates by kind, names found by `prepare` | domain, then problems, to symbols | one mapping of variables serves all scopes; kinds of predicates depend on the whole domain |
| repositories (`include/tyr/formalism/*repository*.hpp`) | per layer and type a table of symbols, per relation a table of rows | `find`, `get_or_create`, `clear` | an index means something along one chain of layers only; children count on from their parent's size |
| merges (`include/tyr/formalism/**/merge*.ipp`) | caches of a context | copies of symbols between planning, ground, program and workspace repositories | some members are copied by index and not by meaning |
| grounders (`include/tyr/formalism/**/grounder.ipp`) | binding of the context, caches of ground actions | substitution, universal effects | the binding is a scratch list shared by nested scopes |
| domain analysis (`src/analysis/{program,task}_domains.cpp`) | domains of parameters and positions | `compute_variable_domains` | what is missing in a domain silently never happens |
| stratification (`src/analysis/stratification*`) | dependency graph, components, strata | `compute_rule_stratification` | parallel positive and negative dependencies; cycles |
| bottom-up engine (`src/datalog/bottom_up.cpp`, `include/tyr/datalog/{contexts,workspaces}`) | fact and assignment sets; per rule: consistency graphs, iteration counter, overlay repositories; per rule and worker: head rows, witnesses, pending bindings | `solve_bottom_up`: per stratum a loop of parallel rule tasks, a sequential merge and an insertion | rule tasks interleave; a binding is enumerated once and must survive until its last literal holds; the workspace is reused for thousands of states |
| rule scheduler, policies, cost buckets (`src/datalog/rule_scheduler.cpp`, `policies/`, `workspaces/program.hpp`) | active rules, costs, witnesses, unsatisfied goals, heads by cost | `activate_all`, `on_generate`, `update_annotation`, `achieve`, `advance_to_next_nonempty` | a rule nobody wakes, or a head filed too low, silently loses facts |
| consistency graphs (`consistency_graph.cpp`, `delta_kpkc_graph.*`, `fact_set.cpp`, `assignment_sets.cpp`) | static, full and delta graph as bit matrices, touched cells, bit and interval tables | construction, `initialize_dynamic_consistency_graphs`, `reset` | a body is split over vertices, edges and a final check; implied and stored edges; selective clearing |
| delta k-clique enumeration (`delta_kpkc.*`) | evaluation counter, search workspace | `for_each_new_k_clique` | every new clique exactly once though it has several new edges |
| programs and task grounder (`src/planning/programs`, `lifted_task/task_grounder.cpp`) | Datalog programs of a task, finite-domain variables | `instantiate_ground_task` | pruning by reachability must not change the task |
| invariant synthesis (`src/formalism/planning/invariants`) | candidates, accepted invariants, groups | proof, refinement, choice | a wrong mutex loses atoms without an error |
| state repositories and storage (`src/planning/*/state_repository.cpp`, `state_storage`) | unpacked states in a pool, packed parts, indices | registration, look-up, views | objects are reused with what is left in them; deduplication by content |
| containers (`include/tyr/common`) | pools, indexed sets, packed arrays, bit spans | acquire and release, insert, look-up, clear | reference counts, segments of growing size, elements that straddle blocks |
| action execution, successor generators, axiom evaluators (`src/planning`) | scratch lists per task | applicability, successors | order of deletes and adds; effects read the old state |
| match tree (`ground_task/match_tree.cpp`) | one array split in place, a stack of spans, hash-consed nodes | construction, `generate` | a child sorts a range its ancestors still hold |
| heuristics (`src/planning/**/heuristics`, `abstractions`) | engine workspaces, relaxed plan, projections and their distances | `evaluate` | witnesses, additivity, labels lifted through renumbered parameters |
| eager A*, lazy GBFS, open lists, plan extraction (`src/planning/algorithms`, `search_space.hpp`) | search nodes, queues with stale entries, decaying weights | `find_solution`, `extract_total_ordered_plan` | reopening, limits on indices, starvation, nodes skipped silently |
| parser, event handlers, formatters, executables, Python bindings | | reporting and I/O | |

How they interact. A parsed task is translated into one repository, stratified and
analysed, and turned into Datalog programs in repositories of their own, whose symbols
are merged from the task's. A search calls the successor generator, the state
repository, the heuristic and the pruning strategy for one state at a time. The lifted
successor generator, the lifted axiom evaluator and the relaxed planning graph heuristics
are all callers of the same engine: each of them merges the facts of a state into its own
workspace, calls `clear()` and `solve_bottom_up`, and merges the resulting rows back (and,
for the heuristics, reads the annotations). The engine forks one task per active rule with
`oneapi::tbb::parallel_for_each`; the tasks share the fact sets read-only and write only
their own rule's and worker's storage, which the thread that called the engine merges
after the join.

What makes each part correct:
* **formalism**: a translated task says what its syntax tree says
  (`TranslationFaithful`); along a chain of repositories a symbol has one index and an
  index one symbol, and copies mean what they were made from (`CopiesFaithful`); ground
  instances mean what they were grounded from (`GroundFaithful`, a part of
  `GroundTaskFaithful`); the rows of a solve are the atoms of that solve (`RowsFaithful`);
* **rules**: a rule finds the heads of exactly the bindings that satisfy its body
  (`HeadsExact`), no domain excludes anything reachable (`DomainsSuffice`), the incremental
  graphs are exact, each new clique is enumerated once, the strata are a stratification,
  the lowest one;
* **engine**: it computes the stratified model of the program: nothing underivable
  (`Founded`), nothing missing (`Complete`), in every order of tasks, in every reuse of
  the workspace; its debug assertions never fail; it ends;
* **costs**: a fact's cost is optimal from the moment it becomes a fact, and the chosen
  witnesses form an acyclic relaxed plan;
* **task**: the ground task behaves like the lifted one, groups of finite-domain variables
  are mutexes, match trees list what is applicable, estimates are consistent;
* **storage**: counts and contents of pools and sets are right, an index stands for one
  state for ever, views show it, successors are the intended ones;
* **searches**: plans are executable and reach a goal, are optimal where A* promises it,
  failure without a limit means unsolvable, no queue starves, the call returns.

## 2 Modules and the code

```
LokiToTyr -> PlanningTypes -> Repositories <- DatalogTypes      DatalogProgram <- BottomUp <- BottomUpProofs
                  MergesGrounders --^                                 ^              ^ refines
Formalism = Repositories + {LokiToTyr, MergesGrounders, DatalogTypes} +------ BottomUpCosts <- BottomUpCostsProofs
                                                          FFHeuristic ------------^               ^-- FFHeuristicProofs
Stratification ------+-> ProgramProofs               SearchSpace <- AStarEager <- AStarEagerProofs
ConsistencyGraph ----+                                           <- GbfsLazy <- GbfsLazyProofs
      ^---------------+                                             GbfsLazy -implements-> AlternatingOpenList
RuleBodies -----------+-- RuleEvaluation             BitPacking <- StateRepository, BitPackedArrays
RuleBodies <- TaskDomains                            Containers, ObjectPools, SharedObjectPool <- SharedObjectPoolProofs
TaskPrograms <- TaskGrounder <- ProgramProofs        CanonicalHeuristic, InvariantSynthesis, MatchTree
TaskInstances: tasks, programs for TLC               MC*.tla, *.cfg: instances for TLC
```

Definitions commented "Mutant" are plausible bugs, never used by a specification: with
the definition below replaced by its mutant, a property fails.

### Formalism

**Repositories** is the interning: a heap of repositories `[parent, slots]`, a slot per
type with the size its parent had (`parent_size`), rows of relations in slots made on
first use. `GetOrCreate`, `FindLayer`, `Clear` are the code's functions as pure operators,
so that the other modules can thread the heap through nested calls in the code's order.
**PlanningTypes** and **DatalogTypes** list the members of every type, its canonical
form, and what a view reads through a handle; the views are the reference meanings.
**LokiToTyr** translates domains and problems; loki's tree is external and appears as
records with the getters the translator calls. **MergesGrounders** has one operator per
`merge_*` and `ground` function. **Formalism** puts them together as a state
machine: translate a domain and a problem, make the axiom program and the ground task's
repository, then copy symbols, ground actions and axioms, or solve again and again, rule
by rule, with the overlay repositories of every rule's worker.

### Rules

**RuleBodies** holds the domains of a program (`compute_variable_domains`), the split of
a body by arity, the fact and assignment sets, and the filters `consistent_literals` and
`consistent_numeric_constraints`. **ConsistencyGraph** has the
graphs of a rule with everything the bit matrices do differently from a mathematical
graph: no stored edges between parameters that share no literal (`Adjacent` derives them
from the vertex partitions), a `touched` flag per cell, and `Reset`, which clears touched
cells only; what the assignment sets admit is any growing pair of sets there.
**RuleEvaluation** adds the enumeration of new cliques (`delta_kpkc`) as recursive operators
over candidate sets, and runs one rule from its text to its heads over growing facts and
repeated solves.
**TaskDomains** is the analysis of a planning task. **Stratification** has the steps of
`compute_rule_stratification`: components and check, one step per component in any
topological order, buckets; strong components and topological order are boost's
(external) and stated by their meaning. The same functions stratify ground axioms.

### Engine

**DatalogProgram** describes a program as the engine sees it: ground instances of rules,
which body literals the consistency graph checks exactly (`Graph`), only through
projections (`Loose`), or leaves to the applicability check (`Late`), strata and
listeners. **BottomUp** is the engine: `snapshot[r]` is the fact set of the rule's last
`set_next_assignment_sets`, `fresh` the rules whose `m_iteration` is 0, `pending` and
`unsat` are `pending_rules` with the remaining bits of their `ApplicabilityCheck`. Actions:
`Solve` (the caller's reset and `ProgramExecutionContext::clear`), `Terminate`,
`StartIteration` (fork), `RunRule` (one parallel task), `Exhausted` and `InsertBucket`
(join, merge, insertion). A task is one atomic action: it reads only the facts and its own
storage, which no other step of the iteration writes. Which of the merged heads are
inserted next is left open, so the module is also the abstract specification of the engine
with costs. **BottomUpCosts** adds the annotation policies, workers and cost buckets;
`LocalWitnesses` is nondeterministic where the code depends on the enumeration order,
`Annotate` where it depends on the order of the merge. `EngineSpec` states that it
implements BottomUp. **FFHeuristic** extracts relaxed plans from the witnesses, evaluation
after evaluation, beside the successor generator that shares its cache of ground actions.

### Tasks

**TaskPrograms** has the Datalog programs of a task on ground instances; **TaskGrounder**
solves them, creates variables, grounds with pruning, and then executes the lifted and the
ground task side by side. **InvariantSynthesis** proves, refines and chooses candidates and
then executes the task. **MatchTree** builds a tree in the code's in-place fashion and
evaluates it. **CanonicalHeuristic** projects a task, builds the abstract space by
unification, lifts labels, computes distances, decides additivity, enumerates maximal
cliques (Bron-Kerbosch) and evaluates the heuristic along a walk. **TaskInstances** holds
the tasks for TLC, lifted, ground and as syntax trees, and the engine's program.

### Storage

**SharedObjectPool** is the thread-safe reference-counted pool with one action per atomic
access; **ObjectPools** the pools of one thread. **BitPacking** has the arithmetic on
blocks, `uint_t` elements that straddle blocks, and bit spans; **BitPackedArrays** the pool
and set built on it; **Containers** the other containers that give values indices and keep
them in segments. **StateRepository** registers states: an unpacked object from the pool,
axioms, packing of its three parts, deduplication, views; for ground and lifted tasks and
both storage policies; on top of it applicability (static literals, facts, derived literals,
numeric constraints; families and undefined values of effects, that of `total-cost`
included) and the execution of actions, by ground action and by binding, with every kind of
numeric expression: constants, static, fluent and auxiliary terms, unary, binary and
multi-operators.

### Searches

**SearchSpace** holds what the searches share: transitions, the growth of the vector of
search nodes, plan extraction; its second half has the reference definitions of solvability,
safe and admissible heuristics and cheapest costs, and the lemmas about them. Inputs of a
call (transitions, goals, heuristic values,
pruning, limits) are a record chosen initially; the heuristic is a set of possible values
per state. **AStarEager** and **GbfsLazy** have one action per way through the loop bodies
of `find_solution`. **AlternatingOpenList** is the alternation alone; GbfsLazy implements it
(`Alternates`).


## 3 What the runs check

A* and the open list, the layers of rules, of tasks and of storage share one instance
module each; there a variable `part`, fixed initially, says which component a behaviour is about,
and a property of a component is the implication from its part.

| run (module) | question | properties | bounds |
|---|---|---|---|
| `bottom_up` (MCBottomUp) | Does the engine, with early exit, compute the stratified model or stop with all goals true, in every order of tasks and insertions, solve after solve? Do its assertions hold? Does it end? | `EmittedApplicable` `Founded` `Complete` `NovelBindings` `IInv` `SolveEnds` | 12 facts, 13 instances of 9 rules, 3 strata, 5 start sets, unboundedly many solves |
| `costs` (MCBottomUpCosts) | Are costs optimal and witnesses founded, and do cost buckets and workers implement the engine? | `OptimalCosts` `WitnessesFounded` `EngineSpec` | the same program, 3 start sets, 2 workers, rule costs 0 to 9 |
| `ff` (MCFFHeuristic) | Is the extracted relaxed plan one, for this state and not an earlier one? | `RelaxedPlanRight` | a chain of 7 rules, 5 start sets (dead ends among them), unboundedly many evaluations |
| `ff_universal` | violated, see section 6 | `SuccessorsAgree` | one action with a universal effect, two doors |
| `search` (MCSearch: `astar`, `open_list`) | Are A*'s plans real, optimal where promised, is failure unsolvability, does the call return? On its own, does no queue of the alternating open list starve? | `PlanReachesGoal` `OptimalPlan` `ExhaustedUnsolvable` `CallsReturn` `NoStarvation` | 6 states; 72 heuristics, 16 further calls (limits, pruning, corner cases); open list: queues of up to 3 entries, values up to `MaxH` = 3, `Boost` = 4 |
| `gbfs` (MCGbfs) | Are plans real, is failure unsolvability, is no node lost or expanded twice, does neither queue take over, does the call return? | `PlanReachesGoal` `ExhaustedUnsolvable` `QueuesPartition` `ShareBounded` `Alternates` `Returns` | 6 states; 16 combinations of preferred actions, heuristics and spaces, 13 further calls |
| `astar_pruned_start`, `astar_unstable` | violated, see section 6 | `UnsolvabilityProven`, `SolvedByPlan` | the same space |
| `rules` (MCRules: `strata`, `bindings`, `rule`, `domains`) | Are the strata the least stratification, the incremental graphs exact, is each new clique enumerated once, are the heads those of the satisfying bindings, do the domains suffice? | `RulesStratified` `StrataMinimal` `FullGraphExact` `DeltaGraphExact` `NewCliquesOnce` `HeadsExact` `DomainsSuffice` | all programs of up to 4 one-literal rules or 2 rules with up to two literals over 3 predicates, every topological order; 10 static graphs with 0 to 4 parameters and up to 6 vertices, `MaxIterations` = 3 evaluations per solve; rule texts over 3 objects; three tasks |
| `storage` (MCStorage: `pool`, `objects`, `arrays`, `containers`, `ground`, `lifted`) | Are counts and contents right in every order of operations, is an index one state for ever, are views and successors right? | `PoolInv` `SetFaithful` `RepositoryFaithful` `SuccessorsRight` | two threads with two pointers each, 4 entries; single-threaded pools with 3 pointers and entries; blocks of 4 bits, three shapes, values 0, 5, 9, at most 4 arrays; containers of at most 4 values; 4 registered states, 2 objects, metric values up to 4 (`MaxMetric`) or undefined, 3 derived atoms in 2 strata, 8 ground and 7 lifted actions, terms 1 and 2 set at first, 4 and 3 later |
| `tasks` (MCTasks: `formalism`, `grounder`, `canonical`, `invariants`, `match_tree`) | Does a symbol keep its meaning through translation, copies, grounding and repeated solves? Is the ground task the lifted one, are groups mutexes, do trees list what is applicable, is the canonical estimate consistent? | `TranslationFaithful` `CopiesFaithful` `RowsFaithful` `GroundTaskFaithful` `DeadEndsStay` `MutexGroups` `ListsApplicable` `EstimateConsistent` | 9 syntax trees (3 of them rejected), per behaviour at most 1 context of copies, 2 of ground symbols, 2 solves of 2 iterations with 3 cliques each; pairs of 10 actions × 4 axiom sets × 3 initial states × 3 goals × 2 partitions; Gripper and Lamps with pattern collections; pairs of 13 schemas over 2 objects × 3 initial states; trees over up to 3 of 8 conditions |
| `invariants_universal` | violated, see section 6 | `MutexGroups` | one schema with a universal effect |

Why the bounds are enough. The engine's program (in TaskInstances) was put together so
that every mechanism meets every other one it can interfere with: a binding waits for a
nullary atom while its rule is skipped for iterations; two bindings share all projections
of a ternary atom; a positive cycle runs through a high-arity atom; a literal occurs twice
in a body; a rule has no parameters; a fact waits in a bucket and becomes cheaper; negation
goes through two more strata; and `Solve` follows `Solve`, so what `clear()` forgets
shows. For the graphs, three evaluations suffice to have a vertex, an edge between old
vertices and an implied edge become new in different evaluations, and four parameters to
have a clique with several new edges none of which touches the anchor. Graphs,
stratification and the engine are proved for all instances besides. The A* space has
several paths of different cost to each state of a chain, a free cycle and a free loop,
and heuristics that are admissible, inconsistent or inadmissible, so that nodes are
reopened; the GBFS space adds dead ends reached along preferred actions. Two threads with
two pointers each make a release meet a copy, a move and another release of the same
entry. Four bits per block are enough for an element to end exactly at a block, to
straddle two, and to be as wide as one. Four states are enough for an unpacked object to
be used a second time with what an earlier state left in it. One action of the storage
tasks assigns a term above the last one, which leaves a gap of undefined numbers that
another one of the ground task fills; others divide zero by zero, read a static term
without a value and increase an undefined term, and must not be applicable then. Pairs
of actions and of schemas suffice for the grounder and the invariants, whose decisions
concern at most two operators or effects at a time. Two solves of two iterations let a
row survive its iteration, its solve, or neither.

The properties in words, with the code behaviour each is about, stand above their
definitions; those of an instance module name the module that defines them. A short
guide to the older names: `EmittedApplicable` and `NovelBindings` are the code's own
assertions `ensure_applicability` and `ensure_novel_binding`; `Founded` and `Complete`
together say that the result is the stratified model; `OptimalCosts` is the comment
"optimal cost proven" that lets the engine drop bindings; `WitnessesFounded` is what the
extraction of relaxed plans needs, and FFHeuristic builds on it; `FullGraphExact`,
`DeltaGraphExact`, `NewCliquesOnce` are the contract of `NewCliques` in BottomUp;
`RulesStratified` that of `StratificationAssumption`; `OneIndexPerState`, a part of
`RepositoryFaithful`, is what lets the searches know a state by its index.

Deadlock is checked for the engine, the heuristic and the storage layers, which a caller
can always use again. It is not checked in `search`, `gbfs`, `rules` and `tasks`, whose
behaviours are calls that return, or are cut off by a bound.

## 4 Fairness

`solve_bottom_up` is a loop on the caller's thread and `parallel_for_each` runs every
task it was given before it returns, hence weak fairness of `EngineStep` (a task is an
`EngineStep` and disables itself). The caller's `Solve` is not fair: a planner need not
evaluate another state. The searches are sequential functions: weak fairness of their
steps. For the open list, the search pops as long as an entry waits: weak fairness of
`Pop`, none of `Insert`. Nothing else is assumed to happen: the other modules state safety
properties only.

## 5 What is proved

Everything here holds for all values of the constants that satisfy the named
assumptions; TLC evaluates those assumptions in the runs.

* **BottomUpProofs.** `Invariance`: the inductive invariant `IInv`; from it `TypeCorrect`,
  `Soundness` (`Founded`), `Completeness` (`Complete`) and `AssertionsHold`
  (`EmittedApplicable`) and `BindingsNovel` (`NovelBindings`), for every program that satisfies
  `TypeAssumption`, `ProjectionAssumption` and `StratificationAssumption`, and for every
  set of start facts. Neither of the two main properties is inductive. `Complete` speaks of
  the end of a solve only; in between, every applicable binding must be somewhere:
  `CoverageInv` says its head is a fact, waits in a bucket, is in the head rows of a rule
  that ran in this iteration, or the binding is pending, or its rule has not seen it yet.
  That requires knowing what a rule has seen (`SnapshotInv`: a rule that is not scheduled
  has seen all facts of predicates it listens to) and what pending means (`PendingInv`:
  only literals whose bits are set can be open, and one was at the last evaluation).
  `ClosedInv` carries the closedness of lower strata, where stratification is used: facts
  inserted now are not read below. `Founded` is strengthened to `FoundedInv`, relative
  to the strata solved so far, because instances of later strata would otherwise have to
  be considered before their negated literals are decided; it needs `DerivableInv` for
  heads on their way into the facts. `SchedulerInv` is bookkeeping.
  The proof has one lemma per conjunct, with a case per action.
* **BottomUpCostsProofs.** `CostsImplementEngine` (every step of the engine with costs,
  workers and local witnesses is a step of BottomUp or a stutter: the safety part of
  `EngineSpec`), `CostsOptimal` (`OptimalCosts`) and `WitnessesAreFounded`
  (`WitnessesFounded`), for every program, rule cost, number of workers, enumeration and
  merge order. `TypeAssumption` and its companions are those of BottomUp;
  `HeadStratumAssumption` says that a rule's stratum is its head predicate's, as
  `Stratification` computes it. The hypothesis `AggregateBounds(Nat)` is about the aggregation
  policy: what it makes of the costs of a body's atoms is a natural and no less than any of
  them. `MaxAggregationBounds` and `SumAggregationBounds` prove that of the two policies, for
  bodies of any finite size: the sum is a fold of which no order is known, so its value is shown to
  be one by a least counterexample over the size of the set (`Totals`). `CostsExplained`
  says that the cost of a derived fact is just what its witness's body and rule make of it, after
  updates too.
  None of the three main ones is inductive, and none can be proved without the others: that a head is
  never left in a bucket behind the current one depends on costs that only grow, and that
  no cheaper binding was dropped depends on the engine's own invariant. So the proof carries `IInv` of
  BottomUpProofs along through the refinement, together with `CostInv`: the buckets above
  the current cost hold what is annotated but no fact, at its cost (`BucketInv`); what a
  rule has not seen yet, though it listens to it, costs no less than the current bucket
  (`SeenInv`); a clique a rule has seen waits, was applicable, or has a fact for its head
  (`KeptInv`); a binding seen applicable was considered for the cost of its head or is among
  the local witnesses of this iteration (`ConsideredInv`, `LocalInv`); costs of lower strata
  are final (`OptimalBelow`); and facts have a rank by which witnesses rest on earlier
  insertions (`RankedInv`), which is what makes them founded although rules of cost 0 allow cycles of
  equal costs.
* **FFHeuristicProofs.** `RelaxedPlansRight` (`RelaxedPlanRight`): after an evaluation
  with a finite value the extracted plan solves the delete-free task from the evaluated
  state, has no more actions than h_add says, and its preferred actions are the
  applicable ones, for every program, every schedule of the engine and any sequence of
  evaluations in one workspace. There are three hypotheses. `HAdd`: the heuristic
  aggregates with `SumAggregation`, as `rpg_ff` does. `CostlyRules`: every rule costs at
  least 1 (`rpg.cpp:78` gives each of them 1). `NoUniversalEffects`: what goes wrong with
  universal effects is the finding `ff_universal`. `SuccessorsAgreeWithoutUniversals`
  (`SuccessorsAgree`) says that without them the heuristic and the successor generator agree
  on the cached ground actions.
  Neither half of the plan's correctness is inductive. That it reaches the goal needs
  `ReachedInv`: goals, and the bodies of the witnesses of all marked atoms, are marked or on
  the stack; the plan's reach then contains every atom the extraction met, by the order in
  which the engine founded them (`WitnessesAreFounded`: a witness rests on earlier atoms). That it is short needs
  `BudgetInv`: the plan's actions and the costs of the atoms still on the stack (`Due`)
  together never exceed the costs of the goals. Popping an atom trades its cost for those of
  its witness's body and 1 for the action, which is where `CostsExplained` is needed: with an inequality
  in place of the equality an atom could owe more than was set aside for it. `CacheInv` says
  that what is cached is what a direct grounding yields. The engine's variables change
  only by steps of BottomUpCosts (`EngineSteps`), whose theorems are cited.
* **ProgramProofs.** Of the graphs: `FullGraphIsExact` and `DeltaGraphIsExact`, for every
  static graph and every growing sequence of assignment sets. The invariant `GraphInv`
  adds to the type: every stored edge lies in a touched cell of its graph, which makes
  `Reset` empty the matrix; the full graph's partitions are the consistent vertices; its
  stored edges are, in both directions, the consistent pairs of dependent parameters.
  `DeltaGraphExact` is an action property and follows from the invariant in the state
  before the evaluation.
  Of the stratification: `StrataInvariant` and `StratificationCorrect`: a program that
  is not rejected gets a stratification, in whichever topological order the components
  are visited. The invariant: a visited component has all its predecessors
  visited, so later steps cannot raise it, and its successors are as high as it demands.
  `StrataAreMinimal` (`StrataMinimal`): the strata are the least among all
  stratifications, and the exception is thrown only for programs that have none. A
  stratification rises along paths, so it is level on a component (`LevelOnComponents`)
  and exceeds what each edge demands; hence nothing is ever raised above it (`NoneLower`).
  Of the task grounder, for every finite set of atoms, actions with conditional effects, axioms and
  strata (`TaskAssumption`: applicability atoms are no atoms of conditions, effects or states,
  and axioms have derived heads): `DeadEndsAreFinal` (`DeadEndsStay`), what the relaxed planning
  graph program derives only shrinks along a plan, and `UnsolvableIsFinal` (`VerdictRight`, a
  conjunct of `LiftedAndGroundAgree`): a task reported unsolvable is. Both rest on what the
  programs' fixpoints are: the rounds are as many as there are rules, which is enough for the
  last to be closed (`FixpointClosed`, since each round before that derives the head of one more
  rule), and nothing leaves a set that the rounds keep (`FixpointWithin`, `StratifiedWithin`).
  `ReachedInv`: the reached atoms contain the state and are closed under the delete-free
  program; hence they contain the extended state, though negative literals make that program
  an over-approximation, and what the applicable actions add. `Executed` says that
  the applicability program finds only actions whose conditions hold.
* **AStarEagerProofs.** For every finite state space, every metric and every order of
  equal queue entries: `Complete` (`ExhaustedUnsolvable`: a search without limits and
  pruning that ends without a plan has searched an unsolvable task, if infinite estimates
  are right, whether the heuristic is a function of the state or not) and `Optimal`
  (`OptimalPlan`: with an admissible heuristic, consistent or not, the goal node that
  `find_solution` returns has the cost of a cheapest path). The inductive invariant has
  four parts. `EntriesInv`: an entry promises no less than its node has by now, and every
  node that waits is in the queue with its *current* g, beside whatever stale entries
  there are. `Explored`: a transition out of an expanded node improves on no node, unless
  it is one of the successors still to be processed; no goal was expanded. Completeness
  follows since the closed nodes then contain all that is reachable. For optimality,
  `OptimalAtGoal` compares, when a goal node of metric c is popped, what `Remaining` says
  must still be paid from each state, c - g for an expanded node, with the cheapest costs of
  the other states: together they underestimate, so the start cannot cost less than c.
  Cheapest costs are computed in rounds of relaxation (`GoalCosts`); that no
  underestimate exceeds them is `UnderGoalCosts` in SearchSpace, by a least counterexample.
  `Admissible` says besides that the rounds were enough, which TLC confirms for every call
  of the run (`GoalCostsAssumption`).
* **Plans.** `PlansReachGoal` (`PlanReachesGoal`) for both searches. `PlanIsPath` in
  SearchSpace is about the extraction: where the parent pointers are acyclic and every node
  above the final one, but the start, follows its parent at just the difference of their
  metrics, the trajectory is a path from the start and the extraction skips none of its
  nodes; trajectories are followed by the number of ancestors (`DepthFalls`). Lazy GBFS sets
  a parent pointer once, when its node is new and so has no children (`PathsInv`,
  `ReachPaths`). A* changes parent and g of nodes that have descendants, so its invariant
  must say why a stale link is never on the goal's chain: a link may promise more than its
  parent now costs only while the parent is open again (`TreesInv`), and what waits below an
  open node promises strictly more than that node (`OrderInv`), so a goal that comes first has
  no open node above it. `OrderInv` is not inductive without what it says of expanded nodes:
  what waits below one promises no less than it does or else what waits elsewhere does not,
  and the second holds just of the nodes above the one being expanded, whose successors
  are the ones that may be reopened (`BatchInv`). That the heuristic is a function of the state is needed:
  without it the run `astar_unstable` loses a part of the plan.
* **GbfsLazyProofs.** For every finite state space, heuristic, set of preferred actions
  and boost: `QueuesRight` (`QueuesPartition`), `Complete` (`ExhaustedUnsolvable`),
  `ShareOfPreferred` (`ShareBounded`) and `Alternation` (`Alternates`): every step of the
  search is a step of AlternatingOpenList over the lengths of the queues, or a stutter.
  The invariant: every insertion has a step of its own, so that the order on entries
  is total and popping the first is well-defined (`FirstIn`); every open node has exactly
  one entry in exactly one queue; an unpruned search has closed no goal and reached all
  successors of what it closed. The bound on the preferred queue's share and positive
  weights are proved for the abstract list on its own too (`OpenListTypeCorrect`,
  `ShareIsBounded`).
* **SharedObjectPoolProofs.** `PoolCorrect` (`PoolInv`) for any number of threads,
  pointers and entries and every interleaving of the atomic accesses: the reference count
  of an entry is the number of pointers to it that no release has taken out of the count;
  the free stack holds no entry twice and none that somebody refers to or is about to free;
  no entry is leaked. What makes it inductive: the pointers an operation works on belong
  to its thread (`OpInv`), an entry about to be freed is counted by no pointer
  (`FreedUncounted`), and pointers refer to entries that were allocated (`Allocated`).

The lemmas in **SearchSpace** (least elements, reachability by closed sets, cheapest costs
of finite sets, trees of parent pointers and what is `Below` a node in them, also after one
node gets a new parent: `Reparent`) serve both searches. The assumptions are those a caller guarantees:
`SpaceAssumption` (finitely many states, the start is one; infinity is no number),
`CallsAssumption` (successors are states, costs naturals), `PoolAssumption`.

Only model-checked: everything temporal (`SolveEnds`, `Returns`, `CallsReturn`,
`NoStarvation`), as liveness is out of the prover's reach;
`NewCliquesOnce`, `HeadsExact`, `DomainsSuffice` and all that depends on what recursive
definitions compute (enumeration, unification, distances, trees, the views of
symbols), which the provers cannot induct over; the fairness that `EngineSpec` carries over;
storage other than the pool; of the tasks all but the two theorems above, and formalism.

## 6 Where code and documentation disagree

Each of these is shown by a run of its own, in which the quoted sentence fails.

* `astar_pruned_start`: if the pruning strategy prunes the start state, A* calls
  `on_unsolvable()` although the task may be solvable; `event_handler.hpp` documents the
  callback as "React on proving unsolvability during a search." Lazy GBFS does the same.
* `astar_unstable`: A* evaluates the heuristic again whenever it reopens a state. If the
  value may differ between evaluations (the multi-threaded FF heuristic breaks ties
  between witnesses by worker order; user-defined heuristics), a node can be left
  unexpanded with descendants that carry stale g values; plan extraction skips the node
  that does not fit and `on_solved` gets a plan that does not reach the goal. With
  heuristics that are functions of the state, the run `search` shows that this cannot
  happen, admissible or not.
* `ff_universal`: `ground(ActionView)` (`include/tyr/formalism/planning/grounder.ipp:367`)
  appends the objects of an effect to whatever the context's binding holds. The FF
  heuristic passes the whole row of a rule, effect objects included, so every instance of a
  universal effect is grounded with the same objects, and the ground action stays in the
  cache from which the successor generator expands it later. The run `ff`, whose
  actions have no universal effects, shows what holds otherwise.
* `invariants_universal`: `is_operator_too_heavy` (`invariants/proof.cpp:199`) compares
  only different effects, so one universal add effect that adds several atoms of a
  candidate is taken to add one; `fdr_context.hpp:41` calls the groups mutexes. The run
  `tasks` has no schema in which one effect adds two atoms of one group.

## 7 Known departures and inputs left out

Places where the code, as read while it was modelled, does something narrower than its
context suggests. The models translate the code as it is; the inputs of the passing runs
are such that these cases do not arise, unless it is said otherwise. They are listed so
that nobody takes the runs for a statement about them.

Translation and formalism:
* `loki_to_tyr.cpp`: negative initial literals are inserted as positive
  ones; a `forall` variable that shadows another breaks the mapping of parameters; two
  unconditional `forall` effects of different arity share the empty guard, which only
  an assertion rejects; a problem's axiom whose head is a domain predicate gives it
  another kind than it has in the domain; `prepare` rejects numeric constraints in
  conjunctive `when` guards but not single ones; `m_derived_predicates` accumulates over
  the tasks of a parser.
* Multi-operators drop repeated arguments when they are canonicalized; `clear` of an
  action's data keeps `original_arity`; a ground literal over a fluent atom gets no value
  where its negation is not represented.
* `merge_d2d` of a conjunctive condition drops its variables and of a rule its cost;
  translating an expression that reads `total-cost` to Datalog throws.
* `fact_set.cpp:202`: `FunctionFactSet::insert` reports "Multiple value assignments" for
  any row below the number of values inserted so far, so values must come in the order of
  their rows.

Numeric effects:
* `applicability.ipp:226` (and `applicability_lifted.ipp:255`): the test for double
  assignments resizes its list to the last term's index, which also shrinks it; `:254` of
  the lifted file counts a universal assignment of one value per object as a double one.
* `action_executor.cpp:67`: of two increases of one term the second overwrites the first;
  `:164` adds the unit cost to the increases of `total-cost` of an action in a task
  without metric.
* `applicability.ipp:86`: a multi-operator is evaluated as a product, sums included.
* `raw_vector_set.hpp:105`: numeric vectors are compared by `==`, so under the hash set
  policy a state with an undefined value below a defined one is registered again. Such
  states are reached in the run `storage`, and `OneIndexPerState` exempts them.
* `applicability.ipp:242`: an effect is tested for undefined operands, not for an undefined
  result, so scaling a zero down by zero stores one.

Rules and graphs:
* A literal `p(x, x)` in a rule with two or more parameters, `not p(x, c)` when `x` occurs
  in no binary literal, and constraints over functions of three or more arguments or with a
  repeated parameter are tested through projections only; debug builds assert them again
  (`bottom_up.cpp:117-130`). A comparison `!=` with an undefined static value is taken
  to be false.
* The domains of a task leave the derived literals of effect conditions out.

Projections and invariants:
* `projection_generator.cpp:453`, `:409`, `:248`: an abstract transition is missing where a
  parameter of a visible effect stays free, where an effect repeats what is true
  already, and where a negated static literal has an unbound parameter; the estimates of
  the run `tasks` are consistent for tasks without such effects and literals; `:139` numbers
  the variables of universal effects too, and lifting such a label throws.
* `projection_abstraction.cpp:32`: every abstract transition weighs 1.
* `invariants/proof.cpp:156` and `:91`: a delete balances an add though a static part of
  its condition may be false, or though its condition is what the action itself adds;
  derived conditions are ignored likewise. The schemas have static guards on both effects,
  on the adding one, and on a deleting one whose guard the action requires anyway; no
  derived ones.
* `invariants/constraints.cpp:355`: the branch for literals over `=` is left out of the
  model, as `=` is never a fluent predicate.

Grounding:
* `task_grounder.cpp:259` can create variables for deleted atoms that are never reached
  after the state layout was taken; `:271` drops effects that only change the cost.
* `programs/common.cpp:39`: an action and an axiom can get the same applicability
  predicate.

Containers (no property is at stake in the code's use of them): `UniqueObjectPool` of the
thread-safe kind does not lock in `free`, but only the other kind is used;
`RawArrayPool` with arrays of size 0 takes the address of an element of an empty vector;
a cleared `RawVectorPool` continues in its last segment only.

## 8 What is not modelled

* Parsing, formatting, event handlers and statistics, executables, Python bindings: I/O
  and reporting without decisions of their own.
* The translation of domains between repositories (`domains_translation`), which copies
  lists of objects, and the goal count and blind heuristics, which count.
* valla, boost, loki, TBB and gtl: external, stated by what the code uses of them. With
  the tree policy a state is whatever valla gives back for an index, so storage is modelled
  above it.
* Numbers: overflow of `uint_t` costs and of the step counter of lazy GBFS (naturals);
  floating point (small integers, infinity and an undefined value). Numbers of states are
  integers or undefined: quotients that are not integers, infinity and the relative part of
  the tolerance are left out, and the absolute tolerance is 2 so that numbers differ within
  it. Numeric constraints in the bodies of axioms, and in the programs of a task; they are
  modelled for actions and in RuleEvaluation. Numeric effects and constraints of the storage
  tasks do not read `total-cost`, which the model allows.
* The parallel enumeration path of `bottom_up.cpp` that is commented out, and
  `m_delta_edges`, which only that path reads.
* In Formalism the engine is reduced to what it does with rows and overlays; pending
  rules and cost buckets are BottomUp's and BottomUpCosts's. Numeric fluents do not
  change during a solve and appear in RuleEvaluation only.
* Memory: addresses and reallocation. Pools hand out entries, containers positions.

No component persists state or sends messages, so there are no crashes or lost messages to
model; concurrency is the parallel rule tasks and the thread-safe pool.

## 9 Plan

Modelled and checked, in order: engine and costs; searches; graphs, cliques and
stratification; storage and states; action execution, relaxed plans, projections,
invariants, grounder, match trees; rules, domains and formalism. Next, by importance:

1. **Proofs about symbols**: one index per symbol (a part of `CopiesFaithful`) for
   chains of repositories of any length.
2. **Ground axioms**: the extraction of dependencies from ground axioms, now covered by the
   rules' stratification, and the ground axiom fixpoint as an implementation of the
   stratified model of BottomUp.
3. **Numeric search**: `get_total_cost`, the goal count heuristic, numeric effects with
   several effects on one term.
