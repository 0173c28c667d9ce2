------------------------------ MODULE BottomUp ------------------------------
(***************************************************************************)
(* The control of the bottom-up Datalog engine: strata, scheduler, parallel *)
(* rule evaluation with delta cliques and pending bindings, sequential      *)
(* merge, early termination, and the reuse of one workspace for a sequence  *)
(* of solves.                                                               *)
(*                                                                          *)
(* Which of the merged heads enter the fact set next is left open: any      *)
(* non-empty set of them. With the No*AnnotationPolicy classes the engine   *)
(* always takes all of them (every cost is 0), with the annotation policies *)
(* the cheapest bucket; module BottomUpCosts adds the costs and implements  *)
(* this specification.                                                      *)
(***************************************************************************)
EXTENDS DatalogProgram

CONSTANTS
    StartFacts,     \* the fact sets a caller may ask the engine to extend
    Goal,           \* goal_fact_sets of the termination policy
    Terminating     \* TRUE: TerminationPolicy, FALSE: NoTerminationPolicy

ASSUME InputAssumption ==
    /\ StartFacts \subseteq SUBSET Fact
    /\ StartFacts # {}
    /\ Goal \subseteq Fact
    /\ Terminating \in BOOLEAN

VARIABLES
    start,        \* the facts of the state being evaluated
    facts,        \* fact_sets.predicate (and the assignment sets)
    waiting,      \* merged heads that are in no fact set yet
    unsatGoals,   \* unsat_goals of the termination policy
    stratum,      \* the stratum being solved
    active,       \* active rules of its scheduler
    todo,         \* active rules whose parallel task has not run yet
    fresh,        \* rules whose kpkc is at iteration 0
    snapshot,     \* per rule: the facts of its last set_next_assignment_sets
    pending,      \* enumerated bindings kept in pending_rules
    unsat,        \* per pending binding: literals not seen satisfied so far
    heads,        \* per rule: head_rows of its workers
    pc            \* "check", "run" or "done"

ruleVars == <<fresh, snapshot, pending, unsat, heads>>
vars == <<start, facts, waiting, unsatGoals, stratum, active, todo, ruleVars, pc>>

TypeOK ==
    /\ start \subseteq Fact
    /\ facts \subseteq Fact
    /\ waiting \subseteq Fact
    /\ unsatGoals \subseteq Goal
    /\ stratum \in 1 .. NumStrata
    /\ active \subseteq Rule
    /\ todo \subseteq Rule
    /\ fresh \subseteq Rule
    /\ snapshot \in [Rule -> SUBSET Fact]
    /\ pending \subseteq Instance
    /\ unsat \in [Instance -> SUBSET Literal]
    /\ heads \in [Rule -> SUBSET Fact]
    /\ pc \in {"check", "run", "done"}

-----------------------------------------------------------------------------
(* One solve: ProgramExecutionContext::clear on the caller's facts, then the *)
(* strata one after the other.                                               *)

Init ==
    /\ start \in StartFacts
    /\ facts = start
    /\ waiting = {}
    /\ unsatGoals = Goal \ start
    /\ stratum = 1
    /\ active = RulesOfStratum(1)
    /\ todo = {}
    /\ fresh = Rule
    /\ snapshot = [r \in Rule |-> {}]
    /\ pending = {}
    /\ unsat = [i \in Instance |-> {}]
    /\ heads = [r \in Rule |-> {}]
    /\ pc = "check"

\* The caller resets the facts to those of its next state and clears the context.
Solve(S) ==
    /\ pc = "done"
    /\ start' = S
    /\ facts' = S
    /\ waiting' = {}
    /\ unsatGoals' = Goal \ S
    /\ stratum' = 1
    /\ active' = RulesOfStratum(1)
    /\ todo' = {}
    /\ fresh' = Rule
    /\ snapshot' = [r \in Rule |-> {}]
    /\ pending' = {}
    /\ unsat' = [i \in Instance |-> {}]
    /\ heads' = [r \in Rule |-> {}]
    /\ pc' = "check"

GoalProven == Terminating /\ unsatGoals = {}

\* Return from solve_bottom_up_for_stratum: the next stratum activates all its
\* rules and empties the cost buckets.
EndStratum ==
    /\ waiting' = {}
    /\ todo' = {}
    /\ IF stratum < NumStrata
       THEN /\ stratum' = stratum + 1
            /\ active' = RulesOfStratum(stratum + 1)
            /\ pc' = "check"
       ELSE /\ pc' = "done"
            /\ UNCHANGED <<stratum, active>>

\* tp.check() at the head of the loop.
Terminate ==
    /\ pc = "check"
    /\ GoalProven
    /\ EndStratum
    /\ UNCHANGED <<start, facts, unsatGoals, ruleVars>>

\* on_start_iteration and the fork of parallel_for_each over the active rules.
StartIteration ==
    /\ pc = "check"
    /\ ~GoalProven
    /\ todo' = active
    /\ pc' = "run"
    /\ UNCHANGED <<start, facts, waiting, unsatGoals, stratum, active, ruleVars>>

-----------------------------------------------------------------------------
(* The parallel task of one rule.                                           *)

\* Mutant: the graph enumerates every clique again instead of the new ones.
NewCliquesAll(r) == {i \in InstancesOf(r) : Consistent(i, facts)}

\* set_next_assignment_sets followed by for_each_new_k_clique: every clique in
\* the first iteration, afterwards those that need an edge added since.
NewCliques(r) ==
    {i \in InstancesOf(r) :
        /\ Consistent(i, facts)
        /\ r \in fresh \/ ~Consistent(i, snapshot[r])}

\* The literals of the ApplicabilityCheck of a binding that are not cleared yet.
Unchecked(i) == IF i \in pending THEN unsat[i] ELSE Late[i]

\* is_dynamically_applicable: the literals a binding still waits for. A cleared bit
\* is not looked at again, and the literals of higher arity only once the nullary
\* ones hold.
Unsatisfied(i) ==
    LET open == {l \in Unchecked(i) : ~Sat(l, facts)}
    IN  IF open \cap NullaryLiteral = {} THEN open
        ELSE {l \in Unchecked(i) : l \in NullaryLiteral => l \in open}

\* Bindings process_pending and process_clique look at; those whose head is a
\* fact already are dropped ("optimal cost proven").
Candidates(r) ==
    {i \in (pending \cap InstancesOf(r)) \cup NewCliques(r) : HeadOf[i] \notin facts}

\* Mutant: every clique fires, as if the graph checked the whole body.
FiredUnchecked(r) ==
    IF r \in NullaryRule
    THEN {i \in InstancesOf(r) : Holds(Body(i), facts)}
    ELSE Candidates(r)

Fired(r) ==
    IF r \in NullaryRule
    THEN {i \in InstancesOf(r) : Holds(Body(i), facts)}
    ELSE {i \in Candidates(r) : Unsatisfied(i) = {}}

\* Mutant: bindings that do not fire at once are not kept.
KeptNone(r) == {}

Kept(r) == IF r \in NullaryRule THEN {} ELSE Candidates(r) \ Fired(r)

RunRule(r) ==
    /\ pc = "run"
    /\ r \in todo
    /\ todo' = todo \ {r}
    /\ fresh' = fresh \ {r}
    /\ snapshot' = [snapshot EXCEPT ![r] = facts]
    /\ heads' = [heads EXCEPT ![r] = {HeadOf[i] : i \in Fired(r)}]
    /\ pending' = (pending \ InstancesOf(r)) \cup Kept(r)
    /\ unsat' = [i \in Instance |->
                    IF RuleOf[i] # r THEN unsat[i]
                    ELSE IF i \in Kept(r) THEN Unsatisfied(i) ELSE {}]
    /\ UNCHANGED <<start, facts, waiting, unsatGoals, stratum, active, pc>>

-----------------------------------------------------------------------------
(* The sequential part of an iteration, once every task has joined.         *)

\* The cost buckets after the merge of the active rules' heads.
Merged == waiting \cup UNION {heads[r] : r \in active}

\* No non-empty bucket is left.
Exhausted ==
    /\ pc = "run"
    /\ todo = {}
    /\ Merged \subseteq facts
    /\ EndStratum
    /\ UNCHANGED <<start, facts, unsatGoals, ruleVars>>

\* Mutant: the inserted heads stay in the buckets.
InsertBucketTwice(B) ==
    /\ pc = "run"
    /\ todo = {}
    /\ B # {}
    /\ facts' = facts \cup B
    /\ waiting' = Merged
    /\ unsatGoals' = unsatGoals \ B
    /\ active' = Listeners(stratum, {PredOf[f] : f \in B \ facts})
    /\ pc' = "check"
    /\ UNCHANGED <<start, stratum, todo, ruleVars>>

\* The heads of the next bucket become facts and wake up the listening rules.
InsertBucket(B) ==
    /\ pc = "run"
    /\ todo = {}
    /\ B # {}
    /\ facts' = facts \cup B
    /\ waiting' = Merged \ (facts \cup B)
    /\ unsatGoals' = unsatGoals \ B
    /\ active' = Listeners(stratum, {PredOf[f] : f \in B \ facts})
    /\ pc' = "check"
    /\ UNCHANGED <<start, stratum, todo, ruleVars>>

EngineStep ==
    \/ Terminate
    \/ StartIteration
    \/ \E r \in Rule : RunRule(r)
    \/ Exhausted
    \/ \E B \in SUBSET Merged : InsertBucket(B)

Next ==
    \/ EngineStep
    \/ \E S \in StartFacts : Solve(S)

\* solve_bottom_up is a loop nothing outside can stop, and parallel_for_each
\* runs every task it was given.
Spec == Init /\ [][Next]_vars /\ WF_vars(EngineStep)

-----------------------------------------------------------------------------
(* Properties.                                                              *)

\* ensure_applicability, asserted before a head is emitted: whatever a rule has
\* emitted in this iteration is the head of one of its instances whose whole body
\* holds in the facts the iteration started from, the negated literals included,
\* although the consistency graph and the cached bits checked it only in part.
EmittedApplicable ==
    pc = "run" => \A r \in active \ todo : \A f \in heads[r] :
        \E i \in InstancesOf(r) : HeadOf[i] = f /\ Holds(Body(i), facts)

\* M contains the start facts and is closed under the rules, the negated
\* literals being decided by F: a model of the program's reduct for F.
ModelOfReduct(M, F) ==
    /\ start \subseteq M
    /\ \A i \in Instance :
        (\A l \in Body(i) : IF l \in Positive THEN Atom[l] \in M ELSE Atom[l] \notin F)
            => HeadOf[i] \in M

\* Soundness, at every moment: a fact is in the set only if it is in every model
\* of the reduct, so that nothing supports itself and no later stratum withdraws
\* what a negated literal relied on.
Founded == \A M \in SUBSET Fact : ModelOfReduct(M, facts) => facts \subseteq M

\* Completeness: once the solve is over the facts are closed under every rule
\* (with Founded: they are the stratified model), unless the termination policy
\* cut it short, and then every goal is a fact. A binding that is never
\* enumerated again, a lost pending binding or a rule nobody wakes would break it.
Complete ==
    pc = "done" =>
        \/ \A i \in Instance : Holds(Body(i), facts) => HeadOf[i] \in facts
        \/ GoalProven /\ Goal \subseteq facts

\* ensure_novel_binding: a binding that waits in pending_rules is not enumerated
\* a second time, by the same or by another worker, while its rule is reevaluated.
NovelBindings ==
    pc = "run" => \A r \in todo \ NullaryRule : NewCliques(r) \cap pending = {}

\* Every solve ends: heads are never merged back and forth between iterations.
SolveEnds == (pc # "done") ~> (pc = "done")

-----------------------------------------------------------------------------
(* The inductive invariant behind Founded and Complete.                     *)

\* Rules whose task this iteration still has to run.
Scheduled == IF pc = "check" THEN active ELSE todo

Ran(r) == pc = "run" /\ r \in active \ todo

SchedulerInv ==
    /\ start \subseteq facts
    /\ unsatGoals = Goal \ facts
    /\ active \subseteq RulesOfStratum(stratum)
    /\ todo \subseteq active
    /\ \A r \in Rule : StratumOf[r] > stratum => r \in fresh

\* A rule of this stratum that is not scheduled has seen every fact it listens to.
SnapshotInv ==
    pc # "done" => \A r \in RulesOfStratum(stratum) :
        /\ r \notin fresh => snapshot[r] \subseteq facts
        /\ Ran(r) => snapshot[r] = facts
        /\ r \notin Scheduled =>
            /\ r \notin fresh
            /\ \A f \in facts \ snapshot[r] : PredOf[f] \notin BodyPredicates(r)

\* What is merged, or about to be, is derivable.
DerivableInv ==
    pc # "done" =>
        /\ \A f \in waiting : \E i \in Instance :
            HeadOf[i] = f /\ StratumOf[RuleOf[i]] = stratum /\ Holds(Body(i), facts)
        /\ \A r \in Rule : Ran(r) => \A f \in heads[r] :
            \E i \in InstancesOf(r) : HeadOf[i] = f /\ Holds(Body(i), facts)

\* A pending binding is a clique its rule has seen, of whose literals only the
\* cached unsatisfied ones can be open, and one of them was when it was last seen.
PendingInv ==
    \A i \in pending :
        /\ RuleOf[i] \notin NullaryRule
        /\ RuleOf[i] \notin fresh
        /\ Consistent(i, snapshot[RuleOf[i]])
        /\ Holds(Graph[i], facts)
        /\ unsat[i] \subseteq Late[i]
        /\ Holds(Late[i] \ unsat[i], facts)
        /\ ~Holds(unsat[i], snapshot[RuleOf[i]])

\* A binding that its rule has seen applicable has left its head somewhere; one it
\* has only seen as a clique is pending.
CoverageInv ==
    pc # "done" => \A i \in Instance :
        LET r == RuleOf[i]
            done == \/ HeadOf[i] \in facts \cup waiting
                    \/ Ran(r) /\ HeadOf[i] \in heads[r]
        IN  StratumOf[r] = stratum /\ r \notin fresh =>
                /\ r \in NullaryRule /\ Holds(Body(i), snapshot[r]) => done
                /\ r \notin NullaryRule /\ Consistent(i, snapshot[r]) => done \/ i \in pending

\* The strata below are closed, unless the goals were reached first.
ClosedInv ==
    GoalProven \/ \A i \in Instance :
        StratumOf[RuleOf[i]] < stratum \/ pc = "done" =>
            (Holds(Body(i), facts) => HeadOf[i] \in facts)

\* Founded, with the instances of the strata so far only.
ModelUpTo(M, F, s) ==
    /\ start \subseteq M
    /\ \A i \in Instance :
        /\ StratumOf[RuleOf[i]] <= s
        /\ \A l \in Body(i) : IF l \in Positive THEN Atom[l] \in M ELSE Atom[l] \notin F
        => HeadOf[i] \in M

FoundedInv == \A M \in SUBSET Fact : ModelUpTo(M, facts, stratum) => facts \subseteq M

IInv ==
    /\ TypeOK
    /\ SchedulerInv
    /\ SnapshotInv
    /\ DerivableInv
    /\ PendingInv
    /\ CoverageInv
    /\ ClosedInv
    /\ FoundedInv

=============================================================================
