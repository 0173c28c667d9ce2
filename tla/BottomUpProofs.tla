--------------------------- MODULE BottomUpProofs ---------------------------
(***************************************************************************)
(* Soundness and completeness of the bottom-up engine, for every program,   *)
(* every sequence of start facts and every order of rule tasks.             *)
(***************************************************************************)
EXTENDS BottomUp, TLAPS

-----------------------------------------------------------------------------
(* Facts about the program.                                                 *)

\* What a stratum derives cannot falsify a literal read by a rule of the same or
\* of a lower stratum: facts only grow, and negated atoms are decided below.
LEMMA InsertKeeps ==
    ASSUME NEW F, NEW B, NEW s \in Nat,
           \A f \in B : \E j \in Instance : HeadOf[j] = f /\ StratumOf[RuleOf[j]] = s,
           NEW i \in Instance, StratumOf[RuleOf[i]] <= s,
           NEW L, L \subseteq Body(i), Holds(L, F)
    PROVE  Holds(L, F \cup B)
<1> SUFFICES ASSUME NEW l \in L PROVE Sat(l, F \cup B)
    BY DEF Holds
<1>1. Sat(l, F) /\ l \in Body(i)
    BY DEF Holds
<1>2. CASE l \in Positive
    BY <1>1, <1>2 DEF Sat
<1>3. CASE l \notin Positive
    <2>1. ASSUME Atom[l] \in B PROVE FALSE
        <3>1. PICK j \in Instance : HeadOf[j] = Atom[l] /\ StratumOf[RuleOf[j]] = s
            BY <2>1
        <3>2. StratumOf[RuleOf[j]] < StratumOf[RuleOf[i]]
            BY <3>1, <1>1, <1>3, StratificationAssumption
        <3> QED BY <3>1, <3>2, TypeAssumption
    <2> QED BY <2>1, <1>1, <1>3 DEF Sat
<1> QED BY <1>2, <1>3

\* What a stratum derives is not read by the rules of lower strata.
LEMMA InsertUnread ==
    ASSUME NEW F, NEW B, NEW s \in Nat,
           \A f \in B : \E j \in Instance : HeadOf[j] = f /\ StratumOf[RuleOf[j]] = s,
           NEW i \in Instance, StratumOf[RuleOf[i]] < s,
           Holds(Body(i), F \cup B)
    PROVE  Holds(Body(i), F)
<1> SUFFICES ASSUME NEW l \in Body(i) PROVE Sat(l, F)
    BY DEF Holds
<1>1. Sat(l, F \cup B)
    BY DEF Holds
<1>2. CASE l \notin Positive
    BY <1>1, <1>2 DEF Sat
<1>3. CASE l \in Positive
    <2>1. ASSUME Atom[l] \in B PROVE FALSE
        <3>1. PICK j \in Instance : HeadOf[j] = Atom[l] /\ StratumOf[RuleOf[j]] = s
            BY <2>1
        <3>2. StratumOf[RuleOf[j]] <= StratumOf[RuleOf[i]]
            BY <3>1, <1>3, StratificationAssumption
        <3> QED BY <3>1, <3>2, TypeAssumption
    <2> QED BY <2>1, <1>1, <1>3 DEF Sat
<1> QED BY <1>2, <1>3

\* The consistency graph overapproximates: an applicable binding is a clique.
LEMMA Overapproximation ==
    ASSUME NEW F, NEW i \in Instance, Holds(Body(i), F)
    PROVE  Consistent(i, F)
<1>1. Holds(Graph[i], F)
    BY DEF Holds, Body
<1>2. ASSUME NEW S \in Loose[i] PROVE S \cap F # {}
    <2>1. PICK l \in Late[i] : l \in Positive /\ Atom[l] \in S
        BY ProjectionAssumption
    <2> QED BY <2>1 DEF Holds, Body, Sat
<1> QED BY <1>1, <1>2 DEF Consistent

\* A rule that has seen all facts it listens to has seen its applicable bindings
\* applicable.
LEMMA SeenApplicable ==
    ASSUME NEW F, NEW G, G \subseteq F, NEW i \in Instance, Holds(Body(i), F),
           \A f \in F \ G : PredOf[f] \notin BodyPredicates(RuleOf[i])
    PROVE  Holds(Body(i), G)
<1> SUFFICES ASSUME NEW l \in Body(i) PROVE Sat(l, G)
    BY DEF Holds
<1>1. Sat(l, F)
    BY DEF Holds
<1>2. CASE l \notin Positive
    BY <1>1, <1>2 DEF Sat
<1>3. CASE l \in Positive
    <2>1. PredOf[Atom[l]] \in BodyPredicates(RuleOf[i])
        BY <1>3 DEF BodyPredicates, InstancesOf
    <2> QED BY <1>1, <1>3, <2>1 DEF Sat
<1> QED BY <1>2, <1>3

-----------------------------------------------------------------------------
(* Type correctness.                                                        *)

\* Every step keeps the types.
LEMMA TypeStep == TypeOK /\ [Next]_vars => TypeOK'
<1> SUFFICES ASSUME TypeOK, [Next]_vars PROVE TypeOK'
    OBVIOUS
<1> USE TypeAssumption, InputAssumption DEF TypeOK, ruleVars
<1>1. CASE Terminate
    BY <1>1 DEF Terminate, EndStratum, RulesOfStratum
<1>2. CASE StartIteration
    BY <1>2 DEF StartIteration
<1>3. ASSUME NEW r \in Rule, RunRule(r) PROVE TypeOK'
    <2>1. Fired(r) \subseteq Instance /\ Kept(r) \subseteq Instance
        BY DEF Fired, Kept, Candidates, InstancesOf, NewCliques
    <2>2. {HeadOf[i] : i \in Fired(r)} \subseteq Fact
        BY <2>1
    <2>3. heads' \in [Rule -> SUBSET Fact] /\ snapshot' \in [Rule -> SUBSET Fact]
        BY <1>3, <2>2 DEF RunRule
    <2>4. \A i \in Instance : Unsatisfied(i) \subseteq Literal
        BY DEF Unsatisfied, Unchecked
    <2>5. unsat' \in [Instance -> SUBSET Literal]
        BY <1>3, <2>4 DEF RunRule
    <2>6. pending' \subseteq Instance
        BY <1>3, <2>1 DEF RunRule
    <2> QED BY <1>3, <2>3, <2>5, <2>6 DEF RunRule
<1>4. CASE Exhausted
    BY <1>4 DEF Exhausted, EndStratum, RulesOfStratum
<1>5. ASSUME NEW B \in SUBSET Merged, InsertBucket(B) PROVE TypeOK'
    <2>1. Merged \subseteq Fact
        BY DEF Merged
    <2>2. active' \subseteq Rule
        BY <1>5 DEF InsertBucket, Listeners, RulesOfStratum
    <2> QED BY <1>5, <2>1, <2>2 DEF InsertBucket
<1>6. ASSUME NEW S \in StartFacts, Solve(S) PROVE TypeOK'
    BY <1>6 DEF Solve, RulesOfStratum
<1>7. CASE UNCHANGED vars
    BY <1>7 DEF vars
<1> QED BY <1>1, <1>2, <1>3, <1>4, <1>5, <1>6, <1>7 DEF Next, EngineStep

-----------------------------------------------------------------------------
(* The parts of the inductive invariant, one lemma each.                    *)

\* Every merged head is derivable in the current stratum.
LEMMA MergedDerivable ==
    ASSUME TypeOK, SchedulerInv, DerivableInv, pc = "run", todo = {}, NEW f \in Merged
    PROVE  \E j \in Instance : /\ HeadOf[j] = f
                               /\ StratumOf[RuleOf[j]] = stratum
                               /\ Holds(Body(j), facts)
<1>1. CASE f \in waiting
    BY <1>1 DEF DerivableInv
<1>2. ASSUME NEW r \in active, f \in heads[r]
      PROVE  \E j \in Instance : /\ HeadOf[j] = f
                                 /\ StratumOf[RuleOf[j]] = stratum
                                 /\ Holds(Body(j), facts)
    <2>1. r \in Rule /\ StratumOf[r] = stratum
        BY DEF SchedulerInv, RulesOfStratum
    <2>2. Ran(r)
        BY DEF Ran
    <2>3. PICK j \in InstancesOf(r) : HeadOf[j] = f /\ Holds(Body(j), facts)
        BY <1>2, <2>1, <2>2 DEF DerivableInv
    <2> QED BY <2>1, <2>3 DEF InstancesOf
<1> QED BY <1>1, <1>2 DEF Merged

\* The start facts stay, the goals left are those that are no facts, and only
\* rules of the current stratum are active.
LEMMA SchedulerStep == TypeOK /\ SchedulerInv /\ [Next]_vars => SchedulerInv'
<1> SUFFICES ASSUME TypeOK, SchedulerInv, [Next]_vars PROVE SchedulerInv'
    OBVIOUS
<1> USE TypeAssumption, InputAssumption DEF TypeOK, SchedulerInv, ruleVars, RulesOfStratum
<1>1. CASE Terminate
    BY <1>1 DEF Terminate, EndStratum
<1>2. CASE StartIteration
    BY <1>2 DEF StartIteration
<1>3. ASSUME NEW r \in Rule, RunRule(r) PROVE SchedulerInv'
    BY <1>3 DEF RunRule
<1>4. CASE Exhausted
    BY <1>4 DEF Exhausted, EndStratum
<1>5. ASSUME NEW B \in SUBSET Merged, InsertBucket(B) PROVE SchedulerInv'
    BY <1>5 DEF InsertBucket, Listeners
<1>6. ASSUME NEW S \in StartFacts, Solve(S) PROVE SchedulerInv'
    BY <1>6 DEF Solve
<1>7. CASE UNCHANGED vars
    BY <1>7 DEF vars
<1> QED BY <1>1, <1>2, <1>3, <1>4, <1>5, <1>6, <1>7 DEF Next, EngineStep

\* A task is the only step that changes what its rule has seen.
LEMMA SnapshotStep ==
    TypeOK /\ SchedulerInv /\ SnapshotInv /\ [Next]_vars => SnapshotInv'
<1> SUFFICES ASSUME TypeOK, SchedulerInv, SnapshotInv, [Next]_vars PROVE SnapshotInv'
    OBVIOUS
<1> USE TypeAssumption, InputAssumption
        DEF TypeOK, SchedulerInv, SnapshotInv, ruleVars, RulesOfStratum, Ran, Scheduled
<1>1. CASE Terminate
    BY <1>1 DEF Terminate, EndStratum
<1>2. CASE StartIteration
    BY <1>2 DEF StartIteration
<1>3. ASSUME NEW r \in Rule, RunRule(r) PROVE SnapshotInv'
    BY <1>3 DEF RunRule
<1>4. CASE Exhausted
    BY <1>4 DEF Exhausted, EndStratum
<1>5. ASSUME NEW B \in SUBSET Merged, InsertBucket(B) PROVE SnapshotInv'
    <2> SUFFICES ASSUME NEW r \in Rule, StratumOf[r] = stratum
                 PROVE  /\ r \notin fresh => snapshot[r] \subseteq facts'
                        /\ r \notin active' =>
                            /\ r \notin fresh
                            /\ \A f \in facts' \ snapshot[r] : PredOf[f] \notin BodyPredicates(r)
        BY <1>5 DEF InsertBucket
    <2>1. r \notin fresh /\ snapshot[r] \subseteq facts
        BY <1>5 DEF InsertBucket
    <2>2. ASSUME r \notin active', NEW f \in facts' \ snapshot[r]
          PROVE  PredOf[f] \notin BodyPredicates(r)
        <3>1. CASE f \in facts
            BY <1>5, <3>1 DEF InsertBucket
        <3>2. CASE f \in B \ facts
            BY <1>5, <2>2, <3>2 DEF InsertBucket, Listeners
        <3> QED BY <1>5, <3>1, <3>2 DEF InsertBucket
    <2> QED BY <1>5, <2>1, <2>2 DEF InsertBucket
<1>6. ASSUME NEW S \in StartFacts, Solve(S) PROVE SnapshotInv'
    BY <1>6 DEF Solve
<1>7. CASE UNCHANGED vars
    BY <1>7 DEF vars
<1> QED BY <1>1, <1>2, <1>3, <1>4, <1>5, <1>6, <1>7 DEF Next, EngineStep

\* A binding that fires is applicable: the graph vouches for one part of its body,
\* the cached bits for another and the last look at the facts for the rest.
LEMMA FiredApplicable ==
    ASSUME TypeOK, PendingInv, NEW r \in Rule, NEW i \in Fired(r)
    PROVE  i \in InstancesOf(r) /\ Holds(Body(i), facts)
<1>1. CASE r \in NullaryRule
    BY <1>1 DEF Fired
<1>2. CASE r \notin NullaryRule /\ i \in pending
    <2>1. i \in InstancesOf(r) /\ Unsatisfied(i) = {}
        BY <1>2 DEF Fired, Candidates, NewCliques
    <2>2. Holds(Graph[i], facts) /\ Holds(Late[i] \ unsat[i], facts)
        BY <1>2 DEF PendingInv
    <2>3. Holds(unsat[i], facts)
        BY <1>2, <2>1 DEF Unsatisfied, Unchecked, Holds
    <2> QED BY <2>1, <2>2, <2>3 DEF Holds, Body
<1>3. CASE r \notin NullaryRule /\ i \notin pending
    <2>1. i \in NewCliques(r) /\ Unsatisfied(i) = {}
        BY <1>3 DEF Fired, Candidates
    <2>2. i \in InstancesOf(r) /\ Holds(Graph[i], facts)
        BY <2>1 DEF NewCliques, Consistent
    <2>3. Holds(Late[i], facts)
        BY <1>3, <2>1 DEF Unsatisfied, Unchecked, Holds
    <2> QED BY <2>2, <2>3 DEF Holds, Body
<1> QED BY <1>1, <1>2, <1>3

\* Heads of applicable bindings stay derivable while they wait in a bucket.
LEMMA DerivableStep ==
    TypeOK /\ SchedulerInv /\ PendingInv /\ DerivableInv /\ [Next]_vars => DerivableInv'
<1> SUFFICES ASSUME TypeOK, SchedulerInv, PendingInv, DerivableInv, [Next]_vars
             PROVE  DerivableInv'
    OBVIOUS
<1> USE DEF ruleVars, Ran
<1>1. CASE Terminate
    BY <1>1 DEF Terminate, EndStratum, DerivableInv
<1>2. CASE StartIteration
    BY <1>2 DEF StartIteration, DerivableInv
<1>3. ASSUME NEW r \in Rule, RunRule(r) PROVE DerivableInv'
    <2>1. \A f \in waiting' : \E i \in Instance :
            HeadOf[i] = f /\ StratumOf[RuleOf[i]] = stratum' /\ Holds(Body(i), facts')
        BY <1>3 DEF RunRule, DerivableInv
    <2>2. ASSUME NEW q \in Rule, Ran(q)', NEW f \in heads'[q]
          PROVE  \E i \in InstancesOf(q) : HeadOf[i] = f /\ Holds(Body(i), facts')
        <3>1. CASE q = r
            <4>1. PICK i \in Fired(r) : HeadOf[i] = f
                BY <1>3, <2>2, <3>1 DEF RunRule, TypeOK
            <4> QED BY <1>3, <3>1, <4>1, FiredApplicable DEF RunRule
        <3>2. CASE q # r
            <4>1. Ran(q) /\ f \in heads[q]
                BY <1>3, <2>2, <3>2 DEF RunRule, TypeOK
            <4> QED BY <1>3, <4>1 DEF RunRule, DerivableInv
        <3> QED BY <3>1, <3>2
    <2> QED BY <2>1, <2>2 DEF DerivableInv
<1>4. CASE Exhausted
    BY <1>4 DEF Exhausted, EndStratum, DerivableInv
<1>5. ASSUME NEW B \in SUBSET Merged, InsertBucket(B) PROVE DerivableInv'
    <2>1. pc = "run" /\ todo = {} /\ stratum' = stratum /\ facts' = facts \cup B
          /\ pc' = "check" /\ waiting' \subseteq Merged
        BY <1>5 DEF InsertBucket
    <2>2. stratum \in Nat
        BY TypeAssumption DEF TypeOK
    <2>3. ASSUME NEW f \in waiting'
          PROVE  \E i \in Instance : HeadOf[i] = f /\ StratumOf[RuleOf[i]] = stratum
                                       /\ Holds(Body(i), facts \cup B)
        <3>1. PICK i \in Instance : /\ HeadOf[i] = f
                                    /\ StratumOf[RuleOf[i]] = stratum
                                    /\ Holds(Body(i), facts)
            BY <2>1, MergedDerivable
        <3>2. \A g \in B : \E j \in Instance : HeadOf[j] = g /\ StratumOf[RuleOf[j]] = stratum
            BY <2>1, MergedDerivable
        <3>3. StratumOf[RuleOf[i]] <= stratum
            BY <2>2, <3>1
        <3>4. Holds(Body(i), facts \cup B)
            BY <2>2, <3>1, <3>2, <3>3, InsertKeeps
        <3> QED BY <3>1, <3>4
    <2> QED BY <2>1, <2>3 DEF DerivableInv
<1>6. ASSUME NEW S \in StartFacts, Solve(S) PROVE DerivableInv'
    BY <1>6 DEF Solve, DerivableInv
<1>7. CASE UNCHANGED vars
    BY <1>7 DEF vars, DerivableInv
<1> QED BY <1>1, <1>2, <1>3, <1>4, <1>5, <1>6, <1>7 DEF Next, EngineStep

\* A bit of the applicability check once cleared stays right, and a pending
\* binding stays a clique of its rule.
LEMMA PendingStep ==
    TypeOK /\ SchedulerInv /\ SnapshotInv /\ DerivableInv /\ PendingInv /\ [Next]_vars
        => PendingInv'
<1> SUFFICES ASSUME TypeOK, SchedulerInv, SnapshotInv, DerivableInv, PendingInv, [Next]_vars
             PROVE  PendingInv'
    OBVIOUS
<1> USE DEF ruleVars
<1>1. CASE Terminate
    BY <1>1 DEF Terminate, PendingInv
<1>2. CASE StartIteration
    BY <1>2 DEF StartIteration, PendingInv
<1>3. ASSUME NEW r \in Rule, RunRule(r) PROVE PendingInv'
    <2> DEFINE Good(i) ==
            /\ RuleOf[i] \notin NullaryRule
            /\ RuleOf[i] \notin fresh'
            /\ Consistent(i, snapshot'[RuleOf[i]])
            /\ Holds(Graph[i], facts)
            /\ unsat'[i] \subseteq Late[i]
            /\ Holds(Late[i] \ unsat'[i], facts)
            /\ ~Holds(unsat'[i], snapshot'[RuleOf[i]])
    <2>1. ASSUME NEW i \in pending, RuleOf[i] # r PROVE Good(i)
        BY <1>3, <2>1, TypeAssumption DEF RunRule, PendingInv, TypeOK
    <2>2. ASSUME NEW i \in Kept(r) PROVE Good(i)
        <3>1. r \notin NullaryRule /\ i \in InstancesOf(r) /\ Unsatisfied(i) # {}
              /\ (i \in pending \/ i \in NewCliques(r))
            BY DEF Kept, Fired, Candidates, NewCliques
        <3>2. i \in Instance /\ RuleOf[i] = r
            BY <3>1 DEF InstancesOf
        <3>3. snapshot'[r] = facts /\ unsat'[i] = Unsatisfied(i) /\ r \notin fresh'
            BY <1>3, <3>2 DEF RunRule, TypeOK
        <3>4. Consistent(i, facts)
            <4>1. CASE i \in NewCliques(r)
                BY <4>1 DEF NewCliques
            <4>2. CASE i \in pending
                <5>1. snapshot[r] \subseteq facts
                    BY <1>3, <3>2, <4>2
                    DEF RunRule, SchedulerInv, SnapshotInv, PendingInv
                <5>2. Consistent(i, snapshot[r]) /\ Holds(Graph[i], facts)
                    BY <3>2, <4>2 DEF PendingInv
                <5> QED BY <5>1, <5>2 DEF Consistent
            <4> QED BY <3>1, <4>1, <4>2
        <3>5. Unsatisfied(i) \subseteq Late[i] /\ Holds(Late[i] \ Unsatisfied(i), facts)
            BY <3>1 DEF Unsatisfied, Unchecked, PendingInv, Holds
        <3>6. ~Holds(Unsatisfied(i), facts)
            BY <3>1 DEF Unsatisfied, Unchecked, Holds
        <3> QED BY <3>1, <3>2, <3>3, <3>4, <3>5, <3>6 DEF Consistent
    <2>3. \A i \in pending' : Good(i)
        BY <1>3, <2>1, <2>2 DEF RunRule, InstancesOf, TypeOK
    <2>4. facts' = facts
        BY <1>3 DEF RunRule
    <2> QED BY <2>3, <2>4 DEF PendingInv
<1>4. CASE Exhausted
    BY <1>4 DEF Exhausted, PendingInv
<1>5. ASSUME NEW B \in SUBSET Merged, InsertBucket(B) PROVE PendingInv'
    <2>1. pc = "run" /\ todo = {} /\ facts' = facts \cup B
          /\ UNCHANGED <<fresh, snapshot, pending, unsat>>
        BY <1>5 DEF InsertBucket
    <2>2. stratum \in Nat
        BY TypeAssumption DEF TypeOK
    <2>3. \A g \in B : \E j \in Instance : HeadOf[j] = g /\ StratumOf[RuleOf[j]] = stratum
        BY <2>1, MergedDerivable
    <2>4. ASSUME NEW i \in pending
          PROVE  Holds(Graph[i], facts \cup B) /\ Holds(Late[i] \ unsat[i], facts \cup B)
        <3>1. i \in Instance /\ RuleOf[i] \in Rule /\ StratumOf[RuleOf[i]] \in Nat
            BY TypeAssumption DEF TypeOK
        <3>5. StratumOf[RuleOf[i]] <= stratum
            <4>1. RuleOf[i] \notin fresh
                BY DEF PendingInv
            <4>2. ~(StratumOf[RuleOf[i]] > stratum)
                BY <3>1, <4>1 DEF SchedulerInv
            <4> QED BY <2>2, <3>1, <4>2
        <3>2. /\ Graph[i] \subseteq Body(i) /\ Holds(Graph[i], facts)
              /\ Late[i] \ unsat[i] \subseteq Body(i) /\ Holds(Late[i] \ unsat[i], facts)
            BY DEF PendingInv, Body
        <3>3. Holds(Graph[i], facts \cup B)
            BY <2>2, <2>3, <3>5, <3>1, <3>2, InsertKeeps
        <3>4. Holds(Late[i] \ unsat[i], facts \cup B)
            BY <2>2, <2>3, <3>5, <3>1, <3>2, InsertKeeps
        <3> QED BY <3>3, <3>4
    <2> QED BY <2>1, <2>4 DEF PendingInv
<1>6. ASSUME NEW S \in StartFacts, Solve(S) PROVE PendingInv'
    BY <1>6 DEF Solve, PendingInv
<1>7. CASE UNCHANGED vars
    BY <1>7 DEF vars, PendingInv
<1> QED BY <1>1, <1>2, <1>3, <1>4, <1>5, <1>6, <1>7 DEF Next, EngineStep

\* No applicable binding is lost between the graph, the pending bindings, the
\* buckets and the facts.
LEMMA CoverageStep ==
    TypeOK /\ SchedulerInv /\ SnapshotInv /\ PendingInv /\ CoverageInv /\ [Next]_vars
        => CoverageInv'
<1> SUFFICES ASSUME TypeOK, SchedulerInv, SnapshotInv, PendingInv, CoverageInv, [Next]_vars
             PROVE  CoverageInv'
    OBVIOUS
<1> USE TypeAssumption DEF ruleVars, Ran, RulesOfStratum
<1>1. CASE Terminate
    BY <1>1 DEF Terminate, EndStratum, CoverageInv, SchedulerInv, TypeOK
<1>2. CASE StartIteration
    BY <1>2 DEF StartIteration, CoverageInv
<1>3. ASSUME NEW r \in Rule, RunRule(r) PROVE CoverageInv'
    <2> SUFFICES ASSUME NEW i \in Instance, StratumOf[RuleOf[i]] = stratum,
                        RuleOf[i] \notin fresh'
                 PROVE  LET q == RuleOf[i]
                            done == \/ HeadOf[i] \in facts \cup waiting
                                    \/ Ran(q)' /\ HeadOf[i] \in heads'[q]
                        IN  /\ q \in NullaryRule /\ Holds(Body(i), snapshot'[q]) => done
                            /\ q \notin NullaryRule /\ Consistent(i, snapshot'[q])
                                   => done \/ i \in pending'
        BY <1>3 DEF RunRule, CoverageInv
    <2>1. CASE RuleOf[i] # r
        <3>1. /\ snapshot'[RuleOf[i]] = snapshot[RuleOf[i]]
              /\ heads'[RuleOf[i]] = heads[RuleOf[i]]
              /\ RuleOf[i] \notin fresh
              /\ Ran(RuleOf[i]) => Ran(RuleOf[i])'
              /\ i \in pending => i \in pending'
            BY <1>3, <2>1 DEF RunRule, TypeOK, InstancesOf
        <3> QED BY <1>3, <2>1, <3>1 DEF RunRule, CoverageInv
    <2>2. CASE RuleOf[i] = r
        <3>1. /\ snapshot'[r] = facts
              /\ heads'[r] = {HeadOf[j] : j \in Fired(r)}
              /\ Ran(r)'
              /\ Kept(r) \subseteq pending'
            BY <1>3, <2>2 DEF RunRule, TypeOK, SchedulerInv
        <3>2. ASSUME r \in NullaryRule, Holds(Body(i), facts) PROVE i \in Fired(r)
            BY <2>2, <3>2 DEF Fired, InstancesOf
        <3>3. ASSUME r \notin NullaryRule, Consistent(i, facts)
              PROVE  \/ HeadOf[i] \in facts \cup waiting
                     \/ i \in Fired(r)
                     \/ i \in Kept(r)
                     \/ i \in pending'
            <4>1. CASE i \in NewCliques(r)
                BY <3>3, <4>1 DEF Candidates, Kept
            <4>2. CASE i \notin NewCliques(r)
                <5>1. r \notin fresh /\ Consistent(i, snapshot[r])
                    BY <2>2, <3>3, <4>2 DEF NewCliques, InstancesOf
                <5>2. HeadOf[i] \in facts \cup waiting \/ i \in pending
                    BY <1>3, <2>2, <3>3, <5>1 DEF CoverageInv, RunRule
                <5> QED BY <2>2, <3>3, <5>2 DEF Candidates, Kept, InstancesOf
            <4> QED BY <4>1, <4>2
        <3> QED BY <2>2, <3>1, <3>2, <3>3
    <2> QED BY <2>1, <2>2
<1>4. CASE Exhausted
    BY <1>4 DEF Exhausted, EndStratum, CoverageInv, SchedulerInv, TypeOK
<1>5. ASSUME NEW B \in SUBSET Merged, InsertBucket(B) PROVE CoverageInv'
    <2>1. \A r \in active : heads[r] \subseteq facts' \cup waiting'
        BY <1>5 DEF InsertBucket, Merged
    <2>2. facts \cup waiting \subseteq facts' \cup waiting'
        BY <1>5 DEF InsertBucket, Merged
    <2> QED BY <1>5, <2>1, <2>2 DEF InsertBucket, CoverageInv
<1>6. ASSUME NEW S \in StartFacts, Solve(S) PROVE CoverageInv'
    BY <1>6 DEF Solve, CoverageInv
<1>7. CASE UNCHANGED vars
    BY <1>7 DEF vars, CoverageInv
<1> QED BY <1>1, <1>2, <1>3, <1>4, <1>5, <1>6, <1>7 DEF Next, EngineStep

\* When no bucket is left, the current stratum is closed: a rule that is not
\* active has seen all it listens to, an active one has just looked.
LEMMA ExhaustedClosed ==
    ASSUME TypeOK, SchedulerInv, SnapshotInv, PendingInv, CoverageInv,
           pc = "run", todo = {}, Merged \subseteq facts,
           NEW i \in Instance, StratumOf[RuleOf[i]] = stratum, Holds(Body(i), facts)
    PROVE  HeadOf[i] \in facts
<1> DEFINE r == RuleOf[i]
<1>1. r \in RulesOfStratum(stratum) /\ r \in Rule
    BY TypeAssumption DEF RulesOfStratum
<1>2. /\ r \notin fresh
      /\ snapshot[r] \subseteq facts
      /\ \A f \in facts \ snapshot[r] : PredOf[f] \notin BodyPredicates(r)
    BY <1>1 DEF SnapshotInv, Scheduled
<1>3. Holds(Body(i), snapshot[r])
    BY <1>2, SeenApplicable
<1>4. \/ HeadOf[i] \in facts \cup waiting
      \/ Ran(r) /\ HeadOf[i] \in heads[r]
    <2>1. CASE r \in NullaryRule
        BY <1>2, <1>3, <2>1 DEF CoverageInv
    <2>2. CASE r \notin NullaryRule
        <3>1. Consistent(i, snapshot[r])
            BY <1>3, Overapproximation
        <3>2. i \notin pending
            BY <1>3 DEF PendingInv, Holds, Body
        <3> QED BY <1>2, <2>2, <3>1, <3>2 DEF CoverageInv
    <2> QED BY <2>1, <2>2
<1> QED BY <1>4 DEF Merged, Ran

\* A stratum is left only when it is closed or the goals are reached.
LEMMA ClosedStep == IInv /\ [Next]_vars => ClosedInv'
<1> SUFFICES ASSUME IInv, [Next]_vars PROVE ClosedInv'
    OBVIOUS
<1>0. TypeOK /\ SchedulerInv /\ SnapshotInv /\ DerivableInv /\ PendingInv
      /\ CoverageInv /\ ClosedInv
    BY DEF IInv
<1>a. stratum \in 1 .. NumStrata /\ NumStrata \in Nat
      /\ \A i \in Instance : StratumOf[RuleOf[i]] \in 1 .. NumStrata
    BY <1>0, TypeAssumption DEF TypeOK
<1> USE DEF ruleVars
<1>1. CASE Terminate
    BY <1>1 DEF Terminate, EndStratum, ClosedInv, GoalProven
<1>2. CASE StartIteration
    BY <1>0, <1>2 DEF StartIteration, ClosedInv, GoalProven
<1>3. ASSUME NEW r \in Rule, RunRule(r) PROVE ClosedInv'
    BY <1>0, <1>3 DEF RunRule, ClosedInv, GoalProven
<1>4. CASE Exhausted
    <2>1. CASE GoalProven
        BY <1>4, <2>1 DEF Exhausted, ClosedInv, GoalProven
    <2>2. CASE ~GoalProven
        <3>1. /\ pc = "run" /\ todo = {} /\ Merged \subseteq facts /\ facts' = facts
              /\ (stratum' = stratum + 1 /\ pc' = "check") \/ stratum = NumStrata
            BY <1>4, <1>a DEF Exhausted, EndStratum
        <3>2. ASSUME NEW i \in Instance, Holds(Body(i), facts),
                     StratumOf[RuleOf[i]] <= stratum
              PROVE  HeadOf[i] \in facts
            <4>1. CASE StratumOf[RuleOf[i]] < stratum
                BY <1>0, <2>2, <3>2, <4>1 DEF ClosedInv
            <4>2. CASE StratumOf[RuleOf[i]] = stratum
                BY <1>0, <3>1, <3>2, <4>2, ExhaustedClosed
            <4> QED BY <1>a, <3>2, <4>1, <4>2
        <3>3. ASSUME NEW i \in Instance, StratumOf[RuleOf[i]] < stratum' \/ pc' = "done"
              PROVE  StratumOf[RuleOf[i]] <= stratum
            BY <1>a, <3>1, <3>3
        <3> QED BY <3>1, <3>2, <3>3 DEF ClosedInv
    <2> QED BY <2>1, <2>2
<1>5. ASSUME NEW B \in SUBSET Merged, InsertBucket(B) PROVE ClosedInv'
    <2>1. pc = "run" /\ todo = {} /\ facts' = facts \cup B /\ unsatGoals' = unsatGoals \ B
          /\ stratum' = stratum /\ pc' = "check"
        BY <1>5 DEF InsertBucket
    <2>2. CASE GoalProven
        BY <2>1, <2>2 DEF ClosedInv, GoalProven
    <2>3. CASE ~GoalProven
        <3>1. \A g \in B : \E j \in Instance : HeadOf[j] = g /\ StratumOf[RuleOf[j]] = stratum
            BY <1>0, <2>1, MergedDerivable
        <3>2. ASSUME NEW i \in Instance, StratumOf[RuleOf[i]] < stratum,
                     Holds(Body(i), facts \cup B)
              PROVE  HeadOf[i] \in facts
            <4>1. stratum \in Nat
                BY <1>a
            <4>2. Holds(Body(i), facts)
                BY <3>1, <3>2, <4>1, InsertUnread
            <4> QED BY <1>0, <2>3, <3>2, <4>2 DEF ClosedInv
        <3> QED BY <2>1, <3>2 DEF ClosedInv
    <2> QED BY <2>2, <2>3
<1>6. ASSUME NEW S \in StartFacts, Solve(S) PROVE ClosedInv'
    BY <1>a, <1>6 DEF Solve, ClosedInv
<1>7. CASE UNCHANGED vars
    BY <1>0, <1>7 DEF vars, ClosedInv, GoalProven
<1> QED BY <1>1, <1>2, <1>3, <1>4, <1>5, <1>6, <1>7 DEF Next, EngineStep

\* A bucket is founded: any model of the rules so far contains its heads.
LEMMA FoundedStep == IInv /\ [Next]_vars => FoundedInv'
<1> SUFFICES ASSUME IInv, [Next]_vars PROVE FoundedInv'
    OBVIOUS
<1>0. TypeOK /\ SchedulerInv /\ DerivableInv /\ FoundedInv
    BY DEF IInv
<1>a. stratum \in Nat /\ \A i \in Instance : StratumOf[RuleOf[i]] \in Nat
    BY <1>0, TypeAssumption DEF TypeOK
<1> USE DEF ruleVars
\* A new stratum only adds instances the model has to be closed under.
<1>b. ASSUME EndStratum, UNCHANGED <<start, facts>> PROVE FoundedInv'
    <2>1. stratum' = stratum \/ stratum' = stratum + 1
        BY <1>b DEF EndStratum
    <2>2. ASSUME NEW M \in SUBSET Fact, ModelUpTo(M, facts, stratum)'
          PROVE  ModelUpTo(M, facts, stratum)
        BY <1>a, <1>b, <2>1, <2>2 DEF ModelUpTo
    <2> QED BY <1>0, <1>b, <2>2 DEF FoundedInv, ModelUpTo
<1>1. CASE Terminate
    BY <1>1, <1>b DEF Terminate
<1>2. CASE StartIteration
    BY <1>0, <1>2 DEF StartIteration, FoundedInv, ModelUpTo
<1>3. ASSUME NEW r \in Rule, RunRule(r) PROVE FoundedInv'
    BY <1>0, <1>3 DEF RunRule, FoundedInv, ModelUpTo
<1>4. CASE Exhausted
    BY <1>4, <1>b DEF Exhausted
<1>5. ASSUME NEW B \in SUBSET Merged, InsertBucket(B) PROVE FoundedInv'
    <2>1. pc = "run" /\ todo = {} /\ facts' = facts \cup B
          /\ stratum' = stratum /\ start' = start
        BY <1>5 DEF InsertBucket
    <2>2. \A g \in B : \E j \in Instance : /\ HeadOf[j] = g /\ StratumOf[RuleOf[j]] = stratum
                                           /\ Holds(Body(j), facts)
        BY <1>0, <2>1, MergedDerivable
    <2>3. \A g \in B : \E j \in Instance : HeadOf[j] = g /\ StratumOf[RuleOf[j]] = stratum
        BY <2>2
    \* The bucket touches no atom that an instance so far negates.
    <2>4. ASSUME NEW i \in Instance, StratumOf[RuleOf[i]] <= stratum,
                 NEW l \in Body(i), l \notin Positive, Atom[l] \notin facts
          PROVE  Atom[l] \notin facts \cup B
        <3>1. {l} \subseteq Body(i) /\ Holds({l}, facts)
            BY <2>4 DEF Holds, Sat
        <3>2. Holds({l}, facts \cup B)
            BY <1>a, <2>3, <2>4, <3>1, InsertKeeps
        <3> QED BY <2>4, <3>2 DEF Holds, Sat
    <2>5. ASSUME NEW M \in SUBSET Fact, ModelUpTo(M, facts \cup B, stratum)
          PROVE  facts \cup B \subseteq M
        <3>1. ModelUpTo(M, facts, stratum)
            BY <2>4, <2>5 DEF ModelUpTo
        <3>2. facts \subseteq M
            BY <1>0, <3>1 DEF FoundedInv
        <3>3. ASSUME NEW g \in B PROVE g \in M
            <4>1. PICK j \in Instance : /\ HeadOf[j] = g /\ StratumOf[RuleOf[j]] = stratum
                                        /\ Holds(Body(j), facts)
                BY <2>2
            <4>2. \A l \in Body(j) : IF l \in Positive THEN Atom[l] \in M
                                                       ELSE Atom[l] \notin facts
                BY <3>2, <4>1 DEF Holds, Sat
            <4> QED BY <1>a, <3>1, <4>1, <4>2 DEF ModelUpTo
        <3> QED BY <3>2, <3>3
    <2> QED BY <2>1, <2>5 DEF FoundedInv, ModelUpTo
<1>6. ASSUME NEW S \in StartFacts, Solve(S) PROVE FoundedInv'
    BY <1>6 DEF Solve, FoundedInv, ModelUpTo
<1>7. CASE UNCHANGED vars
    BY <1>0, <1>7 DEF vars, FoundedInv, ModelUpTo
<1> QED BY <1>1, <1>2, <1>3, <1>4, <1>5, <1>6, <1>7 DEF Next, EngineStep

-----------------------------------------------------------------------------
(* The theorems.                                                            *)

\* The first solve starts in the invariant.
LEMMA InitIInv == Init => IInv
<1> SUFFICES ASSUME Init PROVE IInv
    OBVIOUS
<1> USE TypeAssumption, InputAssumption DEF Init
<1>1. TypeOK
    BY DEF TypeOK, RulesOfStratum
<1>2. SchedulerInv
    BY DEF SchedulerInv
<1>3. SnapshotInv
    <2>1. \A r \in RulesOfStratum(stratum) : r \in Scheduled /\ r \in fresh /\ ~Ran(r)
        BY DEF Ran, Scheduled, RulesOfStratum
    <2> QED BY <2>1 DEF SnapshotInv
<1>4. DerivableInv /\ PendingInv
    BY DEF DerivableInv, PendingInv, Ran
<1>5. CoverageInv
    BY DEF CoverageInv
<1>6. ClosedInv
    <2>1. \A i \in Instance : ~(StratumOf[RuleOf[i]] < stratum)
        OBVIOUS
    <2> QED BY <2>1 DEF ClosedInv
<1>7. FoundedInv
    BY DEF FoundedInv, ModelUpTo
<1> QED BY <1>1, <1>2, <1>3, <1>4, <1>5, <1>6, <1>7 DEF IInv

\* Every step of the engine and every new solve keeps the invariant.
LEMMA NextIInv == IInv /\ [Next]_vars => IInv'
<1> SUFFICES ASSUME IInv, [Next]_vars PROVE IInv'
    OBVIOUS
<1>1. TypeOK /\ SchedulerInv /\ SnapshotInv /\ DerivableInv /\ PendingInv /\ CoverageInv
    BY DEF IInv
<1>2. TypeOK' /\ SchedulerInv' /\ SnapshotInv'
    BY <1>1, TypeStep, SchedulerStep, SnapshotStep
<1>3. DerivableInv' /\ PendingInv'
    BY <1>1, DerivableStep, PendingStep
<1>4. CoverageInv'
    BY <1>1, CoverageStep
<1>5. ClosedInv' /\ FoundedInv'
    BY ClosedStep, FoundedStep
<1> QED BY <1>2, <1>3, <1>4, <1>5 DEF IInv

\* The inductive invariant holds in every reachable state.
THEOREM Invariance == Spec => []IInv
BY InitIInv, NextIInv, PTL DEF Spec

\* The engine's state keeps its types across any sequence of solves.
THEOREM TypeCorrect == Spec => []TypeOK
<1>1. IInv => TypeOK
    BY DEF IInv
<1> QED BY <1>1, Invariance, PTL

\* Soundness: for every stratified program the fact set never holds anything that
\* does not follow from the start facts.
THEOREM Soundness == Spec => []Founded
<1>1. IInv => Founded
    <2> SUFFICES ASSUME IInv, NEW M \in SUBSET Fact, ModelOfReduct(M, facts)
                 PROVE  facts \subseteq M
        BY DEF Founded
    <2>1. ModelUpTo(M, facts, stratum)
        BY DEF ModelOfReduct, ModelUpTo
    <2> QED BY <2>1 DEF IInv, FoundedInv
<1> QED BY <1>1, Invariance, PTL

\* Completeness: a solve that is over has derived everything the rules can derive,
\* or has reached all goals of its termination policy.
THEOREM Completeness == Spec => []Complete
<1>1. IInv => Complete
    <2> SUFFICES ASSUME IInv, pc = "done", ~GoalProven \/ ~(Goal \subseteq facts)
                 PROVE  \A i \in Instance : Holds(Body(i), facts) => HeadOf[i] \in facts
        BY DEF Complete
    <2>1. GoalProven => Goal \subseteq facts
        BY DEF IInv, SchedulerInv, GoalProven
    <2> QED BY <2>1 DEF IInv, ClosedInv
<1> QED BY <1>1, Invariance, PTL

\* The assertion of process_clique and process_pending holds: a binding that fires is
\* applicable.
THEOREM AssertionsHold == Spec => []EmittedApplicable
<1>1. IInv => EmittedApplicable
    BY DEF IInv, DerivableInv, EmittedApplicable, Ran, SchedulerInv, RulesOfStratum
<1> QED BY <1>1, Invariance, PTL

\* A binding that is pending is not enumerated again: what the incremental clique
\* enumeration finds next was not applicable in the rule's last snapshot.
THEOREM BindingsNovel == Spec => []NovelBindings
<1>1. IInv => NovelBindings
    BY DEF IInv, PendingInv, NovelBindings, NewCliques, InstancesOf
<1> QED BY <1>1, Invariance, PTL
=============================================================================
