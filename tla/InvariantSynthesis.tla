------------------------ MODULE InvariantSynthesis ------------------------
(***************************************************************************)
(* Synthesis of mutex invariants and choice of mutex groups                 *)
(* (formalism/planning/invariants/*.cpp). Candidates are proven, dropped or *)
(* refined until the queue is empty; the accepted ones are instantiated     *)
(* from the initial atoms and groups are chosen greedily. Afterwards the    *)
(* task is executed to compare the groups with the states it reaches.       *)
(*                                                                          *)
(* A term is <<"var", i>> or <<"obj", o>>, an atom [pred, args], a literal  *)
(* [atom, pos]. An action has vars parameters 0 .. vars - 1, fluent and     *)
(* static preconditions and a sequence of effects; an effect has further    *)
(* parameters vars .., fluent and static conditions and a sequence of       *)
(* literals; derived conditions, which no step of the synthesis reads, are  *)
(* left out. An invariant has rigid parameters 0 .. rigid - 1 and at most   *)
(* one counted parameter, whose index is rigid.                             *)
(***************************************************************************)
EXTENDS Naturals, FiniteSets, Sequences, SequencesExt, FiniteSetsExt

CONSTANTS
    Objects, Predicates,   \* Predicates: Seq([name, arity]), the fluent ones
    Tasks                  \* set of [ops : Seq(action), init, static : set of ground atoms]

VARIABLES
    task,
    phase,      \* "synthesize", "choose" or "run"
    queue, seen, accepted,   \* of synthesize_invariants
    groups, chosen,          \* sets of precomputed and of chosen groups
    state       \* fluent atoms of the current state

vars == <<task, phase, queue, seen, accepted, groups, chosen, state>>

Var(i) == <<"var", i>>
Obj(o) == <<"obj", o>>
IsVar(t) == t[1] = "var"
Atom(pred, args) == [pred |-> pred, args |-> args]
Map(f(_), atom) == [atom EXCEPT !.args = [k \in DOMAIN @ |-> f(@[k])]]
MapAll(f(_), lits) == {[l EXCEPT !.atom = Map(f, @)] : l \in lits}

-----------------------------------------------------------------------------
(* constraints.cpp *)

\* DisjointSet::unite over the classes P.
Unite(e, P) ==
    LET A == {C \in P : e[1] \in C \/ e[2] \in C} IN (P \ A) \cup {UNION A}

\* EqualityConjunction::compute: the classes of a set of equalities.
Classes(E) == FoldSet(Unite, {{t} : t \in UNION {{e[1], e[2]} : e \in E}}, E)

ObjectsOf(C) == {t \in C : t[1] = "obj"}

IsConsistent(E) == \A C \in Classes(E) : Cardinality(ObjectsOf(C)) <= 1

\* An object if there is one in the class, terms without equality stand for themselves.
Representative(P, t) ==
    IF \A C \in P : t \notin C THEN t
    ELSE LET C == CHOOSE D \in P : t \in D
         IN  IF ObjectsOf(C) # {} THEN CHOOSE o \in ObjectsOf(C) : TRUE ELSE CHOOSE u \in C : TRUE

\* A constraint system: a sequence of DNFs of equalities, disjunctions of
\* inequalities, terms that are not constant.
System(dnfs, ineqs, variables) == [dnfs |-> dnfs, ineqs |-> ineqs, notConstant |-> variables]

\* All ways of choosing one conjunction of every DNF.
Combinations(dnfs) == FoldLeft(LAMBDA acc, dnf : {E \cup F : E \in acc, F \in dnf}, {{}}, dnfs)

IsSolvable(sys) ==
    \E E \in Combinations(sys.dnfs) :
        /\ IsConsistent(E)
        /\ LET P == Classes(E)
           IN  /\ \A t \in sys.notConstant : Representative(P, t)[1] # "obj"
               /\ \A d \in sys.ineqs : \E p \in d : Representative(P, p[1]) # Representative(P, p[2])

\* make_cover_equality_conjunction: rigid parameters of the pattern against the
\* terms of the atom.
Cover(pattern, atom, inv) ==
    {<<<<"inv", pattern.args[k][2]>>, atom.args[k]>>
     : k \in {j \in DOMAIN pattern.args : IsVar(pattern.args[j]) /\ pattern.args[j][2] < inv.rigid}}

Pairs(a, b) == {<<a.args[k], b.args[k]>> : k \in DOMAIN a.args}

\* ensure_inequality
Inequality(a, b) == IF a.pred # b.pred \/ a.args = <<>> THEN {} ELSE {Pairs(a, b)}

\* ensure_conjunction_sat: no positive literal meets a negative one. Its branch for
\* literals over = is left out: = is never a fluent predicate.
ConjunctionSat(lits) ==
    {Pairs(n.atom, p.atom) : <<n, p>> \in
        {x \in {l \in lits : ~l.pos} \X {l \in lits : l.pos} :
            x[1].atom.pred = x[2].atom.pred /\ x[1].atom.args # <<>>}}

-----------------------------------------------------------------------------
(* matching.cpp, normalization.cpp, utils.hpp *)

InDomain(t, domain) == IsVar(t) /\ t[2] \in domain

\* DefaultMatchPolicy: a parameter of the substitution's domain is bound, the one of
\* the pattern first.
MatchTerm(lhs, rhs, domain) == IF InDomain(lhs, domain) THEN <<lhs, rhs>> ELSE <<rhs, lhs>>

\* All positions agree on the bindings, what is not bound is equal.
Matches(pattern, atom, domain) ==
    /\ pattern.pred = atom.pred
    /\ LET bound == {MatchTerm(pattern.args[k], atom.args[k], domain) : k \in DOMAIN atom.args}
       IN  /\ \A b \in bound : InDomain(b[1], domain) \/ b[1] = b[2]
           /\ \A b, c \in bound : b[1] = c[1] => b[2] = c[2]

Counted(inv) == inv.rigid .. (inv.rigid + inv.counted - 1)

Covers(inv, atom) == \E p \in inv.atoms : Matches(p, atom, Counted(inv))

\* normalize_invariant
RemoveCovered(inv) ==
    [inv EXCEPT !.atoms = {a \in @ : ~\E b \in @ \ {a} : Covers([inv EXCEPT !.atoms = {b}], a)}]

UsesParameter(inv, i) == \E a \in inv.atoms : Var(i) \in ToSet(a.args)

RemoveUnused(inv) ==
    LET used == {i \in 0 .. (inv.rigid + inv.counted - 1) : UsesParameter(inv, i)}
        remap(t) == IF IsVar(t) THEN Var(Cardinality({i \in used : i < t[2]})) ELSE t
        rigid == Cardinality({i \in used : i < inv.rigid})
    IN  [rigid |-> rigid, counted |-> Cardinality(used) - rigid, atoms |-> {Map(remap, a) : a \in inv.atoms}]

Normalize(inv) == RemoveUnused(RemoveCovered(inv))

PredicatesOf(inv) == {a.pred : a \in inv.atoms}
FindPart(inv, pred) == CHOOSE a \in inv.atoms : a.pred = pred

\* The literals of an operator as pairs of effect and position, in order.
Refs(op) == UNION {{<<e, l>> : l \in DOMAIN op.effects[e].lits} : e \in DOMAIN op.effects}
AtomAt(op, r) == op.effects[r[1]].lits[r[2]].atom
Before(r, s) == r[1] < s[1] \/ (r[1] = s[1] /\ r[2] < s[2])

\* collect_relevant_effect_atoms
RelevantAtoms(op, inv, polarity) ==
    {r \in Refs(op) : op.effects[r[1]].lits[r[2]].pos = polarity /\ AtomAt(op, r).pred \in PredicatesOf(inv)}

-----------------------------------------------------------------------------
(* proof.cpp *)

\* make_effect_alpha_renaming: the effect's own parameters become fresh ones.
Renamed(op, base, t) == IF IsVar(t) /\ t[2] >= op.vars THEN Var(base + t[2] - op.vars) ELSE t

\* Two added atoms of the operator that can be different, new and in one instance.
HeavyPair(op, inv, r, s) ==
    LET widest == Max({op.effects[e].vars : e \in DOMAIN op.effects})
        left(t) == Renamed(op, op.vars, t)
        right(t) == Renamed(op, op.vars + widest + 1, t)
        a == Map(left, AtomAt(op, r))
        b == Map(right, AtomAt(op, s))
        conjunction == op.pre
            \cup MapAll(left, op.effects[r[1]].cond) \cup MapAll(right, op.effects[s[1]].cond)
            \cup {[atom |-> a, pos |-> FALSE], [atom |-> b, pos |-> FALSE]}
    IN  IsSolvable(System(<<{Cover(FindPart(inv, a.pred), a, inv)}, {Cover(FindPart(inv, b.pred), b, inv)}>>,
                          Inequality(a, b) \cup ConjunctionSat(conjunction), {}))

\* is_operator_too_heavy: pairs of two different added atoms.
TooHeavy(op, inv) ==
    \E r, s \in RelevantAtoms(op, inv, TRUE) : Before(r, s) /\ HeavyPair(op, inv, r, s)

\* make_param_system: parameters of operator and adding effect stay as general as the
\* cover of the added atom leaves them.
ParamSystem(op, effect, cover) ==
    LET params == {Var(i) : i \in 0 .. (op.vars + effect.vars - 1)}
        rep(t) == Representative(Classes(cover), t)
    IN  System(<<>>, {{<<t, u>>} : <<t, u>> \in {x \in params \X params : rep(x[1]) # rep(x[2])}},
               {t \in params : rep(t)[1] # "obj"})

\* build_add_effect_produced_by_pred: the precondition, the literals of the adding
\* effect itself and that the added atom is new.
ProducedBy(op, effect, add) == op.pre \cup ToSet(effect.lits) \cup {[atom |-> add, pos |-> FALSE]}

\* A balance that does not ask whether the deleted atom was true.
BalanceAnyDelete(add, effect, del, produced) ==
    LET options(l) == {Pairs(l.atom, m.atom) : m \in {x \in produced : x.atom.pred = l.atom.pred /\ x.pos = l.pos}}
    IN  System(SetToSeq({options(l) : l \in effect.cond}), Inequality(add, del), {})

\* make_balance_system: what the deleting effect requires is found among the produced
\* literals. Only fluent conditions are looked at.
BalanceSystem(add, effect, del, produced) ==
    LET required == effect.cond \cup {[atom |-> del, pos |-> TRUE]}
        options(l) == {Pairs(l.atom, m.atom) : m \in {x \in produced : x.atom.pred = l.atom.pred /\ x.pos = l.pos}}
    IN  System(SetToSeq({options(l) : l \in required}), Inequality(add, del), {})

\* is_add_effect_unbalanced: no deleted atom of the same instance makes up for it.
Unbalanced(op, effect, add, inv) ==
    LET cover == Cover(FindPart(inv, add.pred), add, inv)
        param == ParamSystem(op, effect, cover)
        balances(r) ==
            LET del == AtomAt(op, r)
                balance == BalanceSystem(add, op.effects[r[1]], del, ProducedBy(op, effect, add))
            IN  IsSolvable(System(<<{cover}, {Cover(FindPart(inv, del.pred), del, inv)}>> \o balance.dnfs,
                                  balance.ineqs \cup param.ineqs, param.notConstant))
    IN  ~\E r \in RelevantAtoms(op, inv, FALSE) : balances(r)

Threats(op, inv) ==
    {r \in RelevantAtoms(op, inv, TRUE) : Unbalanced(op, op.effects[r[1]], AtomAt(op, r), inv)}

\* prove_invariant looks at the operators in order and reports the first failure.
Failing(inv) == {k \in DOMAIN task.ops : TooHeavy(task.ops[k], inv) \/ Threats(task.ops[k], inv) # {}}

FirstThreat(op, inv) == CHOOSE r \in Threats(op, inv) : \A s \in Threats(op, inv) : s = r \/ Before(r, s)

-----------------------------------------------------------------------------
(* refinement.cpp *)

UsesCounted(part, rigid) == \E t \in ToSet(part.args) : IsVar(t) /\ t[2] >= rigid
PartArity(part, rigid) == Len(part.args) - (IF UsesCounted(part, rigid) THEN 1 ELSE 0)

\* get_parameters_from_part: the rigid parameters that own gives to a term.
ParametersOf(part, own, rigid, t) ==
    {i \in 0 .. (rigid - 1) : \E k \in DOMAIN part.args : part.args[k] = Var(i) /\ own.args[k] = t}

\* possible_mappings: the positions of a term get the rigid parameters that own gives
\* to it, in any order; one position may be left over, for the counted parameter rigid.
Mappings(part, own, other, rigid) ==
    LET positions(t) == {k \in DOMAIN other.args : other.args[k] = t}
        allowed == Len(other.args) - PartArity(part, rigid)
    IN  {m \in [DOMAIN other.args -> 0 .. rigid] :
            /\ allowed \in {0, 1}
            /\ \A t \in ToSet(other.args) :
                /\ {m[k] : k \in positions(t)} \ {rigid} = ParametersOf(part, own, rigid, t)
                /\ \A j, k \in positions(t) : m[j] = m[k] => j = k
            /\ Cardinality({k \in DOMAIN m : m[k] = rigid}) <= allowed}

PossibleMatches(part, own, other, rigid) ==
    {Atom(other.pred, [k \in DOMAIN m |-> Var(m[k])]) : m \in Mappings(part, own, other, rigid)}

\* refine_candidate: an atom is added for a deleted atom of a new predicate, if that
\* balances the threat.
RefineCandidate(inv, op, threat) ==
    LET add == AtomAt(op, threat)
        deleted == {AtomAt(op, r) : r \in {x \in Refs(op) : ~op.effects[x[1]].lits[x[2]].pos}}
        new == UNION {PossibleMatches(FindPart(inv, add.pred), add, d, inv.rigid)
                      : d \in {x \in deleted : x.pred \notin PredicatesOf(inv)}}
        refined(phi) == Normalize([inv EXCEPT !.atoms = @ \cup {phi},
                                              !.counted = IF UsesCounted(phi, inv.rigid) THEN 1 ELSE @])
    IN  {inv2 \in {refined(phi) : phi \in {x \in new : ~Covers(inv, x)}} :
            ~Unbalanced(op, op.effects[threat[1]], add, inv2)}

\* make_initial_candidates: every predicate with no or one counted position.
InitialAtom(pred, counted) ==
    Atom(pred.name, [k \in 1 .. pred.arity |->
                        Var(IF k = counted THEN pred.arity - 1 ELSE IF k < counted THEN k - 1 ELSE k - 2)])

InitialCandidates(pred) ==
    [c \in 1 .. pred.arity + 1 |->
        IF c = 1 THEN [rigid |-> pred.arity, counted |-> 0, atoms |-> {InitialAtom(pred, pred.arity + 1)}]
        ELSE [rigid |-> pred.arity - 1, counted |-> 1, atoms |-> {InitialAtom(pred, c - 1)}]]

-----------------------------------------------------------------------------
(* The task: ground instances and what the delete-free program reaches *)

Instance(b, atom) == Map(LAMBDA t : IF IsVar(t) THEN Obj(b[t[2]]) ELSE t, atom)
Bindings(first, n) == [first .. (first + n - 1) -> Objects]

HoldsIn(lits, b, S) == \A l \in lits : (Instance(b, l.atom) \in S) = l.pos

\* Effects of an operator for a binding that fire in S: pairs of effect and binding.
Fired(op, b, S) ==
    UNION {{<<op.effects[e], c @@ b>> : c \in
                {d \in Bindings(op.vars, op.effects[e].vars) :
                    HoldsIn(op.effects[e].cond, d @@ b, S) /\ HoldsIn(op.effects[e].static, d @@ b, task.static)}}
           : e \in DOMAIN op.effects}

Affected(fired, polarity) ==
    UNION {{Instance(x[2], l.atom) : l \in {m \in ToSet(x[1].lits) : m.pos = polarity}} : x \in fired}

Positive(lits) == {l \in lits : l.pos}
Relaxed(op) ==
    [op EXCEPT !.pre = Positive(@),
               !.effects = [e \in DOMAIN @ |-> [@[e] EXCEPT !.cond = Positive(@)]]]

RelaxedStep(S) ==
    S \cup UNION {UNION {Affected(Fired(Relaxed(op), b, S), TRUE)
                         : b \in {c \in Bindings(0, op.vars) : HoldsIn(Positive(op.pre), c, S) /\ HoldsIn(op.static, c, task.static)}}
                  : op \in ToSet(task.ops)}

\* Steps enough for the tasks considered: one new atom per step at least.
AllAtoms ==
    LET R[n \in 0 .. 8] == IF n = 0 THEN task.init ELSE LET S == R[n - 1] IN RelaxedStep(S)
    IN  R[8]

-----------------------------------------------------------------------------
(* mutexes.cpp *)

\* extract_rigid_values: the objects an atom gives to the rigid parameters of a part
\* it matches; undefined if a rigid parameter does not occur in the part.
HasRigidValues(inv, part, atom) ==
    /\ Matches(part, atom, 0 .. (inv.rigid + inv.counted - 1))
    /\ \A i \in 0 .. (inv.rigid - 1) : Var(i) \in ToSet(part.args)

RigidValues(inv, part, atom) ==
    [i \in 0 .. (inv.rigid - 1) |-> atom.args[CHOOSE k \in DOMAIN part.args : part.args[k] = Var(i)]]

\* instantiate_group: the atoms that are instances of a part under rigid values v.
InstantiateGroup(inv, v, atoms) ==
    {a \in atoms : \E part \in inv.atoms :
        /\ Matches(part, a, 0 .. (inv.rigid + inv.counted - 1))
        /\ \A k \in DOMAIN part.args : IsVar(part.args[k]) /\ part.args[k][2] < inv.rigid
                                       => a.args[k] = v[part.args[k][2]]}

\* precompute_groups: instances that an initial atom belongs to, with no other.
Groups(invs, atoms) ==
    LET instances == UNION {{InstantiateGroup(x[1], RigidValues(x[1], part, x[2]), atoms)
                             : part \in {p \in x[1].atoms : HasRigidValues(x[1], p, x[2])}}
                            : x \in invs \X task.init}
    IN  {g \in instances : g # {} /\ Cardinality(g \cap task.init) <= 1}

-----------------------------------------------------------------------------
Init ==
    /\ task \in Tasks
    /\ phase = "synthesize"
    /\ queue = FlattenSeq([i \in DOMAIN Predicates |-> InitialCandidates(Predicates[i])])
    /\ seen = {}
    /\ accepted = {}
    /\ groups = {}
    /\ chosen = {}
    /\ state = task.init

\* An iteration of synthesize_invariants.
CheckCandidate ==
    /\ phase = "synthesize" /\ queue # <<>>
    /\ LET inv == Normalize(Last(queue))
           failing == Failing(inv)
           op == task.ops[Min(failing)]
           new == inv \notin seen
       IN  /\ seen' = seen \cup {inv}
           /\ accepted' = IF new /\ failing = {} THEN accepted \cup {inv} ELSE accepted
           /\ queue' = Front(queue) \o
                IF ~new \/ failing = {} \/ TooHeavy(op, inv) THEN <<>>
                ELSE SetToSeq(RefineCandidate(inv, op, FirstThreat(op, inv)))
    /\ UNCHANGED <<task, phase, groups, chosen, state>>

PrecomputeGroups ==
    /\ phase = "synthesize" /\ queue = <<>>
    /\ groups' = Groups(accepted, AllAtoms)
    /\ phase' = "choose"
    /\ UNCHANGED <<task, queue, seen, accepted, chosen, state>>

\* compute_uncovered_coverage, build_uncovered_subgroup
Uncovered == AllAtoms \ UNION chosen

\* choose_groups_greedily: a group with the most uncovered atoms, restricted to them.
\* Ties are broken by the order of the groups in the code, here by any choice.
SelectGroup ==
    /\ phase = "choose"
    /\ \E g \in groups :
        /\ g \cap Uncovered # {}
        /\ \A h \in groups : Cardinality(h \cap Uncovered) <= Cardinality(g \cap Uncovered)
        /\ chosen' = chosen \cup {g \cap Uncovered}
    /\ UNCHANGED <<task, phase, queue, seen, accepted, groups, state>>

AddSingletons ==
    /\ phase = "choose"
    /\ \A g \in groups : g \cap Uncovered = {}
    /\ chosen' = chosen \cup {{a} : a \in Uncovered}
    /\ phase' = "run"
    /\ UNCHANGED <<task, queue, seen, accepted, groups, state>>

\* An action of the task is applied (what the groups are for).
Execute ==
    /\ phase = "run"
    /\ \E op \in ToSet(task.ops) : \E b \in Bindings(0, op.vars) :
        /\ HoldsIn(op.pre, b, state)
        /\ HoldsIn(op.static, b, task.static)
        /\ LET fired == Fired(op, b, state)
           IN  state' = (state \ Affected(fired, FALSE)) \cup Affected(fired, TRUE)
    /\ UNCHANGED <<task, phase, queue, seen, accepted, groups, chosen>>

Next == CheckCandidate \/ PrecomputeGroups \/ SelectGroup \/ AddSingletons \/ Execute

Spec == Init /\ [][Next]_vars

-----------------------------------------------------------------------------
(* The groups become the values of finite-domain variables: every reachable *)
(* atom is in exactly one of them, and no state the task reaches has two    *)
(* atoms of one (fdr_context builds one variable per group and stores one   *)
(* value of it in a state).                                                 *)
MutexGroups ==
    phase = "run" =>
        /\ UNION chosen = AllAtoms
        /\ \A g, h \in chosen : g # h => g \cap h = {}
        /\ \A g \in chosen : Cardinality(g \cap state) <= 1

=============================================================================
