--------------------------- MODULE StateRepository ---------------------------
(***************************************************************************)
(* Registration of states (planning/{ground,lifted}_task/state_repository,   *)
(* state, axiom_evaluator and the state storage backends).                   *)
(*                                                                           *)
(* A state under construction is an unpacked object taken from a pool, with   *)
(* whatever its last user left in it.  register_state extends it by the      *)
(* axioms, packs its three parts into stores that give equal contents equal  *)
(* positions, and gives the triple of positions an index.  A view keeps the  *)
(* unpacked object; get_registered_state unpacks into another one.           *)
(*                                                                           *)
(* Numbers are integers or NaN, rounded and compared with the absolute       *)
(* tolerance 2; the relative one is left out.  The trees of the other storage *)
(* policy are the external library valla, used as stores of sequences.        *)
(*                                                                           *)
(* Above it, applicability and execution of ground actions                   *)
(* (planning/applicability.ipp, applicability_lifted.ipp,                    *)
(* action_executor.cpp, successor_generator.cpp of both task kinds).         *)
(*                                                                           *)
(* A conditional effect fires where its condition holds in the old state;    *)
(* all fired deletes come before all fired adds, numbers are computed from   *)
(* the old state, and the metric value of the node is computed last, in the  *)
(* registered successor.  A node is a view and its metric value.             *)
(***************************************************************************)
EXTENDS BitPacking, Sequences, SequencesExt, TLC

CONSTANTS Kind,         \* "ground" or "lifted"
          NumAtoms,     \* NumAtoms[v]: atoms of the fluent variable v
          Derived,      \* derived atoms, numbered from 0
          Strata,       \* sequence of sets of axioms
          Objects,      \* number of unpacked objects (bound)
          MaxStates,    \* number of registered states (bound)
          NaN

RepositoryAssumption ==
    /\ Kind \in {"ground", "lifted"}
    /\ \A v \in DOMAIN NumAtoms : NumAtoms[v] \in Nat
    /\ Kind = "lifted" => \A v \in DOMAIN NumAtoms : NumAtoms[v] = 1

VARIABLES
    unpacked,   \* unpacked[o]: content of the unpacked objects allocated so far
    free,       \* stack of objects free for reuse
    views,      \* views[o]: StateViews that share object o
    facts, derived, numerics,   \* the stores of packed parts
    packed,     \* m_packed_states
    meaning     \* meaning[i]: the state index i was given for (history)

repositoryVars == <<unpacked, free, views, facts, derived, numerics, packed, meaning>>

Variables == DOMAIN NumAtoms

\* FloatTolerance::canonicalize: to the nearest multiple of the tolerance, half
\* ones away from zero.
Tolerance == 2
Canonicalize(x) ==
    IF x = NaN THEN NaN
    ELSE IF x >= 0 THEN ((x + 1) \div Tolerance) * Tolerance ELSE -(((1 - x) \div Tolerance) * Tolerance)

CanonicalNumbers(numbers) == [f \in DOMAIN numbers |-> Canonicalize(numbers[f])]

\* tyr::set on the numbers: positions skipped become NaN.
SetNumber(numbers, f, x) ==
    [g \in 1..(IF f > Len(numbers) THEN f ELSE Len(numbers)) |->
        IF g = f THEN x ELSE IF g <= Len(numbers) THEN numbers[g] ELSE NaN]

GetNumber(numbers, f) == IF f \in DOMAIN numbers THEN numbers[f] ELSE NaN

-----------------------------------------------------------------------------
(* Axioms *)

\* Axiom bodies over facts <<v, x>> and derived atoms; those with numeric
\* constraints are left out, and static literals are constants of a body.
IsApplicableAxiom(ax, values, D) ==
    /\ \A fact \in ax.facts : values[fact[1]] = fact[2]
    /\ ax.pos \subseteq D
    /\ ax.neg \cap D = {}

\* compute_extended_state: in every stratum all applicable axioms fire in
\* rounds, until a round finds nothing new.
StratumFixpoint(axioms, values, D) ==
    LET round[n \in Nat] ==
          IF n = 0 THEN D
          ELSE round[n - 1] \cup
               {ax.head : ax \in {a \in axioms : IsApplicableAxiom(a, values, round[n - 1])}}
    IN  round[Cardinality(Derived) + 1]

\* Mutant: all axioms are evaluated in one fixpoint.
ComputeExtendedStateFlat(u) == StratumFixpoint(UNION Range(Strata), u.values, u.atoms)

\* The lifted evaluator adds what the Datalog engine derives from the fluents.
DerivedByEngine(values) ==
    FoldLeft(LAMBDA D, axioms : StratumFixpoint(axioms, values, D), {}, Strata)

\* The ground one goes on from the atoms the object has.
ComputeExtendedState(u) ==
    IF Kind = "lifted" THEN u.atoms \cup DerivedByEngine(u.values)
    ELSE FoldLeft(LAMBDA D, axioms : StratumFixpoint(axioms, u.values, D), u.atoms, Strata)

\* Reference: the least set closed under the axioms of a stratum, given the
\* strata before it.
Closed(axioms, values, D, E) ==
    /\ D \subseteq E
    /\ \A ax \in axioms :
        (/\ \A fact \in ax.facts : values[fact[1]] = fact[2]
         /\ ax.pos \subseteq E
         /\ ax.neg \cap D = {}) => ax.head \in E

StratifiedModel(values) ==
    FoldLeft(LAMBDA D, axioms :
                {d \in Derived : \A E \in SUBSET Derived : Closed(axioms, values, D, E) => d \in E},
             {}, Strata)

-----------------------------------------------------------------------------
(* Packed parts *)

\* Mutant: the domain of a variable misses the value none.
LengthWithoutNone(v) == BitsNeeded(NumAtoms[v])

\* compute_layout_data: the bits of the variables one after the other.
Length(v) == BitsNeeded(NumAtoms[v] + 1)
FirstBit(v) == MapThenSumSet(Length, 1..(v - 1))
FactArraySize == CeilDiv(MapThenSumSet(Length, Variables), Digits)
DerivedArraySize == CeilDiv(Cardinality(Derived), Digits)

\* FactStorageBackend::insert and unpack of a ground task.
PackValues(values) ==
    LET buffer[v \in 0..Len(NumAtoms)] ==
          IF v = 0 THEN [b \in 0..(FactArraySize - 1) |-> {}]
          ELSE WriteInt(buffer[v - 1], FirstBit(v) \div Digits, Encode(values[v]),
                        FirstBit(v) % Digits, Length(v))
    IN  buffer[Len(NumAtoms)]

UnpackValues(array) ==
    [v \in Variables |->
        Decode(ReadInt(array, FirstBit(v) \div Digits, FirstBit(v) % Digits, Length(v)))]

\* The same of a lifted task: the list of variables whose atom holds.
PackTrue(values) == {v \in Variables : values[v] = 1}
UnpackTrue(list) == [v \in Variables |-> IF v \in list THEN 1 ELSE 0]

\* AtomStorageBackend::insert and unpack of a ground task.
PackBits(D) ==
    FoldSet(LAMBDA a, buffer : WriteBit(buffer, a, a \in D),
            [b \in 0..(DerivedArraySize - 1) |-> {}], Derived)

UnpackBits(array) == {a \in Derived : ReadBit(array, a)}

\* The tree policy packs the same buffers, into an array set for a ground task
\* and into valla's trees for a lifted one; both give equal contents one slot.
PackFacts(values) == IF Kind = "ground" THEN PackValues(values) ELSE PackTrue(values)
UnpackFacts(x) == IF Kind = "ground" THEN UnpackValues(x) ELSE UnpackTrue(x)
PackDerived(D) == IF Kind = "ground" THEN PackBits(D) ELSE D
UnpackDerived(x) == IF Kind = "ground" THEN UnpackBits(x) ELSE x

\* RawVectorSet compares numbers with ==, which no NaN passes.
SameNumbers(a, b) ==
    Len(a) = Len(b) /\ \A f \in DOMAIN a : a[f] # NaN /\ a[f] = b[f]

\* insert of the stores: the position of an equal element, or a new one.
Position(store, x) == IF Contains(store, x) THEN SelectInSeq(store, LAMBDA y : y = x) ELSE Len(store) + 1
Stored(store, x) == IF Contains(store, x) THEN store ELSE Append(store, x)

NumbersPosition(x) ==
    LET equal == SelectInSeq(numerics, LAMBDA y : SameNumbers(x, y))
    IN  IF equal # 0 THEN equal ELSE Len(numerics) + 1

-----------------------------------------------------------------------------
(* Unpacked objects *)

Blank == [index |-> 0, values |-> [v \in Variables |-> 0], numbers |-> <<>>, atoms |-> {}]

\* clear and resize: everything but the index is reset.
Cleared(u) == [u EXCEPT !.values = Blank.values, !.numbers = <<>>, !.atoms = {}]

\* set of a fact, set of a derived atom is membership.
SetFact(values, fact) == [values EXCEPT ![fact[1]] = fact[2]]

\* FDRFactRange: a ground state lists the variables that have a value, a lifted
\* one the variables whose bit is set.
GroundFacts(values) ==
    SelectSeq([v \in Variables |-> <<v, values[v]>>], LAMBDA fact : fact[2] # 0)
LiftedFacts(values) ==
    SelectSeq([v \in Variables |-> <<v, 1>>], LAMBDA fact : values[fact[1]] = 1)

\* AtomRange: the positions of the bits set; FunctionTermValueRange: the terms
\* that have a number.
AtomsListed(D) == SetToSortSeq(D, <)
FunctionValues(numbers) ==
    SelectSeq([f \in DOMAIN numbers |-> <<f, numbers[f]>>], LAMBDA fv : fv[2] # NaN)

\* What a StateView of either kind offers of its object.
GroundView(u) == [index |-> u.index, facts |-> GroundFacts(u.values),
                  atoms |-> AtomsListed(u.atoms), numbers |-> FunctionValues(u.numbers)]
LiftedView(u) == [index |-> u.index, facts |-> LiftedFacts(u.values),
                  atoms |-> AtomsListed(u.atoms), numbers |-> FunctionValues(u.numbers)]
StateView(u) == IF Kind = "ground" THEN GroundView(u) ELSE LiftedView(u)

\* get_unregistered_state: the last object released, or a new one.
NextObject == IF free # <<>> THEN Last(free) ELSE Len(unpacked) + 1
HasObject == free # <<>> \/ Len(unpacked) < Objects

GetUnregisteredState ==
    Cleared(IF free # <<>> THEN unpacked[Last(free)] ELSE Blank)

\* The object o comes out of the pool and is held with content u by one view.
Take(u) ==
    LET o == NextObject
    IN  /\ unpacked' = IF o \in DOMAIN unpacked THEN [unpacked EXCEPT ![o] = u] ELSE Append(unpacked, u)
        /\ views' = IF o \in DOMAIN views THEN [views EXCEPT ![o] = 1] ELSE Append(views, 1)
        /\ free' = IF free # <<>> THEN Front(free) ELSE free

\* assign_unextended_part.
AssignUnextendedPart(u, other) == [u EXCEPT !.values = other.values, !.numbers = other.numbers]

\* The state an unpacked object stands for.
StateOf(u) == [values |-> u.values, numbers |-> CanonicalNumbers(u.numbers),
               atoms |-> StratifiedModel(u.values)]

\* register_state of the object NextObject with content u.
RegisterState(u) ==
    LET D == ComputeExtendedState(u)
        numbers == CanonicalNumbers(u.numbers)
        pf == Position(facts, PackFacts(u.values))
        pd == Position(derived, PackDerived(D))
        pn == NumbersPosition(numbers)
        triple == <<pf, pd, pn>>
    IN  /\ Len(Stored(packed, triple)) <= MaxStates
        /\ facts' = Stored(facts, PackFacts(u.values))
        /\ derived' = Stored(derived, PackDerived(D))
        /\ numerics' = IF pn > Len(numerics) THEN Append(numerics, numbers) ELSE numerics
        /\ packed' = Stored(packed, triple)
        /\ meaning' = IF Contains(packed, triple) THEN meaning ELSE Append(meaning, StateOf(u))
        /\ Take([u EXCEPT !.atoms = D, !.index = Position(packed, triple)])

UnpackState(i) ==
    [index   |-> i,
     values  |-> UnpackFacts(facts[packed[i][1]]),
     numbers |-> numerics[packed[i][3]],
     atoms   |-> UnpackDerived(derived[packed[i][2]])]

RepositoryInit ==
    /\ unpacked = <<>>
    /\ free = <<>>
    /\ views = <<>>
    /\ facts = <<>>
    /\ derived = <<>>
    /\ numerics = <<>>
    /\ packed = <<>>
    /\ meaning = <<>>

\* create_state, get_initial_state: the facts and numbers are set in order.
CreateState(newFacts, newNumbers) ==
    /\ HasObject
    /\ RegisterState(
        [GetUnregisteredState EXCEPT
            !.values = FoldLeft(SetFact, @, newFacts),
            !.numbers = FoldLeft(LAMBDA ns, fv : SetNumber(ns, fv[1], fv[2]), @, newNumbers)])

GetRegisteredState(i) ==
    /\ HasObject
    /\ i \in DOMAIN packed
    /\ Take([UnpackState(i) EXCEPT !.index = i])
    /\ UNCHANGED <<facts, derived, numerics, packed, meaning>>

\* A StateView is copied or destroyed; the last one frees the object.
CopyView(o) ==
    /\ views[o] = 1
    /\ views' = [views EXCEPT ![o] = 2]
    /\ UNCHANGED <<unpacked, free, facts, derived, numerics, packed, meaning>>

DestroyView(o) ==
    /\ views[o] > 0
    /\ views' = [views EXCEPT ![o] = @ - 1]
    /\ free' = IF views[o] = 1 THEN Append(free, o) ELSE free
    /\ UNCHANGED <<unpacked, facts, derived, numerics, packed, meaning>>

-----------------------------------------------------------------------------
Held == {o \in DOMAIN views : views[o] > 0}

\* Every view a client holds shows the state its index was given for, although
\* its object is pooled and reused: the facts it lists are all that the state
\* has, its atoms are the derived ones of the stratified axioms, and its numbers
\* are those of the state up to the rounding of the store.
\* (register_state, get_registered_state, StateView)
ViewsFaithful ==
    \A o \in Held :
        LET view == StateView(unpacked[o])
            state == meaning[view.index]
        IN  /\ view.index \in DOMAIN meaning
            /\ FoldLeft(SetFact, Blank.values, view.facts) = state.values
            /\ view.atoms = AtomsListed(state.atoms)
            /\ [n \in DOMAIN view.numbers |-> <<view.numbers[n][1], Canonicalize(view.numbers[n][2])>>]
                 = FunctionValues(state.numbers)
            /\ CanonicalNumbers(unpacked[o].numbers) = state.numbers

\* A state has one index, however often it is registered, unless it has an
\* undefined number below a defined one: no vector with NaN equals another, so
\* such a state is registered again (RawVectorSet::insert).
OneIndexPerState ==
    \A i, j \in DOMAIN meaning :
        meaning[i] = meaning[j] /\ (\A f \in DOMAIN meaning[i].numbers : meaning[i].numbers[f] # NaN) => i = j

\* Unpacking the packed parts of an index gives back the state it was given for,
\* bit by bit (insert, unpack).
Unpacks ==
    \A i \in DOMAIN packed :
        LET u == UnpackState(i)
        IN  [values |-> u.values, numbers |-> u.numbers, atoms |-> u.atoms] = meaning[i]

\* Indices and states correspond one to one, in the stores and in the views.
RepositoryFaithful == ViewsFaithful /\ OneIndexPerState /\ Unpacks

-----------------------------------------------------------------------------
(* The action executor                                                      *)

CONSTANTS Actions,          \* ground actions
          InitialFacts, InitialNumbers,
          StaticAtoms,      \* static atoms of the task
          StaticNumbers,    \* values of the static function terms
          InitialCost,      \* <<>> or <<initial value of total-cost>>
          Metric,           \* <<>> or <<expression to minimize>>
          MaxMetric         \* bound on the metric values

VARIABLE metric         \* metric[o]: the metric value of the node of object o

executorVars == <<repositoryVars, metric>>

None == "none"

\* StateContext: an unpacked state and the auxiliary value, the total-cost.
StateContext(u, x) == [unpacked |-> u, aux |-> x]

-----------------------------------------------------------------------------
(* Numeric expressions: a number [kind, value], a term [kind, index] of kind *)
(* "static", "fluent" or "auxiliary", or an operator: [kind, arg] of kind    *)
(* "unary", [kind, op, lhs, rhs] of kind "binary", [kind, args] of kind      *)
(* "multi".                                                                  *)

\* apply of the arithmetic and effect operators. The model's numbers are
\* integers: a quotient that is not one, and infinity, are left out.
Apply(op, x, y) ==
    IF op = "assign" THEN y
    ELSE IF x = NaN \/ y = NaN THEN NaN
    ELSE CASE op \in {"+", "increase"} -> x + y
           [] op \in {"-", "decrease"} -> x - y
           [] op \in {"*", "scale-up"} -> x * y
           [] op \in {"/", "scale-down"} /\ x = 0 -> IF y = 0 THEN NaN ELSE 0
           [] op \in {"/", "scale-down"} /\ y > 0 /\ x % y = 0 -> x \div y

\* FloatCmp: numbers that differ by the tolerance are equal; no comparison but
\* != holds of NaN.
Compare(op, x, y) ==
    LET le == x <= y + Tolerance
        ge == x + Tolerance >= y
    IN  IF x = NaN \/ y = NaN THEN op = "!="
        ELSE CASE op = "="  -> le /\ ge
               [] op = "!=" -> ~(le /\ ge)
               [] op = "<=" -> le
               [] op = "<"  -> ~ge
               [] op = ">=" -> ge
               [] op = ">"  -> ~le

\* evaluate. The arguments of a multi-operator are multiplied, whatever the
\* operator is.
RECURSIVE Evaluate(_, _)
Evaluate(e, c) ==
    CASE e.kind = "number"    -> e.value
      [] e.kind = "static"    -> GetNumber(StaticNumbers, e.index)
      [] e.kind = "fluent"    -> GetNumber(c.unpacked.numbers, e.index)
      [] e.kind = "auxiliary" -> c.aux
      [] e.kind = "unary"     -> Apply("-", 0, Evaluate(e.arg, c))
      [] e.kind = "binary"    -> Apply(e.op, Evaluate(e.lhs, c), Evaluate(e.rhs, c))
      [] e.kind = "multi"     -> FoldLeft(LAMBDA x, arg : Apply("*", x, Evaluate(arg, c)),
                                          Evaluate(Head(e.args), c), Tail(e.args))

\* The value of a numeric effect; an undefined target is NaN unless assigned.
EvaluateEffect(n, c) == Apply(n.op, GetNumber(c.unpacked.numbers, n.fterm), Evaluate(n.expr, c))

-----------------------------------------------------------------------------
(* Applicability *)

\* GroundConjunctiveCondition: static literals, positive and negative facts,
\* derived literals, numeric constraints.
IsApplicableCondition(d, c) ==
    /\ d.staticPos \subseteq StaticAtoms
    /\ d.staticNeg \cap StaticAtoms = {}
    /\ \A fact \in d.pos : c.unpacked.values[fact[1]] = fact[2]
    /\ \A fact \in d.neg : c.unpacked.values[fact[1]] # fact[2]
    /\ d.derivedPos \subseteq c.unpacked.atoms
    /\ d.derivedNeg \cap c.unpacked.atoms = {}
    /\ \A n \in d.constraints : Compare(n.op, Evaluate(n.lhs, c), Evaluate(n.rhs, c))

Fires(e, c) == IsApplicableCondition(e.condition, c)
FiredEffects(a, c) == SelectSeq(a.effects, LAMBDA e : Fires(e, c))
NumericsOf(effects) == FlattenSeq([i \in DOMAIN effects |-> effects[i].numerics])
FiredNumerics(a, c) == NumericsOf(FiredEffects(a, c))

Family(op) == IF op = "assign" THEN "assign" ELSE IF op \in {"increase", "decrease"} THEN "add" ELSE "scale"

IsCompatibleEffectFamily(x, y) == x = None \/ y = None \/ (x = y /\ x # "assign")

\* resize(n, NONE) of the list of effect families: families of higher terms
\* are dropped.
Resized(families, n) ==
    [i \in 1..n |-> IF i \in DOMAIN families THEN families[i] ELSE None]

\* is_applicable of the effects: the numeric ones in order, n[position] being the
\* position a term has in the list of families, and the auxiliary one, which
\* must have a defined value.
EffectsApplicable(effects, c, position) ==
    LET numerics_ == NumericsOf(effects)
        after[i \in 0..Len(numerics_)] ==
          IF i = 0 THEN [ok |-> TRUE, families |-> <<>>]
          ELSE LET n == numerics_[i]
                   families == Resized(after[i - 1].families, n[position])
               IN  [ok |-> /\ after[i - 1].ok
                           /\ IsCompatibleEffectFamily(Family(n.op), families[n[position]])
                           /\ n.op # "assign" => GetNumber(c.unpacked.numbers, n.fterm) # NaN
                           /\ Evaluate(n.expr, c) # NaN,
                    families |-> [families EXCEPT ![n[position]] = Family(n.op)]]
    IN  /\ after[Len(numerics_)].ok
        /\ \A i \in DOMAIN effects : \A expr \in Range(effects[i].aux) : Evaluate(expr, c) # NaN

\* is_applicable_if_fires over ground effects, and over the lifted ones, which
\* looks up families under the index of the lifted term.
IsApplicableIfFires(a, c) == EffectsApplicable(FiredEffects(a, c), c, "fterm")
IsApplicableIfFiresLifted(a, c) == EffectsApplicable(FiredEffects(a, c), c, "schema")

IsApplicable(a, c) == IsApplicableCondition(a.condition, c) /\ IsApplicableIfFires(a, c)
IsApplicableLifted(a, c) == IsApplicableCondition(a.condition, c) /\ IsApplicableIfFiresLifted(a, c)

-----------------------------------------------------------------------------
(* Execution *)

\* process_effects: the deletes and adds of the effects that fire are collected,
\* their numbers are computed from the old state, and the auxiliary value grows
\* as they are processed.
ProcessEffects(a, c) ==
    LET process(p, e) ==
          LET now == [c EXCEPT !.aux = p.aux]
          IN  IF ~Fires(e, now) THEN p
              ELSE [del |-> p.del \o e.del,
                    add |-> p.add \o e.add,
                    numbers |-> FoldLeft(LAMBDA ns, n : SetNumber(ns, n.fterm, EvaluateEffect(n, now)),
                                         p.numbers, e.numerics),
                    aux |-> FoldLeft(LAMBDA x, expr : Apply("increase", x, Evaluate(expr, now)), p.aux, e.aux)]
    IN  FoldLeft(process, [del |-> <<>>, add |-> <<>>, numbers |-> c.unpacked.numbers, aux |-> c.aux], a.effects)

Deleted(values, fact) == IF values[fact[1]] = fact[2] THEN [values EXCEPT ![fact[1]] = 0] ELSE values
Added(values, fact) == [values EXCEPT ![fact[1]] = fact[2]]

\* Mutant: deletes are applied after the adds.
SuccessorValuesAddFirst(p, u) == FoldLeft(Deleted, FoldLeft(Added, u.values, p.add), p.del)

\* The loops over the collected deletes and adds.
SuccessorValues(p, u) == FoldLeft(Added, FoldLeft(Deleted, u.values, p.del), p.add)

\* apply_action: the successor before it is registered.
Successor(p, u) ==
    [AssignUnextendedPart(GetUnregisteredState, u) EXCEPT
        !.values = SuccessorValues(p, u), !.numbers = p.numbers]

\* The metric of the successor, evaluated in the successor; unit cost without.
SuccessorMetric(succ, aux) ==
    Canonicalize(IF Metric = <<>> THEN Apply("+", aux, 1)
                 ELSE Evaluate(Metric[1], StateContext(succ, aux)))

Noted(o, x) == IF o \in DOMAIN metric THEN [metric EXCEPT ![o] = x] ELSE Append(metric, x)

ApplyAction(o, a) ==
    LET u == unpacked[o]
        processed == ProcessEffects(a, StateContext(u, metric[o]))
        succ == Successor(processed, u)
        cost == SuccessorMetric(succ, processed.aux)
    IN  /\ HasObject
        /\ cost = NaN \/ cost <= MaxMetric
        /\ metric' = Noted(NextObject, cost)
        /\ RegisterState(succ)

\* get_labeled_successor_nodes, one successor at a time. The condition is tested
\* by the match tree of a ground task, whose actions have true static literals,
\* and by the Datalog program of a lifted one; the effects by the executor.
SuccessorNode(o, a) ==
    /\ views[o] > 0
    /\ IsApplicable(a, StateContext(unpacked[o], metric[o]))
    /\ ApplyAction(o, a)

\* get_applicable_action_bindings and get_successor_node of a binding.
SuccessorByBinding(o, a) ==
    /\ Kind = "lifted"
    /\ views[o] > 0
    /\ IsApplicableLifted(a, StateContext(unpacked[o], metric[o]))
    /\ ApplyAction(o, a)

\* evaluate_metric: the initial total-cost if there is one.
EvaluateMetric(u) ==
    IF InitialCost # <<>> THEN InitialCost[1]
    ELSE IF Metric = <<>> THEN 0 ELSE Canonicalize(Evaluate(Metric[1], StateContext(u, 0)))

GetInitialNode ==
    /\ CreateState(InitialFacts, InitialNumbers)
    /\ metric' = Noted(NextObject, EvaluateMetric(unpacked'[NextObject]))

GetNode(i) ==
    /\ GetRegisteredState(i)
    /\ metric' = Noted(NextObject, EvaluateMetric(UnpackState(i)))

Init == RepositoryInit /\ metric = <<>>

Next ==
    \/ GetInitialNode
    \/ \E i \in 1..MaxStates : GetNode(i)
    \/ \E o \in DOMAIN views :
        \/ CopyView(o) /\ UNCHANGED metric
        \/ DestroyView(o) /\ UNCHANGED metric
        \/ \E a \in Actions : SuccessorNode(o, a) \/ SuccessorByBinding(o, a)

Spec == Init /\ [][Next]_executorVars

-----------------------------------------------------------------------------
(* Reference semantics, over sets of atoms *)

Atoms(values) == {<<v, values[v]>> : v \in {w \in Variables : values[w] # 0}}

Dels(a, c) == UNION {Range(e.del) : e \in Range(FiredEffects(a, c))}
Adds(a, c) == UNION {Range(e.add) : e \in Range(FiredEffects(a, c))}
Targets(a, c) == {n.fterm : n \in Range(FiredNumerics(a, c))}

\* Generating a successor gives (state - deletes) + adds of the effects that
\* fire in the old state, terms no fired effect changes keep their numbers,
\* terms with one fired effect get its value in the old state, and the old
\* node's object is untouched (action_executor.cpp apply_action_impl).
SuccessorRight ==
    \A o \in DOMAIN views, a \in Actions : SuccessorNode(o, a) \/ SuccessorByBinding(o, a) =>
        LET u == unpacked[o]
            c == StateContext(u, metric[o])
            succ == unpacked'[NextObject]
        IN  /\ unpacked'[o] = u
            /\ Atoms(succ.values) = (Atoms(u.values) \ Dels(a, c)) \cup Adds(a, c)
            /\ \A f \in 1..Len(u.numbers) \ Targets(a, c) : succ.numbers[f] = u.numbers[f]
            /\ \A n \in Range(FiredNumerics(a, c)) :
                (\A m \in Range(FiredNumerics(a, c)) : m.fterm = n.fterm => m = n)
                    => succ.numbers[n.fterm] = EvaluateEffect(n, c)
=============================================================================
