----------------------------- MODULE MCStorage ------------------------------
(***************************************************************************)
(* The layers that store states, each on its own; part says which of them   *)
(* a behaviour is about.                                                    *)
(*                                                                          *)
(* Pools: two threads with two pointers each, so that copies, moves and the *)
(* last release of an entry of both threads interleave. Objects: the pools  *)
(* of one thread with three pointers and entries. Arrays: blocks of         *)
(* four bits; the shapes make elements straddle blocks, fill them exactly,  *)
(* and take a block each; 9 does not fit into three bits. Containers:       *)
(* segments of one or two values at first, vectors that need up to four     *)
(* cells, and spans of up to three blocks of two bits. States: a ground     *)
(* task of three variables of five bits in blocks of two, so that the third *)
(* one straddles, and a lifted one; three derived atoms in two strata with  *)
(* negation; two function terms with numbers at first and more assigned,    *)
(* one of them above a gap; a static atom and a static term. Numbers are in *)
(* half tolerances: 2 is one tolerance.                                     *)
(***************************************************************************)
EXTENDS SharedObjectPool

CONSTANT NaN

VARIABLES
    part,
    shape, segments, size, known, written, given,
    kind, memory, count, cursor, used, slots, members, stored,
    mode, entries, unused, counts, content, holds, shares, value,
    unpacked, free, views, facts, derived, numerics, packed, meaning, metric

arrayVars == <<shape, segments, size, known, written, given>>
containerVars == <<kind, memory, count, cursor, used, slots, members, stored>>
objectVars == <<mode, entries, unused, counts, content, holds, shares, value>>
stateVars == <<unpacked, free, views, facts, derived, numerics, packed, meaning, metric>>

mcThread == {"t", "u"}
mcPointer == {"a", "b", "c", "d"}
mcOwner == [p \in mcPointer |-> IF p \in {"a", "b"} THEN "t" ELSE "u"]
mcEntry == {"x", "y", "z", "w"}

Packed == INSTANCE BitPackedArrays WITH
    Digits <- 4, Shapes <- {<<2, 3>>, <<2, 2>>, <<1, 4>>}, Values <- {0, 5, 9},
    FirstSegmentSize <- 1, MaxSize <- 4

Containers == INSTANCE Containers WITH
    Digits <- 2, Kinds <- {"nodes", "objects", "blocks", "arrays", "vectors", "bits"},
    FirstSegmentSize <- 1, ArraysPerSegment <- 2, FirstSegmentBytes <- 2, Length <- 2,
    Values <- {0, 1}, Objects <- {0, 1, 2}, Vectors <- {<<>>, <<1>>, <<1, 0, 1>>},
    Widths <- {0, 3, 4, 5}, MaxCount <- 4

Single == INSTANCE ObjectPools WITH Pointers <- {1, 2, 3}, Contents <- {1}, MaxEntries <- 3

-----------------------------------------------------------------------------
(* Two tasks                                                                *)

Cond(pos, neg, dpos, dneg) ==
    [staticPos |-> {}, staticNeg |-> {}, pos |-> pos, neg |-> neg, derivedPos |-> dpos, derivedNeg |-> dneg,
     constraints |-> {}]
Always == Cond({}, {}, {}, {})
Effect(c, del, add, nums, aux) ==
    [condition |-> c, del |-> del, add |-> add, numerics |-> nums, aux |-> aux]
Num(x) == [kind |-> "number", value |-> x]
Term(f) == [kind |-> "fluent", index |-> f]
Static(f) == [kind |-> "static", index |-> f]
TotalCost == [kind |-> "auxiliary", index |-> 1]
Minus(e) == [kind |-> "unary", arg |-> e]
Binary(how, l, r) == [kind |-> "binary", op |-> how, lhs |-> l, rhs |-> r]
Multi(es) == [kind |-> "multi", args |-> es]
Constraint(how, l, r) == [op |-> how, lhs |-> l, rhs |-> r]
Change(f, schema, how, e) == [fterm |-> f, schema |-> schema, op |-> how, expr |-> e]
Act(c, effects) == [condition |-> c, effects |-> effects]

Axiom(fs, pos, neg, head) == [facts |-> fs, pos |-> pos, neg |-> neg, head |-> head]
Axioms == << {Axiom({<<1, 1>>}, {}, {}, 0), Axiom({<<2, 1>>}, {0}, {}, 1)},
             {Axiom({}, {}, {1}, 2)} >>

FirstFacts == <<<<1, 1>>, <<2, 1>>, <<3, 1>>>>
FirstNumbers == <<<<1, 2>>, <<2, 0>>>>

\* Exchange reads both terms before it changes either; a delete of a value the
\* variable does not have; a fact deleted and added by one action; an effect whose
\* static condition is false.
Exchange ==
    Act([Cond({<<1, 1>>}, {}, {}, {}) EXCEPT !.staticPos = {"s"}],
        << Effect(Always, <<<<1, 1>>>>, <<>>,
                  <<Change(1, 1, "assign", Term(2)), Change(2, 2, "assign", Term(1))>>, <<Static(1)>>),
           Effect(Cond({<<2, 1>>}, {}, {}, {}), <<<<2, 1>>>>, <<<<2, 1>>>>, <<>>, <<>>),
           Effect([Always EXCEPT !.staticNeg = {"s"}], <<<<3, 1>>>>, <<>>, <<Change(2, 2, "assign", Num(9))>>, <<Num(2)>>) >>)

\* Within the tolerance of 2, terms 1 and 2 are equal at first. The cost is 0 / 0,
\* undefined, until term 2 has changed.
Spend == Act([Cond({}, {}, {0}, {2}) EXCEPT !.constraints = {Constraint("=", Term(1), Term(2))}],
             << Effect(Always, <<<<2, 1>>>>, <<>>,
                       <<Change(2, 2, "increase", Binary("+", Static(1), Num(1)))>>, <<Num(0)>>) >>)
Open == Act(Always, << Effect(Always, <<>>, <<>>, <<Change(4, 3, "assign", Minus(Term(2)))>>,
                              <<Binary("/", Num(0), Term(2))>>) >>)
Fill == Act([Always EXCEPT !.constraints = {Constraint("<", Term(4), Static(1))}],
            << Effect(Always, <<>>, <<>>, <<Change(3, 3, "assign", Multi(<<Term(4), Static(1)>>))>>, <<Num(0)>>) >>)
\* Neither is ever applicable: a static term without a value, an increase of an
\* undefined term.
Undefined ==
    { Act([Always EXCEPT !.constraints = {Constraint(">=", Static(2), Num(0))}], << Effect(Always, <<>>, <<<<1, 1>>>>, <<>>, <<>>) >>),
      Act(Always, << Effect(Always, <<>>, <<<<1, 1>>>>, <<Change(5, 5, "increase", Num(2))>>, <<>>) >>) }

GroundActions ==
    Undefined \cup
    { Exchange, Spend, Open, Fill,
      Act(Cond({}, {<<1, 1>>}, {}, {}),
          << Effect(Always, <<<<3, 1>>, <<3, 2>>>>, <<<<3, 3>>>>, <<>>, <<Num(1)>>),
             Effect([Cond({<<3, 1>>}, {}, {}, {}) EXCEPT !.constraints = {Constraint("<=", Term(1), Static(1))}],
                    <<>>, <<<<1, 2>>>>, <<Change(1, 1, "increase", Num(1))>>, <<Binary("-", Static(1), Num(1))>>) >>),
      Act(Cond({}, {}, {2}, {}), << Effect(Always, <<<<1, 1>>, <<3, 2>>>>, <<<<2, 1>>>>, <<>>, <<Num(2)>>) >>) }
LiftedActions ==
    Undefined \cup
    { Exchange, Spend, Open,
      Act(Cond({}, {<<1, 1>>}, {}, {}),
          << Effect(Always, <<<<3, 1>>>>, <<<<4, 1>>>>, <<>>, <<Num(1)>>),
             Effect([Cond({<<3, 1>>}, {}, {}, {}) EXCEPT !.constraints = {Constraint("<=", Term(1), Static(1))}],
                    <<>>, <<<<1, 1>>>>, <<Change(1, 1, "decrease", Num(1))>>, <<Binary("-", Static(1), Num(1))>>) >>),
      Act(Cond({}, {}, {2}, {}), << Effect(Always, <<<<1, 1>>>>, <<<<2, 1>>>>, <<>>, <<Num(2)>>) >>) }

Ground == INSTANCE StateRepository WITH
    Kind <- "ground", NumAtoms <- <<2, 1, 3>>, Actions <- GroundActions,
    Digits <- 2, Derived <- 0 .. 2, Strata <- Axioms, Objects <- 2, MaxStates <- 4,
    InitialFacts <- FirstFacts, InitialNumbers <- FirstNumbers,
    StaticAtoms <- {"s"}, StaticNumbers <- <<2>>, InitialCost <- <<0>>, Metric <- <<TotalCost>>, MaxMetric <- 4

Lifted == INSTANCE StateRepository WITH
    Kind <- "lifted", NumAtoms <- <<1, 1, 1, 1>>, Actions <- LiftedActions,
    Digits <- 2, Derived <- 0 .. 2, Strata <- Axioms, Objects <- 2, MaxStates <- 4,
    InitialFacts <- FirstFacts, InitialNumbers <- FirstNumbers,
    StaticAtoms <- {"s"}, StaticNumbers <- <<2>>, InitialCost <- <<0>>, Metric <- <<TotalCost>>, MaxMetric <- 4

ASSUME InstanceAssumption ==
    Packed!DigitsAssumption /\ Ground!RepositoryAssumption /\ Lifted!RepositoryAssumption

-----------------------------------------------------------------------------

MCInit ==
    /\ part \in {"pool", "objects", "arrays", "containers", "ground", "lifted"}
    /\ Init /\ Single!Init /\ Packed!Init /\ Containers!Init /\ Ground!Init
    /\ part # "objects" => mode = "shared"
    /\ part # "containers" => kind = "nodes"
    /\ part # "arrays" => shape = <<1, 4>>

PoolStep == part = "pool" /\ Next /\ UNCHANGED <<part, objectVars, arrayVars, containerVars, stateVars>>
ObjectStep ==
    part = "objects" /\ Single!Next /\ UNCHANGED <<part, vars, arrayVars, containerVars, stateVars>>
ArrayStep == part = "arrays" /\ Packed!Next /\ UNCHANGED <<part, vars, objectVars, containerVars, stateVars>>
ContainerStep == part = "containers" /\ Containers!Next /\ UNCHANGED <<part, vars, objectVars, arrayVars, stateVars>>
GroundStep == part = "ground" /\ Ground!Next /\ UNCHANGED <<part, vars, objectVars, arrayVars, containerVars>>
LiftedStep == part = "lifted" /\ Lifted!Next /\ UNCHANGED <<part, vars, objectVars, arrayVars, containerVars>>

MCSpec ==
    MCInit /\ [][PoolStep \/ ObjectStep \/ ArrayStep \/ ContainerStep \/ GroundStep \/ LiftedStep]_<<
                    part, vars, objectVars, arrayVars, containerVars, stateVars>>

\* Arrays and the values of the other containers keep their contents and their index,
\* see BitPackedArrays and Containers, and objects are their holders', see ObjectPools.
SetFaithful == Packed!SetFaithful /\ Containers!ContainersFaithful /\ Single!ObjectsOwned

\* Indices, packed states and views show the states they stand for in either kind
\* of task, see StateRepository.
RepositoryFaithful ==
    (part = "ground" => Ground!RepositoryFaithful) /\ (part = "lifted" => Lifted!RepositoryFaithful)

\* Successors are those of the action's effects, see StateRepository.
SuccessorsRight ==
    [][(part = "ground" => Ground!SuccessorRight) /\ (part = "lifted" => Lifted!SuccessorRight)]_stateVars
=============================================================================
