---- MODULE Repositories ----
(***************************************************************************)
(* The layered repositories of the formalism and the symbols every layer   *)
(* shares.  A symbol is stored once as immutable Data and named by a       *)
(* handle: the type of the symbol and its index.  A repository holds one   *)
(* slot per type; the slot of a child starts counting where the slot of    *)
(* its parent ended when the child was made or last cleared (parent_size). *)
(* The slots of the rows of a relation are made on first use.              *)
(*                                                                         *)
(* Everything is a pure operator over a heap of repositories, a sequence   *)
(* of records [parent, slots] indexed by the identifier of the repository  *)
(* (0 is no repository); the modules that translate, merge and ground      *)
(* thread the heap through their calls in the order of the code.           *)
(***************************************************************************)
EXTENDS Integers, Sequences, FiniteSets, SequencesExt

NoRepository == 0

Handle(key, n) == [k |-> key, n |-> n]

\* An absent optional (an action without cost effect, a task without metric).
None == Handle(<<"None">>, 0)

(***************************************************************************)
(* Slots.                                                                  *)
(***************************************************************************)

IsRow(key) == key[1] = "Row"

Slot(R, r, key) ==
    IF key \in DOMAIN R[r].slots THEN R[r].slots[key] ELSE [base |-> 0, rows |-> <<>>]

\* A symbol slot always exists; the slot of a relation only after its first row.
HasSlot(R, r, key) == IsRow(key) => key \in DOMAIN R[r].slots

SlotEnd(slot) == slot.base + Len(slot.rows)

RECURSIVE SizeOf(_, _, _)
SizeOf(R, r, key) ==
    IF r = NoRepository THEN 0
    ELSE IF HasSlot(R, r, key) THEN SlotEnd(Slot(R, r, key))
    ELSE SizeOf(R, R[r].parent, key)

IsLocal(R, r, h) == HasSlot(R, r, h.k) /\ h.n >= Slot(R, r, h.k).base

\* get_canonical_context: the layer of the chain of r that stores h.
RECURSIVE CanonicalContext(_, _, _)
CanonicalContext(R, r, h) ==
    IF r = NoRepository \/ IsLocal(R, r, h) THEN r ELSE CanonicalContext(R, R[r].parent, h)

\* Whether the chain of r has a symbol for h at all (the code asserts it).
Valid(R, r, h) ==
    \E o \in {CanonicalContext(R, r, h)} :
        o # NoRepository /\ h.n < SlotEnd(Slot(R, o, h.k))

\* operator[]: the data of h.
RowAt(slot, n) == slot.rows[n - slot.base + 1]

At(R, r, h) == RowAt(Slot(R, CanonicalContext(R, r, h), h.k), h.n)

\* The members two symbols are compared by: a ground axiom and a ground rule are
\* identified by their binding alone, everything else by all its members.
IdentifyingMembers(d) ==
    IF d.k[1] \in {"GroundAxiom", "GroundRule"} THEN d.binding ELSE d

RowsEqual(slot, same) ==
    {slot.base + i - 1 : i \in {j \in DOMAIN slot.rows : IdentifyingMembers(slot.rows[j]) = same}}

FindLocal(R, r, d) == RowsEqual(Slot(R, r, d.k), IdentifyingMembers(d))

\* Mutant: only the repository itself is searched.
FindLayerLocal(R, r, d) == IF FindLocal(R, r, d) = {} THEN NoRepository ELSE r

\* find: the nearest layer that stores d, NoRepository if none does.
RECURSIVE FindLayer(_, _, _)
FindLayer(R, r, d) ==
    IF r = NoRepository \/ FindLocal(R, r, d) # {} THEN r ELSE FindLayer(R, R[r].parent, d)

FindIn(R, layer, d) ==
    IF layer = NoRepository THEN None
    ELSE Handle(d.k, CHOOSE n \in FindLocal(R, layer, d) : TRUE)

Find(R, r, d) == FindIn(R, FindLayer(R, r, d), d)

\* exists_parent_mutation, which get_or_create asserts never to hold when it inserts.
ParentMutated(R, r, key) ==
    /\ R[r].parent # NoRepository
    /\ HasSlot(R, r, key)
    /\ SizeOf(R, R[r].parent, key) > Slot(R, r, key).base

\* get_or_create_local: d at the end of the slot of r, which is made here if it is that of a
\* relation.
AppendTo(R, r, slot, d) ==
    [R |-> [R EXCEPT ![r].slots =
              [key \in DOMAIN @ \cup {d.k} |->
                  IF key = d.k THEN [slot EXCEPT !.rows = Append(@, d)] ELSE @[key]]],
     ret |-> Handle(d.k, SlotEnd(slot))]

CreateLocal(R, r, d) ==
    AppendTo(R, r,
             IF HasSlot(R, r, d.k) THEN Slot(R, r, d.k)
             ELSE [base |-> SizeOf(R, R[r].parent, d.k), rows |-> <<>>],
             d)

\* get_or_create: the handle of d in the chain of r; d is created in r itself when no layer
\* has it.
Unless(found, R, r, d) ==
    IF found # None THEN [R |-> R, ret |-> found] ELSE CreateLocal(R, r, d)

GetOrCreate(R, r, d) == Unless(Find(R, r, d), R, r, d)

\* The types some layer of the chain of r has a slot for.
RECURSIVE SlotKeys(_, _)
SlotKeys(R, r) ==
    IF r = NoRepository THEN {} ELSE DOMAIN R[r].slots \cup SlotKeys(R, R[r].parent)

\* The slots right after clear: empty, counting from the size of the parent.  The
\* relations the repository has had rows of keep their slot.
ClearedSlots(R, parent, had) ==
    [key \in {s \in SlotKeys(R, parent) : ~IsRow(s)} \cup had |->
        [base |-> SizeOf(R, parent, key), rows |-> <<>>]]

ClearRepository(R, r) ==
    [R EXCEPT ![r].slots = ClearedSlots(R, R[r].parent, {s \in DOMAIN @ : IsRow(s)})]

\* RepositoryFactory::create: a child of parent; its identifier is the next index.
CreateRepository(R, parent) ==
    Append(R, [parent |-> parent, slots |-> ClearedSlots(R, parent, {})])

(***************************************************************************)
(* The symbols of common.                                                  *)
(***************************************************************************)

VariableData(name) == [k |-> <<"Variable">>, name |-> name]

ObjectData(name) == [k |-> <<"Object">>, name |-> name]

PredicateData(kind, name, arity) == [k |-> <<"Predicate", kind>>, name |-> name, arity |-> arity]

FunctionData(kind, name, arity) == [k |-> <<"Function", kind>>, name |-> name, arity |-> arity]

\* A tuple of objects, stored once per relation (predicate, function, action, axiom, rule).
RelationBindingData(relation, objects) == [k |-> <<"Row", relation>>, objects |-> objects]

\* A term is the handle of an object or the position of a parameter.
ParameterTerm(i) == Handle(<<"Parameter">>, i)

IsParameter(term) == term.k = <<"Parameter">>

Float(v) == Handle(<<"Float">>, v)

(***************************************************************************)
(* The order of symbols and canonical lists.                               *)
(***************************************************************************)

Position(list, x) ==
    CHOOSE i \in 0 .. Len(list) : IF i = 0 THEN x \notin ToSet(list) ELSE list[i] = x

Kinds == <<"static", "fluent", "derived", "auxiliary">>
BooleanOps == <<"eq", "ne", "le", "lt", "ge", "gt">>
BinaryOps == <<"add", "sub", "mul", "div">>
MultiOps == <<"add", "mul">>
NumericEffectOps == <<"assign", "increase", "decrease", "scale_up", "scale_down">>

Alternatives == <<"Float", "Unary", "Binary", "Multi", "FunctionTerm", "GroundFunctionTerm">>
Tags == Kinds \o BooleanOps \o BinaryOps \o NumericEffectOps

\* The alternative a variant of numeric expressions, constraints or effects holds.
\* The alternatives of one variant keep their declaration order.
AlternativeRank(key) ==
    20 * Position(Alternatives, key[1]) + (IF Len(key) = 1 THEN 0 ELSE Position(Tags, key[2]))

\* A finite-domain fact is compared by variable, then by value.
SortKey(x) ==
    IF "variable" \in DOMAIN x THEN <<x.variable.n, x.value>> ELSE <<AlternativeRank(x.k), x.n>>

KeyLess(a, b) == a[1] < b[1] \/ (a[1] = b[1] /\ a[2] < b[2])

Less(x, y) == KeyLess(SortKey(x), SortKey(y))

\* canonicalize of a list: sorted, every element once.
CanonicalList(list) == SetToSortSeq(ToSet(list), Less)

\* canonicalize of the operands of a commutative operator.
CanonicalPair(lhs, rhs) == IF Less(rhs, lhs) THEN <<rhs, lhs>> ELSE <<lhs, rhs>>

(***************************************************************************)
(* Views: what is read through a handle, with nothing left of the indices. *)
(***************************************************************************)

NameView(R, r, h) == At(R, r, h).name

\* A relation is read as its name and arity; the kind of a predicate is not part of what
\* it denotes, because the Datalog programs turn derived predicates into fluent ones.
NameAndArity(d) == <<d.name, d.arity>>

RelationView(R, r, h) == NameAndArity(At(R, r, h))

TermView(R, r, term) ==
    IF IsParameter(term) THEN <<"parameter", term.n>> ELSE <<"object", NameView(R, r, term)>>

TermsView(R, r, terms) == [i \in DOMAIN terms |-> TermView(R, r, terms[i])]

NamesView(R, r, list) == [i \in DOMAIN list |-> NameView(R, r, list[i])]

BindingView(R, r, row) == NamesView(R, r, At(R, r, row).objects)

(***************************************************************************)
(* Calls.  A call takes and returns a context: the heap R, the repository  *)
(* src it reads, the repository dst it writes and the result ret of the    *)
(* last call.                                                              *)
(***************************************************************************)

Context(R, src, dst) == [R |-> R, src |-> src, dst |-> dst, ret |-> None]

Return(S, v) == [S EXCEPT !.ret = v]

Received(S, c) == [S EXCEPT !.R = c.R, !.ret = c.ret]

\* builder.canonicalize and get_or_create in the destination; d is canonical.
Intern(S, d) == Received(S, GetOrCreate(S.R, S.dst, d))

\* The calls F(S, x) for every x of a list in turn; the result is the list of results.
\* Naming the state before a call as the element of a singleton makes TLC evaluate the calls
\* one after another, not the first inside the last.
Collected(results, c) == Return(c, Append(results, c.ret))

Each(F(_, _), S, list) ==
    LET run[i \in 0..Len(list)] ==
            IF i = 0 THEN Return(S, <<>>)
            ELSE CHOOSE next \in {Collected(before.ret, F(before, list[i])) : before \in {run[i - 1]}} : TRUE
    IN  run[Len(list)]
====
