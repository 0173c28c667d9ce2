------------------------------ MODULE MatchTree ------------------------------
(***************************************************************************)
(* The successor generator of a ground task: MatchTree<GroundAction> and    *)
(* MatchTree<GroundAxiom> (src/planning/ground_task/match_tree.cpp and the  *)
(* node data of include/tyr/planning/ground_task/match_tree).               *)
(*                                                                         *)
(* The constructor sorts the preconditions of all elements by how often     *)
(* they occur and splits ONE array of elements in place, depth first, with  *)
(* an explicit stack of entries that hold spans of that array; finished     *)
(* entries become hash-consed nodes of a repository.  generate() walks the  *)
(* nodes with a stack of its own and lists the elements whose condition     *)
(* holds in a state.                                                        *)
(*                                                                         *)
(* The four kinds of selector differ only in how many classes they split a  *)
(* span into, so an entry is [key, depth, parts, children]: parts[c + 1] is *)
(* the span of class c, the last class is "don't care", and children[c + 1] *)
(* is the node of that class (NoNode: std::nullopt).                        *)
(***************************************************************************)
EXTENDS Integers, Sequences, FiniteSets, SequencesExt

CONSTANTS
    Conditions,    \* the conditions an element may have
    MaxElements,   \* bound: the elements are the indices 0 .. n - 1, n <= MaxElements
    DomainSize,    \* DomainSize[v]: number of values of FDR variable v
    Atoms,         \* derived ground atoms
    Constraints    \* ground numeric constraints

Variables == DOMAIN DomainSize
NoNode == 0

\* Values of a variable are 0 .. DomainSize[v] - 1.
Values(v) == 0 .. DomainSize[v] - 1
States == [fdr: {f \in [Variables -> UNION {Values(v) : v \in Variables}] :
                    \A v \in Variables : f[v] \in Values(v)},
           derived: SUBSET Atoms,
           numeric: SUBSET Constraints]

VARIABLES
    cond,      \* cond[e]: get_condition(e), the body of an axiom or the condition of an action
    sorted,    \* sorted_preconditions: the keys, most frequent first
    elements,  \* m_elements: the array all spans point into
    stack,     \* the deque of StackEntry, last one on top
    nodes,     \* m_context: the repository of nodes, a node is its index
    root,      \* m_root
    state,     \* the argument of generate
    evaluate,  \* m_evaluate_stack
    out,       \* out_applicable_elements
    phase      \* "start", "sorted", "building", "built", "generating"
vars == <<cond, sorted, elements, stack, nodes, root, state, evaluate, out, phase>>

-----------------------------------------------------------------------------
(* Conditions, keys and details *)

VariableKey(v) == [kind |-> "variable", of |-> v]
NegativeKey(f) == [kind |-> "negative", of |-> f]
AtomKey(a) == [kind |-> "atom", of |-> a]
ConstraintKey(c) == [kind |-> "constraint", of |-> c]

\* Only conditions that pass is_consistent become elements of a ground task.
IsConsistent(c) ==
    /\ \A f, g \in c.positive : f[1] = g[1] => f = g
    /\ c.positive \cap c.negative = {}
    /\ \A a \in Atoms : ~({<<a, TRUE>>, <<a, FALSE>>} \subseteq c.derived)

\* The keys of details[element].
Keys(c) ==
    {VariableKey(f[1]) : f \in c.positive} \cup {NegativeKey(f) : f \in c.negative}
    \cup {AtomKey(l[1]) : l \in c.derived} \cup {ConstraintKey(n) : n \in c.numeric}

\* The class that stands for "don't care".
DontCare(k) ==
    CASE k.kind = "variable" -> DomainSize[k.of]
      [] k.kind = "atom" -> 2
      [] OTHER -> 1

\* The class of an element under a key: the value of the variable,
VariableClass(c, v) == (CHOOSE f \in c.positive : f[1] = v)[2]
\* the polarity of the atom, true first,
AtomClass(c, a) == IF <<a, TRUE>> \in c.derived THEN 0 ELSE 1
\* or that it has the negative fact
NegativeFactClass(c, f) == IF f \in c.negative THEN 0 ELSE 1
\* or the numeric constraint.
ConstraintClass(c, n) == IF n \in c.numeric THEN 0 ELSE 1

Category(e, k) ==
    IF k \notin Keys(cond[e]) THEN DontCare(k)
    ELSE CASE k.kind = "variable" -> VariableClass(cond[e], k.of)
           [] k.kind = "atom" -> AtomClass(cond[e], k.of)
           [] k.kind = "negative" -> NegativeFactClass(cond[e], k.of)
           [] OTHER -> ConstraintClass(cond[e], k.of)

Occurrences(k) == Cardinality({e \in DOMAIN cond : k \in Keys(cond[e])})

AllKeys == UNION {Keys(cond[e]) : e \in DOMAIN cond}

-----------------------------------------------------------------------------
(* Spans of the array of elements: [lo, hi] inclusive, empty when hi < lo *)

Span(lo, hi) == [lo |-> lo, hi |-> hi]
IsEmptySpan(s) == s.hi < s.lo
InSpan(s) == s.lo .. s.hi

\* (mutant) the sort runs to the end of the array, over the waiting siblings.
SortedToEnd(array, s, k) ==
    LET before(d, e) == \/ Category(d, k) < Category(e, k)
                        \/ Category(d, k) = Category(e, k) /\ d < e
    IN  SubSeq(array, 1, s.lo - 1) \o SortSeq(SubSeq(array, s.lo, Len(array)), before)

\* std::sort of a span by class, then index.  It permutes only the span.
SortedSpan(array, s, k) ==
    LET before(d, e) == \/ Category(d, k) < Category(e, k)
                        \/ Category(d, k) = Category(e, k) /\ d < e
        run == SortSeq(SubSeq(array, s.lo, s.hi), before)
    IN  [i \in DOMAIN array |-> IF i \in InSpan(s) THEN run[i - s.lo + 1] ELSE array[i]]

\* The sub-spans found by the find_if scans over the sorted span.
SplitParts(array, s, k) ==
    LET upto(c) == s.lo + Cardinality({i \in InSpan(s) : Category(array[i], k) < c})
    IN  [p \in 1 .. DontCare(k) + 1 |-> Span(upto(p - 1), upto(p) - 1)]

\* try_create_*_stack_entry gives std::nullopt when no element cares.
SomeoneCares(s, k) == \E i \in InSpan(s) : k \in Keys(cond[elements[i]])

\* GeneratorStackEntry takes a copy of its elements.
GeneratorEntry(array, s) == [kind |-> "generator", elements |-> SubSeq(array, s.lo, s.hi)]

SelectorEntry(array, s, k, depth) ==
    LET parts == SplitParts(array, s, k)
    IN  [kind |-> "selector", key |-> k, depth |-> depth, parts |-> parts,
         children |-> [p \in DOMAIN parts |-> NoNode]]

\* try_create_stack_entry for a span that is not empty: the first key from
\* depth on that someone cares about, or a generator.  Every key that is tried
\* sorts the span; after a key nobody cares about it is sorted by index.
TryCreateStackEntry(s, depth) ==
    LET caring == {d \in depth .. Len(sorted) : SomeoneCares(s, sorted[d])}
        last == IF caring # {} THEN CHOOSE d \in caring : \A d2 \in caring : d <= d2
                ELSE Len(sorted)
        array == IF depth > Len(sorted) THEN elements ELSE SortedSpan(elements, s, sorted[last])
    IN  [array |-> array,
         entry |-> IF caring # {} THEN SelectorEntry(array, s, sorted[last], last)
                   ELSE GeneratorEntry(array, s)]

-----------------------------------------------------------------------------
(* Nodes *)

Explored(entry) ==
    entry.kind = "selector" =>
        \A p \in DOMAIN entry.parts : IsEmptySpan(entry.parts[p]) \/ entry.children[p] # NoNode

\* The child next_entry descends into and push_result fills.
NextPart(entry) ==
    CHOOSE p \in DOMAIN entry.parts :
        /\ ~IsEmptySpan(entry.parts[p]) /\ entry.children[p] = NoNode
        /\ \A q \in 1 .. p - 1 : IsEmptySpan(entry.parts[q]) \/ entry.children[q] # NoNode

\* get_result: the data of a finished entry's node, its identifying members.
NodeOf(entry) ==
    IF entry.kind = "generator" THEN entry
    ELSE [kind |-> "selector", key |-> entry.key, children |-> entry.children]

\* Repository::get_or_create: equal nodes are shared.
GetOrCreate(node) ==
    LET known == {i \in DOMAIN nodes : nodes[i] = node}
    IN  IF known # {} THEN [nodes |-> nodes, node |-> CHOOSE i \in known : TRUE]
        ELSE [nodes |-> Append(nodes, node), node |-> Len(nodes) + 1]

-----------------------------------------------------------------------------
(* Actions *)

Init ==
    /\ \E n \in 0 .. MaxElements :
           /\ cond \in [0 .. n - 1 -> {c \in Conditions : IsConsistent(c)}]
           /\ elements = [i \in 1 .. n |-> i - 1]
    /\ sorted = <<>> /\ stack = <<>> /\ nodes = <<>> /\ root = NoNode
    /\ state = [fdr |-> [v \in Variables |-> 0], derived |-> {}, numeric |-> {}]
    /\ evaluate = <<>> /\ out = <<>> /\ phase = "start"

\* The constructor up to its loop.  std::sort is not stable and the map it
\* reads is unordered, so keys that occur equally often come in any order.
Collect ==
    /\ phase = "start"
    /\ \E keys \in SetToSeqs(AllKeys) :
           /\ \A i, j \in DOMAIN keys : i < j => Occurrences(keys[i]) >= Occurrences(keys[j])
           /\ sorted' = keys
    /\ phase' = "sorted"
    /\ UNCHANGED <<cond, elements, stack, nodes, root, state, evaluate, out>>

\* The initial entry; without elements there is none and no root.
PushInitial ==
    /\ phase = "sorted"
    /\ IF elements = <<>>
       THEN phase' = "built" /\ UNCHANGED <<elements, stack>>
       ELSE LET created == TryCreateStackEntry(Span(1, Len(elements)), 1)
            IN  /\ elements' = created.array
                /\ stack' = <<created.entry>>
                /\ phase' = "building"
    /\ UNCHANGED <<cond, sorted, nodes, root, state, evaluate, out>>

\* One pass of the loop whose top entry has a child to visit (next_entry).
Descend ==
    /\ phase = "building" /\ ~Explored(Last(stack))
    /\ LET top == Last(stack)
           created == TryCreateStackEntry(top.parts[NextPart(top)], top.depth + 1)
       IN  /\ elements' = created.array
           /\ stack' = Append(stack, created.entry)
    /\ UNCHANGED <<cond, sorted, nodes, root, state, evaluate, out, phase>>

\* One pass whose top entry is explored: get_result, pop_back, push_result.
Finish ==
    /\ phase = "building" /\ Explored(Last(stack))
    /\ LET made == GetOrCreate(NodeOf(Last(stack)))
           below == Front(stack)
       IN  /\ nodes' = made.nodes
           /\ IF below = <<>>
              THEN stack' = <<>> /\ root' = made.node /\ phase' = "built"
              ELSE /\ stack' = [below EXCEPT ![Len(below)].children[NextPart(Last(below))] = made.node]
                   /\ UNCHANGED <<root, phase>>
    /\ UNCHANGED <<cond, sorted, elements, state, evaluate, out>>

\* generate is called for some state.
Generate ==
    /\ phase = "built"
    /\ state' \in States
    /\ out' = <<>>
    /\ evaluate' = IF root = NoNode THEN <<>> ELSE <<root>>
    /\ phase' = "generating"
    /\ UNCHANGED <<cond, sorted, elements, stack, nodes, root>>

\* The class of the state under key k; a constraint or negative fact that does
\* not hold, like the other values of a variable, selects no child.
Selected(k) ==
    CASE k.kind = "variable" -> state.fdr[k.of]
      [] k.kind = "atom" -> IF k.of \in state.derived THEN 0 ELSE 1
      [] k.kind = "negative" -> IF state.fdr[k.of[1]] # k.of[2] THEN 0 ELSE -1
      [] OTHER -> IF k.of \in state.numeric THEN 0 ELSE -1

\* One iteration: pop a node, then push the selected and the don't care child.
Visit ==
    /\ phase = "generating" /\ evaluate # <<>>
    /\ LET node == nodes[Last(evaluate)]
       IN  IF node.kind = "generator"
           THEN out' = out \o node.elements /\ evaluate' = Front(evaluate)
           ELSE /\ evaluate' = Front(evaluate) \o
                      SelectSeq(<<IF Selected(node.key) >= 0 THEN node.children[Selected(node.key) + 1] ELSE NoNode,
                                  node.children[DontCare(node.key) + 1]>>,
                                LAMBDA n : n # NoNode)
                /\ UNCHANGED out
    /\ UNCHANGED <<cond, sorted, elements, stack, nodes, root, state, phase>>

Return ==
    /\ phase = "generating" /\ evaluate = <<>>
    /\ phase' = "built"
    /\ UNCHANGED <<cond, sorted, elements, stack, nodes, root, state, evaluate, out>>

Next == Collect \/ PushInitial \/ Descend \/ Finish \/ Generate \/ Visit \/ Return

Spec == Init /\ [][Next]_vars

-----------------------------------------------------------------------------
(* Properties *)

\* A condition holds in a state: the definition the search relies on.
Holds(c, s) ==
    /\ \A f \in c.positive : s.fdr[f[1]] = f[2]
    /\ \A f \in c.negative : s.fdr[f[1]] # f[2]
    /\ \A l \in c.derived : (l[1] \in s.derived) = l[2]
    /\ c.numeric \subseteq s.numeric

\* When generate returns, it has listed exactly the elements whose condition
\* holds in the state, each one once, whatever order equally frequent
\* preconditions were sorted into and however sub-spans were permuted while
\* their parents waited on the stack.
ListsApplicable ==
    phase = "generating" /\ evaluate = <<>> =>
        /\ IsInjective(out)
        /\ Range(out) = {e \in DOMAIN cond : Holds(cond[e], state)}

=============================================================================
