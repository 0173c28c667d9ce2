---------------------------- MODULE ObjectPools -----------------------------
(***************************************************************************)
(* The pools of one thread: SharedObjectPool<T, false>, whose pointers       *)
(* count their copies, and UniqueObjectPool<T, false>, whose pointers can    *)
(* only be moved or cloned.  An entry that comes back keeps its content, and *)
(* whoever takes it next finds it there unless it is initialized.            *)
(*                                                                          *)
(* A pointer that does not exist is null: constructing is assigning to it.   *)
(***************************************************************************)
EXTENDS Integers, Sequences, FiniteSets, SequencesExt

CONSTANTS Pointers,      \* pointer objects
          Contents,      \* of entries; a new one has content 0
          MaxEntries     \* bound: entries allocated

VARIABLES
    mode,       \* "shared" or "unique"
    entries,    \* entries allocated, numbered from 1
    unused,     \* m_stack
    counts,     \* refcount of each entry
    content,    \* object of each entry
    holds,      \* the entry of each pointer, 0 for null
    shares,     \* shares[p]: the pointers that p was copied to or from (history)
    value       \* value[p]: what the object of p was assigned last (history)

vars == <<mode, entries, unused, counts, content, holds, shares, value>>

\* Histories: p leaves the pointers it shares its object with, or joins those of q.
Leave(sh, p) == [r \in Pointers |-> IF r = p THEN {} ELSE sh[r] \ {p}]
Join(sh, p, q) ==
    [r \in Pointers |-> IF r \in sh[q] \/ (r = p /\ sh[q] # {}) THEN sh[q] \cup {p} ELSE sh[r]]

\* Mutant: the entry comes back with every pointer that goes.
ReleasedEarly(p) ==
    IF holds[p] = 0 THEN [counts |-> counts, unused |-> unused]
    ELSE [counts |-> [counts EXCEPT ![holds[p]] = IF mode = "shared" THEN @ - 1 ELSE @],
          unused |-> Append(unused, holds[p])]

\* dec_ref_count, deallocate: p gives up its entry, the last pointer to it
\* returns it.
Released(p) ==
    IF holds[p] = 0 THEN [counts |-> counts, unused |-> unused]
    ELSE [counts |-> [counts EXCEPT ![holds[p]] = IF mode = "shared" THEN @ - 1 ELSE @],
          unused |-> IF mode = "unique" \/ counts[holds[p]] = 1 THEN Append(unused, holds[p]) ELSE unused]

\* The entry returned last, or a new one, and its object.
NextEntry == IF unused = <<>> THEN entries + 1 ELSE Last(unused)
Found == IF unused = <<>> THEN 0 ELSE content[Last(unused)]

\* p takes an entry, whose object becomes x.
Take(p, x) ==
    LET e == NextEntry
        set(f, y) == [i \in DOMAIN f \cup {e} |-> IF i = e THEN y ELSE f[i]]
    IN  /\ holds[p] = 0
        /\ e <= MaxEntries
        /\ entries' = IF e > entries THEN e ELSE entries
        /\ unused' = IF unused = <<>> THEN unused ELSE Front(unused)
        /\ counts' = set(counts, IF mode = "shared" THEN 1 ELSE 0)
        /\ content' = set(content, x)
        /\ holds' = [holds EXCEPT ![p] = e]
        /\ shares' = [shares EXCEPT ![p] = {p}]
        /\ value' = [value EXCEPT ![p] = x]
        /\ UNCHANGED mode

\* get_or_allocate, without and with arguments.
GetOrAllocate(p) == Take(p, Found)
GetInitialized(p, x) == Take(p, x)

\* clone: an entry of its own with a copy of the object.
Clone(p, q) == holds[q] # 0 /\ Take(p, content[holds[q]])

\* operator*, operator->: the object is assigned through one of its pointers.
Write(p, x) ==
    /\ holds[p] # 0
    /\ content' = [content EXCEPT ![holds[p]] = x]
    /\ value' = [r \in Pointers |-> IF r \in shares[p] THEN x ELSE value[r]]
    /\ UNCHANGED <<mode, entries, unused, counts, holds, shares>>

CopyAssign(p, q) ==
    /\ mode = "shared" /\ p # q
    /\ LET left == Released(p)
       IN  /\ unused' = left.unused
           /\ counts' = IF holds[q] = 0 THEN left.counts ELSE [left.counts EXCEPT ![holds[q]] = @ + 1]
    /\ holds' = [holds EXCEPT ![p] = holds[q]]
    /\ shares' = Join(Leave(shares, p), p, q)
    /\ value' = [value EXCEPT ![p] = value[q]]
    /\ UNCHANGED <<mode, entries, content>>

\* The count of the entry that moves stays.
MoveAssign(p, q) ==
    /\ p # q
    /\ unused' = Released(p).unused
    /\ counts' = Released(p).counts
    /\ holds' = [holds EXCEPT ![p] = holds[q], ![q] = 0]
    /\ shares' = Leave(Join(Leave(shares, p), p, q), q)
    /\ value' = [value EXCEPT ![p] = value[q]]
    /\ UNCHANGED <<mode, entries, content>>

Destroy(p) ==
    /\ holds[p] # 0
    /\ unused' = Released(p).unused
    /\ counts' = Released(p).counts
    /\ holds' = [holds EXCEPT ![p] = 0]
    /\ shares' = Leave(shares, p)
    /\ UNCHANGED <<mode, entries, content, value>>

Init ==
    /\ mode \in {"shared", "unique"}
    /\ entries = 0
    /\ unused = <<>>
    /\ counts = <<>>
    /\ content = <<>>
    /\ holds = [p \in Pointers |-> 0]
    /\ shares = [p \in Pointers |-> {}]
    /\ value = [p \in Pointers |-> 0]

Next ==
    \E p \in Pointers :
        \/ GetOrAllocate(p)
        \/ \E x \in Contents : GetInitialized(p, x) \/ Write(p, x)
        \/ \E q \in Pointers : Clone(p, q) \/ CopyAssign(p, q) \/ MoveAssign(p, q)
        \/ Destroy(p)

Spec == Init /\ [][Next]_vars

-----------------------------------------------------------------------------
\* Pointers refer to one object if and only if they were copied from each other,
\* the entries nobody refers to are the free ones, each of them once, and an
\* object is what was assigned last through one of its pointers, whatever was
\* done with entries that came back (clone, operator=, get_or_allocate,
\* deallocate).
ObjectsOwned ==
    /\ \A p, q \in Pointers :
        (holds[p] # 0 /\ holds[p] = holds[q]) <=> (q \in shares[p])
    /\ \A p \in Pointers : holds[p] # 0 => content[holds[p]] = value[p]
    /\ IsInjective(unused)
    /\ Range(unused) = 1..entries \ {holds[p] : p \in Pointers}
    /\ mode = "shared" =>
        \A e \in 1..entries : counts[e] = Cardinality({p \in Pointers : holds[p] = e})
=============================================================================
