-------------------------- MODULE SharedObjectPool --------------------------
(***************************************************************************)
(* The reference-counted object pool of common/shared_object_pool.hpp, in   *)
(* its thread-safe form.  Threads own pointer objects and run the            *)
(* operations of SharedObjectPoolPtr on them.  Every atomic access of the    *)
(* code is a step of its own: the decrement of a reference count, the push   *)
(* of the entry on the free stack under the mutex, and the assignment that   *)
(* follows in the assignment operators.  get_or_allocate runs under the      *)
(* mutex to its end, the construction of the returned pointer included.      *)
(*                                                                           *)
(* The objects themselves are not modelled: get_or_allocate hands out an     *)
(* object with whatever content it had when it was freed (StateRepository    *)
(* models what its user does about that).                                    *)
(***************************************************************************)
EXTENDS Integers, Sequences, FiniteSets

CONSTANTS Thread,     \* the threads that use the pool
          Pointer,    \* the pointer objects (SharedObjectPoolPtr)
          Owner,      \* Owner[p]: the thread that runs operations on p
          Entry,      \* the entries the pool may allocate
          Null        \* the null entry

ASSUME PoolAssumption ==
    /\ IsFiniteSet(Pointer)
    /\ Owner \in [Pointer -> Thread]
    /\ Null \notin Entry

VARIABLES
    storage,    \* entries allocated so far (m_storage)
    stack,      \* entries free for reuse (m_stack)
    refcount,   \* refcount of every entry
    ptr,        \* m_entry of every pointer object
    op          \* the operation a thread is in, or Idle

vars == <<storage, stack, refcount, ptr, op>>

Idle == [kind |-> "idle"]

\* An operation under way: the pointer it changes, the one it reads (Null in
\* the destructor), and what is still to do.
Running == [kind : {"copy", "move", "destroy"}, on : Pointer,
            from : Pointer \cup {Null}, todo : {"free", "assign"}]

OnStack(e) == \E i \in 1..Len(stack) : stack[i] = e

Init ==
    /\ storage = {}
    /\ stack = <<>>
    /\ refcount = [e \in Entry |-> 0]
    /\ ptr = [p \in Pointer |-> Null]
    /\ op = [t \in Thread |-> Idle]

-----------------------------------------------------------------------------
\* allocate, and the pop of the last free entry, in one critical section.
Popped(e) ==
    IF stack = <<>>
    THEN /\ e \notin storage
         /\ storage' = storage \cup {e}
         /\ stack' = stack
    ELSE /\ e = stack[Len(stack)]
         /\ storage' = storage
         /\ stack' = SubSeq(stack, 1, Len(stack) - 1)

GetOrAllocate(t, p) ==
    /\ op[t] = Idle
    /\ ptr[p] = Null
    /\ \E e \in Entry :
        /\ Popped(e)
        /\ ptr' = [ptr EXCEPT ![p] = e]
        /\ refcount' = [refcount EXCEPT ![e] = @ + 1]
    /\ UNCHANGED op

\* clone of a null pointer returns a null pointer.
Clone(t, p, q) ==
    /\ ptr[q] # Null
    /\ GetOrAllocate(t, p)

\* inc_ref_count of the entry e, when there is one.
Incremented(e) ==
    [f \in Entry |-> IF f = e THEN refcount[f] + 1 ELSE refcount[f]]

CopyConstruct(t, p, q) ==
    /\ op[t] = Idle
    /\ p # q
    /\ ptr[p] = Null
    /\ ptr' = [ptr EXCEPT ![p] = ptr[q]]
    /\ refcount' = Incremented(ptr[q])
    /\ UNCHANGED <<storage, stack, op>>

\* Mutant: the pointer moved from keeps its entry.
MoveConstructKeeps(t, p, q) ==
    /\ op[t] = Idle
    /\ p # q
    /\ ptr[p] = Null
    /\ ptr' = [ptr EXCEPT ![p] = ptr[q]]
    /\ UNCHANGED <<storage, stack, refcount, op>>

MoveConstruct(t, p, q) ==
    /\ op[t] = Idle
    /\ p # q
    /\ ptr[p] = Null
    /\ ptr' = [ptr EXCEPT ![p] = ptr[q], ![q] = Null]
    /\ UNCHANGED <<storage, stack, refcount, op>>

\* dec_ref_count: the thread that took the count from 1 to 0 frees the entry.
Decrement(t, kind, p, q) ==
    /\ op[t] = Idle
    /\ ptr[p] # Null
    /\ refcount' = [refcount EXCEPT ![ptr[p]] = @ - 1]
    /\ op' = [op EXCEPT ![t] =
                [kind |-> kind, on |-> p, from |-> q,
                 todo |-> IF refcount[ptr[p]] = 1 THEN "free" ELSE "assign"]]
    /\ UNCHANGED <<storage, stack, ptr>>

\* operator= on a null pointer goes straight to the assignment.
StartAssign(t, kind, p, q) ==
    /\ op[t] = Idle
    /\ ptr[p] = Null
    /\ op' = [op EXCEPT ![t] = [kind |-> kind, on |-> p, from |-> q, todo |-> "assign"]]
    /\ UNCHANGED <<storage, stack, refcount, ptr>>

CopyAssign(t, p, q) ==
    p # q /\ (Decrement(t, "copy", p, q) \/ StartAssign(t, "copy", p, q))

MoveAssign(t, p, q) ==
    p # q /\ (Decrement(t, "move", p, q) \/ StartAssign(t, "move", p, q))

Destroy(t, p) == Decrement(t, "destroy", p, Null)

\* deallocate: free() pushes under the mutex, then the pointer is nulled.
Free(t) ==
    /\ op[t] # Idle
    /\ op[t].todo = "free"
    /\ stack' = Append(stack, ptr[op[t].on])
    /\ ptr' = [ptr EXCEPT ![op[t].on] = Null]
    /\ op' = [op EXCEPT ![t].todo = "assign"]
    /\ UNCHANGED <<storage, refcount>>

\* What follows the decrement: the entry of the other pointer is taken over,
\* and counted by a copy; a moved-from pointer is nulled.
Assign(t) ==
    /\ op[t] # Idle
    /\ op[t].todo = "assign"
    /\ LET p == op[t].on
           q == op[t].from
       IN  \/ /\ op[t].kind = "copy"
              /\ ptr' = [ptr EXCEPT ![p] = ptr[q]]
              /\ refcount' = Incremented(ptr[q])
           \/ /\ op[t].kind = "move"
              /\ ptr' = [ptr EXCEPT ![p] = ptr[q], ![q] = Null]
              /\ UNCHANGED refcount
           \/ /\ op[t].kind = "destroy"
              /\ ptr' = [ptr EXCEPT ![p] = Null]
              /\ UNCHANGED refcount
    /\ op' = [op EXCEPT ![t] = Idle]
    /\ UNCHANGED <<storage, stack>>

\* A thread runs operations on its own pointers.  The copy constructor also
\* reads the pointer of another thread, while that thread is not in the
\* middle of changing it.
Next ==
    \E t \in Thread :
        \/ Free(t)
        \/ Assign(t)
        \/ \E p \in Pointer :
            /\ Owner[p] = t
            /\ \/ GetOrAllocate(t, p)
               \/ Destroy(t, p)
               \/ \E q \in Pointer :
                    \/ op[Owner[q]] = Idle /\ CopyConstruct(t, p, q)
                    \/ /\ Owner[q] = t
                       /\ \/ Clone(t, p, q)
                          \/ MoveConstruct(t, p, q)
                          \/ CopyAssign(t, p, q)
                          \/ MoveAssign(t, p, q)

Spec == Init /\ [][Next]_vars

-----------------------------------------------------------------------------
TypeOK ==
    /\ storage \in SUBSET Entry
    /\ stack \in Seq(Entry)
    /\ refcount \in [Entry -> Int]
    /\ ptr \in [Pointer -> Entry \cup {Null}]
    /\ op \in [Thread -> {Idle} \cup Running]

\* A pointer object counts for its entry unless its thread has taken it out
\* of the count and not yet overwritten it.
Discounted(p) ==
    op[Owner[p]] # Idle /\ op[Owner[p]].on = p

Counted(e) == {p \in Pointer : ptr[p] = e /\ ~Discounted(p)}

\* The reference count of an entry is the number of pointers to it, through
\* every interleaving of the increments and decrements (shared_object_pool.hpp
\* inc_ref_count, dec_ref_count).
CountExact == \A e \in Entry : refcount[e] = Cardinality(Counted(e))

\* The entry a thread has decided to free and not yet pushed.
InFlight(e) ==
    \E t \in Thread : op[t] # Idle /\ op[t].todo = "free" /\ ptr[op[t].on] = e

\* No two threads are about to free the same entry.
OneFrees ==
    \A s, t \in Thread :
        (/\ op[s] # Idle /\ op[s].todo = "free"
         /\ op[t] # Idle /\ op[t].todo = "free"
         /\ ptr[op[s].on] = ptr[op[t].on]) => s = t

\* Nobody holds a free entry: an entry is on the free stack at most once, and
\* then no pointer refers to it and no thread is about to push it again.  An
\* entry handed out by get_or_allocate is therefore exclusively the caller's.
FreeIsUnheld ==
    /\ \A i, j \in 1..Len(stack) : stack[i] = stack[j] => i = j
    /\ \A e \in Entry : OnStack(e) => e \in storage /\ Counted(e) = {} /\ ~InFlight(e)
    /\ OneFrees

\* No entry is leaked: what was allocated is held, free, or on its way to the
\* free stack.
NoLeak == \A e \in storage : Counted(e) # {} \/ OnStack(e) \/ InFlight(e)

PoolInv == CountExact /\ FreeIsUnheld /\ NoLeak
=============================================================================
