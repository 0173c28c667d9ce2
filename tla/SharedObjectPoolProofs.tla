----------------------- MODULE SharedObjectPoolProofs -----------------------
(***************************************************************************)
(* The reference counts of the shared object pool are exact and its free    *)
(* stack holds nobody's entry, for any number of threads, pointers and      *)
(* entries, and every interleaving of their operations.                     *)
(***************************************************************************)
EXTENDS SharedObjectPool, FiniteSetTheorems, TLAPS

\* A thread works on pointers of its own, and the entry it is about to free is
\* one it still refers to; what a pointer refers to has been allocated.
OpInv ==
    \A t \in Thread : op[t] # Idle =>
        /\ Owner[op[t].on] = t
        /\ op[t].kind # "destroy" =>
            op[t].from \in Pointer /\ op[t].from # op[t].on /\ Owner[op[t].from] = t
        /\ op[t].todo = "free" => ptr[op[t].on] # Null

FreedUncounted == \A e \in Entry : InFlight(e) => Counted(e) = {}

Allocated == \A p \in Pointer : ptr[p] # Null => ptr[p] \in storage

IInv == TypeOK /\ OpInv /\ FreedUncounted /\ Allocated /\ PoolInv

-----------------------------------------------------------------------------
(* Types.                                                                   *)

LEMMA OpType ==
    ASSUME TypeOK, NEW t \in Thread, op[t] # Idle
    PROVE  /\ op[t] \in Running
           /\ op[t].on \in Pointer
           /\ op[t].from \in Pointer \cup {Null}
           /\ op[t].kind \in {"copy", "move", "destroy"}
           /\ op[t].todo \in {"free", "assign"}
  BY DEF TypeOK, Running

\* What is left of the free stack when its last entry is popped.
LEMMA PoppedStack ==
    ASSUME TypeOK, stack # <<>>, NEW rest, rest = SubSeq(stack, 1, Len(stack) - 1)
    PROVE  /\ Len(stack) \in Nat \ {0}
           /\ rest \in Seq(Entry)
           /\ Len(rest) = Len(stack) - 1
           /\ \A i \in 1 .. Len(rest) : rest[i] = stack[i]
<1>1. stack \in Seq(Entry) /\ Len(stack) \in Nat \ {0}
  BY DEF TypeOK
<1>2. PICK n \in Int : n = Len(stack) - 1 /\ 0 <= n
  BY <1>1
<1>3. rest = SubSeq(stack, 1, n)
  BY <1>2
<1>4. rest \in Seq(Entry) /\ Len(rest) = n
  BY <1>1, <1>2, <1>3
<1>5. \A i \in 1 .. n : rest[i] = stack[i]
  BY <1>1, <1>2, <1>3
<1> QED BY <1>1, <1>2, <1>4, <1>5

LEMMA TypeStep == TypeOK /\ OpInv /\ [Next]_vars => TypeOK'
<1> SUFFICES ASSUME TypeOK, OpInv, [Next]_vars PROVE TypeOK'
  OBVIOUS
<1> USE DEF TypeOK
<1>1. ASSUME NEW t \in Thread, NEW p \in Pointer, GetOrAllocate(t, p) PROVE TypeOK'
  <2>1. PICK e \in Entry :
           /\ Popped(e)
           /\ ptr' = [ptr EXCEPT ![p] = e]
           /\ refcount' = [refcount EXCEPT ![e] = @ + 1]
    BY <1>1 DEF GetOrAllocate
  <2>2. stack' \in Seq(Entry) /\ storage' \subseteq Entry
    <3>1. CASE stack = <<>>
      BY <2>1, <3>1 DEF Popped
    <3>2. CASE stack # <<>>
      BY <2>1, <3>2, PoppedStack DEF Popped
    <3> QED BY <3>1, <3>2
  <2> QED BY <1>1, <2>1, <2>2 DEF GetOrAllocate
<1>2. ASSUME NEW t \in Thread, NEW p \in Pointer, NEW q \in Pointer, CopyConstruct(t, p, q)
      PROVE TypeOK'
  BY <1>2 DEF CopyConstruct, Incremented
<1>3. ASSUME NEW t \in Thread, NEW p \in Pointer, NEW q \in Pointer, MoveConstruct(t, p, q)
      PROVE TypeOK'
  BY <1>3 DEF MoveConstruct
<1>4. ASSUME NEW t \in Thread, NEW p \in Pointer, NEW q \in Pointer \cup {Null},
             NEW k \in {"copy", "move", "destroy"}, Decrement(t, k, p, q)
      PROVE TypeOK'
  <2>1. op' \in [Thread -> {Idle} \cup Running]
    BY <1>4 DEF Decrement, Running
  <2>2. refcount' \in [Entry -> Int]
    BY <1>4 DEF Decrement
  <2> QED BY <1>4, <2>1, <2>2 DEF Decrement
<1>5. ASSUME NEW t \in Thread, NEW p \in Pointer, NEW q \in Pointer,
             NEW k \in {"copy", "move", "destroy"}, StartAssign(t, k, p, q)
      PROVE TypeOK'
  <2>1. op' \in [Thread -> {Idle} \cup Running]
    BY <1>5 DEF StartAssign, Running
  <2> QED BY <1>5, <2>1 DEF StartAssign
<1>6. ASSUME NEW t \in Thread, Free(t) PROVE TypeOK'
  <2>1. op[t] \in Running /\ op[t].on \in Pointer
    BY <1>6, OpType DEF Free
  <2>2. ptr[op[t].on] \in Entry
    BY <1>6, <2>1 DEF Free, OpInv
  <2>3. [op[t] EXCEPT !.todo = "assign"] \in Running
    BY <2>1 DEF Running
  <2>4. op' \in [Thread -> {Idle} \cup Running]
    BY <1>6, <2>3 DEF Free
  <2> QED BY <1>6, <2>1, <2>2, <2>4 DEF Free
<1>7. ASSUME NEW t \in Thread, Assign(t) PROVE TypeOK'
  <2>1. /\ op[t].on \in Pointer
        /\ op[t].kind # "destroy" => op[t].from \in Pointer
    BY <1>7, OpType DEF Assign, OpInv
  <2>2. op' \in [Thread -> {Idle} \cup Running] /\ storage' = storage /\ stack' = stack
    BY <1>7 DEF Assign
  <2>3. CASE op[t].kind = "copy" /\ ptr' = [ptr EXCEPT ![op[t].on] = ptr[op[t].from]]
             /\ refcount' = Incremented(ptr[op[t].from])
    BY <2>1, <2>2, <2>3 DEF Incremented
  <2>4. CASE op[t].kind = "move" /\ refcount' = refcount
             /\ ptr' = [ptr EXCEPT ![op[t].on] = ptr[op[t].from], ![op[t].from] = Null]
    BY <2>1, <2>2, <2>4
  <2>5. CASE ptr' = [ptr EXCEPT ![op[t].on] = Null] /\ refcount' = refcount
    BY <2>1, <2>2, <2>5
  <2> QED BY <1>7, <2>3, <2>4, <2>5 DEF Assign
<1>8. CASE UNCHANGED vars
  BY <1>8 DEF vars
<1> QED
  BY <1>1, <1>2, <1>3, <1>4, <1>5, <1>6, <1>7, <1>8
  DEF Next, Clone, CopyAssign, MoveAssign, Destroy
-----------------------------------------------------------------------------
(* Counting.                                                                *)

\* How an operation may change the pointers that count for the entries: it leaves
\* them alone, or one pointer starts or stops counting for an entry.
LEMMA CountedFinite ==
    ASSUME NEW e \in Entry
    PROVE  IsFiniteSet(Counted(e)) /\ Cardinality(Counted(e)) \in Nat
  BY PoolAssumption, FS_Subset, FS_CardinalityType DEF Counted

LEMMA CountsUp ==
    ASSUME TypeOK, CountExact, NEW e \in Entry, NEW p \in Pointer, p \notin Counted(e),
           Counted(e)' = Counted(e) \cup {p},
           \A f \in Entry \ {e} : Counted(f)' = Counted(f),
           refcount' = [refcount EXCEPT ![e] = @ + 1]
    PROVE  CountExact'
<1>1. Cardinality(Counted(e)') = Cardinality(Counted(e)) + 1
  BY CountedFinite, FS_AddElement
<1> QED BY <1>1 DEF TypeOK, CountExact

LEMMA CountsDown ==
    ASSUME TypeOK, CountExact, NEW e \in Entry, NEW p \in Counted(e),
           Counted(e)' = Counted(e) \ {p},
           \A f \in Entry \ {e} : Counted(f)' = Counted(f),
           refcount' = [refcount EXCEPT ![e] = @ - 1]
    PROVE  CountExact'
<1>1. Cardinality(Counted(e)') = Cardinality(Counted(e)) - 1
  BY CountedFinite, FS_RemoveElement
<1> QED BY <1>1 DEF TypeOK, CountExact

\* One pointer takes over from another.
LEMMA CountsMove ==
    ASSUME TypeOK, CountExact, NEW e \in Entry, NEW q \in Counted(e), NEW p \in Pointer,
           p \notin Counted(e),
           Counted(e)' = (Counted(e) \ {q}) \cup {p},
           \A f \in Entry \ {e} : Counted(f)' = Counted(f),
           refcount' = refcount
    PROVE  CountExact'
<1>1. IsFiniteSet(Counted(e) \ {q}) /\ Cardinality(Counted(e) \ {q}) = Cardinality(Counted(e)) - 1
  BY CountedFinite, FS_RemoveElement
<1>2. Cardinality(Counted(e)') = Cardinality(Counted(e) \ {q}) + 1
  BY <1>1, FS_AddElement
<1>3. Cardinality(Counted(e)') = Cardinality(Counted(e))
  BY <1>1, <1>2, CountedFinite
<1> QED BY <1>3 DEF TypeOK, CountExact

LEMMA CountsStay ==
    ASSUME CountExact, \A f \in Entry : Counted(f)' = Counted(f), refcount' = refcount
    PROVE  CountExact'
  BY DEF CountExact
-----------------------------------------------------------------------------
(* The operations, one lemma each.                                          *)

\* An entry handed out was free or is new, so nobody refers to it.
LEMMA GetOrAllocateInv ==
    ASSUME IInv, NEW t \in Thread, NEW p \in Pointer, Owner[p] = t, GetOrAllocate(t, p)
    PROVE  (OpInv /\ FreedUncounted /\ Allocated /\ PoolInv)'
<1>0. /\ TypeOK /\ OpInv /\ FreedUncounted /\ Allocated /\ CountExact /\ FreeIsUnheld /\ NoLeak
      /\ op' = op /\ op[t] = Idle /\ ptr[p] = Null /\ stack \in Seq(Entry)
      /\ ptr \in [Pointer -> Entry \cup {Null}]
  BY DEF IInv, PoolInv, GetOrAllocate, TypeOK
<1>1. PICK e \in Entry :
         /\ Popped(e)
         /\ ptr' = [ptr EXCEPT ![p] = e]
         /\ refcount' = [refcount EXCEPT ![e] = @ + 1]
  BY DEF GetOrAllocate
<1>2. ~Discounted(p) /\ \A q \in Pointer : Discounted(q)' <=> Discounted(q)
  BY <1>0 DEF Discounted
<1>3. /\ p \notin Counted(e)
      /\ Counted(e)' = Counted(e) \cup {p}
      /\ \A f \in Entry \ {e} : Counted(f)' = Counted(f)
  BY <1>0, <1>1, <1>2, PoolAssumption DEF Counted
<1>4. CountExact'
  BY <1>0, <1>1, <1>3, CountsUp
<1>5. \A u \in Thread : op[u] # Idle =>
         op[u].on \in Pointer /\ op[u].on # p /\ ptr'[op[u].on] = ptr[op[u].on]
  BY <1>0, <1>1, OpType DEF OpInv
<1>6. \A f \in Entry : InFlight(f)' <=> InFlight(f)
  BY <1>0, <1>5 DEF InFlight
<1>7. ~InFlight(e) /\ e \in storage' /\ storage \subseteq storage'
  <2>1. CASE stack = <<>>
    <3>1. \A q \in Pointer : ptr[q] # e
      BY <1>0, <1>1, <2>1, PoolAssumption DEF Popped, Allocated
    <3> QED BY <1>1, <1>5, <2>1, <3>1 DEF Popped, InFlight
  <2>2. CASE stack # <<>>
    <3>1. Len(stack) \in 1 .. Len(stack) /\ e = stack[Len(stack)] /\ storage' = storage
      BY <1>0, <1>1, <2>2, PoppedStack DEF Popped
    <3>2. OnStack(e)
      BY <3>1 DEF OnStack
    <3> QED BY <1>0, <3>1, <3>2 DEF FreeIsUnheld
  <2> QED BY <2>1, <2>2
<1>8. /\ Len(stack') \in Nat /\ Len(stack) \in Nat /\ Len(stack') <= Len(stack)
      /\ \A i \in 1 .. Len(stack') : stack'[i] = stack[i] /\ stack[i] # e
      /\ \A i \in 1 .. Len(stack) : stack[i] # e => i \in 1 .. Len(stack')
  <2>1. CASE stack = <<>>
    <3>1. e \notin storage /\ stack' = stack
      BY <1>1, <2>1 DEF Popped
    <3> QED BY <1>0, <2>1, <3>1
  <2>2. CASE stack # <<>>
    <3>1. e = stack[Len(stack)] /\ stack' = SubSeq(stack, 1, Len(stack) - 1)
      BY <1>1, <2>2 DEF Popped
    <3>2. /\ Len(stack) \in Nat \ {0} /\ Len(stack') = Len(stack) - 1
          /\ \A i \in 1 .. Len(stack') : stack'[i] = stack[i]
      BY <1>0, <2>2, <3>1, PoppedStack
    <3>3. \A i \in 1 .. Len(stack') : stack[i] # e
      BY <1>0, <3>1, <3>2 DEF FreeIsUnheld
    <3> QED BY <3>1, <3>2, <3>3
  <2> QED BY <2>1, <2>2
<1>9. \A f \in Entry : OnStack(f)' <=> OnStack(f) /\ f # e
  BY <1>8 DEF OnStack
<1>10. OpInv'
  BY <1>0, <1>5 DEF OpInv
<1>11. FreedUncounted'
  BY <1>0, <1>3, <1>6, <1>7 DEF FreedUncounted
<1>12. Allocated'
  BY <1>0, <1>1, <1>7 DEF Allocated
<1>13. FreeIsUnheld'
  <2>1. (\A i, j \in 1 .. Len(stack) : stack[i] = stack[j] => i = j)'
    BY <1>0, <1>8 DEF FreeIsUnheld
  <2>2. \A f \in Entry : OnStack(f)' => f \in storage' /\ Counted(f)' = {} /\ ~InFlight(f)'
    BY <1>0, <1>3, <1>6, <1>7, <1>9 DEF FreeIsUnheld
  <2> QED BY <1>0, <1>5, <2>1, <2>2 DEF FreeIsUnheld, OneFrees
<1>14. NoLeak'
  <2>1. \A f \in storage' : f = e \/ f \in storage
    BY <1>1 DEF Popped
  <2>2. storage \subseteq Entry
    BY <1>0 DEF TypeOK
  <2> QED BY <1>0, <1>3, <1>6, <1>9, <2>1, <2>2 DEF NoLeak
<1> QED BY <1>4, <1>10, <1>11, <1>12, <1>13, <1>14 DEF PoolInv

\* What an operation keeps that neither allocates nor frees nor decides to free, and
\* neither gives an entry its first pointer nor takes its last.
LEMMA StackKept ==
    ASSUME IInv, stack' = stack, storage' = storage, OneFrees',
           \A f \in Entry : InFlight(f)' <=> InFlight(f),
           \A f \in Entry : Counted(f)' = {} <=> Counted(f) = {}
    PROVE  (FreedUncounted /\ FreeIsUnheld /\ NoLeak)'
<1>1. FreedUncounted /\ FreeIsUnheld /\ NoLeak /\ storage \subseteq Entry
  BY DEF IInv, PoolInv, TypeOK
<1>2. \A f \in Entry : OnStack(f)' <=> OnStack(f)
  BY DEF OnStack
<1>3. FreedUncounted'
  BY <1>1 DEF FreedUncounted
<1>4. FreeIsUnheld'
  BY <1>1, <1>2 DEF FreeIsUnheld
<1>5. NoLeak'
  BY <1>1, <1>2 DEF NoLeak
<1> QED BY <1>3, <1>4, <1>5

\* The copied pointer counts for its entry, so the entry is neither free nor on its
\* way to the free stack.
LEMMA CopyConstructInv ==
    ASSUME IInv, NEW t \in Thread, NEW p \in Pointer, NEW q \in Pointer,
           Owner[p] = t, op[Owner[q]] = Idle, CopyConstruct(t, p, q)
    PROVE  (OpInv /\ FreedUncounted /\ Allocated /\ PoolInv)'
<1>0. /\ TypeOK /\ OpInv /\ FreedUncounted /\ Allocated /\ CountExact /\ FreeIsUnheld
      /\ op' = op /\ op[t] = Idle /\ ptr[p] = Null /\ p # q
      /\ stack' = stack /\ storage' = storage
      /\ ptr' = [ptr EXCEPT ![p] = ptr[q]] /\ refcount' = Incremented(ptr[q])
      /\ ptr \in [Pointer -> Entry \cup {Null}] /\ refcount \in [Entry -> Int]
  BY DEF IInv, PoolInv, CopyConstruct, TypeOK
<1>1. /\ ~Discounted(p) /\ ~Discounted(q)
      /\ \A r \in Pointer : Discounted(r)' <=> Discounted(r)
  BY <1>0 DEF Discounted
<1>2. \A u \in Thread : op[u] # Idle =>
         op[u].on \in Pointer /\ op[u].on # p /\ ptr'[op[u].on] = ptr[op[u].on]
  BY <1>0, OpType DEF OpInv
<1>3. /\ OneFrees'
      /\ \A f \in Entry : InFlight(f)' <=> InFlight(f)
  BY <1>0, <1>2 DEF InFlight, OneFrees, FreeIsUnheld
<1>4. OpInv' /\ Allocated'
  BY <1>0, <1>2 DEF OpInv, Allocated
<1>5. CASE ptr[q] = Null
  <2>1. \A f \in Entry : Counted(f)' = Counted(f)
    BY <1>0, <1>1, <1>5, PoolAssumption DEF Counted
  <2>2. refcount' = refcount
    BY <1>0, <1>5, PoolAssumption DEF Incremented
  <2> QED BY <1>0, <1>3, <1>4, <2>1, <2>2, CountsStay, StackKept DEF PoolInv
<1>6. CASE ptr[q] # Null
  <2>1. PICK e \in Entry : e = ptr[q]
    BY <1>0, <1>6
  <2>2. /\ p \notin Counted(e) /\ q \in Counted(e)
        /\ Counted(e)' = Counted(e) \cup {p}
        /\ \A f \in Entry \ {e} : Counted(f)' = Counted(f)
    BY <1>0, <1>1, <2>1, PoolAssumption DEF Counted
  <2>3. refcount' = [refcount EXCEPT ![e] = @ + 1]
    BY <1>0, <2>1 DEF Incremented
  <2>4. \A f \in Entry : Counted(f)' = {} <=> Counted(f) = {}
    BY <2>2
  <2>5. CountExact'
    BY <1>0, <2>2, <2>3, CountsUp
  <2> QED BY <1>0, <1>3, <1>4, <2>4, <2>5, StackKept DEF PoolInv
<1> QED BY <1>5, <1>6

LEMMA MoveConstructInv ==
    ASSUME IInv, NEW t \in Thread, NEW p \in Pointer, NEW q \in Pointer,
           Owner[p] = t, Owner[q] = t, MoveConstruct(t, p, q)
    PROVE  (OpInv /\ FreedUncounted /\ Allocated /\ PoolInv)'
<1>0. /\ TypeOK /\ OpInv /\ FreedUncounted /\ Allocated /\ CountExact /\ FreeIsUnheld
      /\ op' = op /\ op[t] = Idle /\ ptr[p] = Null /\ p # q
      /\ stack' = stack /\ storage' = storage
      /\ ptr' = [ptr EXCEPT ![p] = ptr[q], ![q] = Null] /\ refcount' = refcount
      /\ ptr \in [Pointer -> Entry \cup {Null}]
  BY DEF IInv, PoolInv, MoveConstruct, TypeOK
<1>1. /\ ~Discounted(p) /\ ~Discounted(q)
      /\ \A r \in Pointer : Discounted(r)' <=> Discounted(r)
  BY <1>0 DEF Discounted
<1>2. \A u \in Thread : op[u] # Idle =>
         op[u].on \in Pointer /\ ptr'[op[u].on] = ptr[op[u].on]
  BY <1>0, OpType DEF OpInv
<1>3. /\ OneFrees'
      /\ \A f \in Entry : InFlight(f)' <=> InFlight(f)
  BY <1>0, <1>2 DEF InFlight, OneFrees, FreeIsUnheld
<1>4. OpInv' /\ Allocated'
  BY <1>0, <1>2 DEF OpInv, Allocated
<1>5. CASE ptr[q] = Null
  <2>1. \A f \in Entry : Counted(f)' = Counted(f)
    BY <1>0, <1>1, <1>5, PoolAssumption DEF Counted
  <2> QED BY <1>0, <1>3, <1>4, <2>1, CountsStay, StackKept DEF PoolInv
<1>6. CASE ptr[q] # Null
  <2>1. PICK e \in Entry : e = ptr[q]
    BY <1>0, <1>6
  <2>2. /\ p \notin Counted(e) /\ q \in Counted(e)
        /\ Counted(e)' = (Counted(e) \ {q}) \cup {p}
        /\ \A f \in Entry \ {e} : Counted(f)' = Counted(f)
    BY <1>0, <1>1, <2>1, PoolAssumption DEF Counted
  <2>3. \A f \in Entry : Counted(f)' = {} <=> Counted(f) = {}
    BY <2>2
  <2>4. CountExact'
    BY <1>0, <2>2, CountsMove
  <2> QED BY <1>0, <1>3, <1>4, <2>3, <2>4, StackKept DEF PoolInv
<1> QED BY <1>5, <1>6

LEMMA StartAssignInv ==
    ASSUME IInv, NEW t \in Thread, NEW p \in Pointer, NEW q \in Pointer,
           Owner[p] = t, Owner[q] = t, p # q,
           NEW k \in {"copy", "move"}, StartAssign(t, k, p, q)
    PROVE  (OpInv /\ FreedUncounted /\ Allocated /\ PoolInv)'
<1> DEFINE o == [kind |-> k, on |-> p, from |-> q, todo |-> "assign"]
<1>0. /\ TypeOK /\ OpInv /\ FreedUncounted /\ Allocated /\ CountExact /\ FreeIsUnheld
      /\ op[t] = Idle /\ ptr[p] = Null
      /\ stack' = stack /\ storage' = storage /\ ptr' = ptr /\ refcount' = refcount
      /\ op' = [op EXCEPT ![t] = o] /\ op \in [Thread -> {Idle} \cup Running]
  BY DEF IInv, PoolInv, StartAssign, TypeOK
<1>1. op'[t] = o /\ \A u \in Thread \ {t} : op'[u] = op[u]
  BY <1>0
<1>2. \A r \in Pointer : r # p => (Discounted(r)' <=> Discounted(r))
  BY <1>0, <1>1, PoolAssumption DEF Discounted, Idle
<1>3. \A f \in Entry : Counted(f)' = Counted(f)
  BY <1>0, <1>2, PoolAssumption DEF Counted
<1>4. /\ OneFrees'
      /\ \A f \in Entry : InFlight(f)' <=> InFlight(f)
  BY <1>0, <1>1 DEF InFlight, OneFrees, FreeIsUnheld
<1>5. OpInv' /\ Allocated'
  BY <1>0, <1>1 DEF OpInv, Allocated
<1> QED BY <1>0, <1>3, <1>4, <1>5, CountsStay, StackKept DEF PoolInv

\* The thread that takes the last count of an entry, and only that thread, is about
\* to free it.
LEMMA DecrementInv ==
    ASSUME IInv, NEW t \in Thread, NEW p \in Pointer, NEW q \in Pointer \cup {Null},
           NEW k \in {"copy", "move", "destroy"}, Owner[p] = t,
           k # "destroy" => q \in Pointer /\ q # p /\ Owner[q] = t,
           Decrement(t, k, p, q)
    PROVE  (OpInv /\ FreedUncounted /\ Allocated /\ PoolInv)'
<1> DEFINE o == [kind |-> k, on |-> p, from |-> q,
                 todo |-> IF refcount[ptr[p]] = 1 THEN "free" ELSE "assign"]
<1>0. /\ TypeOK /\ OpInv /\ FreedUncounted /\ Allocated /\ CountExact /\ FreeIsUnheld /\ NoLeak
      /\ op[t] = Idle /\ ptr[p] # Null
      /\ stack' = stack /\ storage' = storage /\ ptr' = ptr
      /\ refcount' = [refcount EXCEPT ![ptr[p]] = @ - 1]
      /\ op' = [op EXCEPT ![t] = o] /\ op \in [Thread -> {Idle} \cup Running]
      /\ ptr \in [Pointer -> Entry \cup {Null}]
  BY DEF IInv, PoolInv, Decrement, TypeOK
<1>1. op'[t] = o /\ o # Idle /\ \A u \in Thread \ {t} : op'[u] = op[u]
  BY <1>0 DEF Idle
<1>2. Discounted(p)' /\ ~Discounted(p) /\ \A r \in Pointer : r # p => (Discounted(r)' <=> Discounted(r))
  BY <1>0, <1>1, PoolAssumption DEF Discounted, Idle
<1>3. PICK e \in Entry : e = ptr[p]
  BY <1>0
<1>4. /\ p \in Counted(e)
      /\ Counted(e)' = Counted(e) \ {p}
      /\ \A f \in Entry \ {e} : Counted(f)' = Counted(f)
  BY <1>0, <1>2, <1>3 DEF Counted
<1>5. CountExact'
  BY <1>0, <1>3, <1>4, CountsDown
<1>6. refcount[e] = 1 <=> Counted(e)' = {}
  <2>1. refcount[e] = Cardinality(Counted(e))
    BY <1>0 DEF CountExact
  <2>2. IsFiniteSet(Counted(e)')  /\ Cardinality(Counted(e)') = Cardinality(Counted(e)) - 1
    BY <1>4, CountedFinite, FS_RemoveElement
  <2>3. Cardinality(Counted(e)') = 0 <=> Counted(e)' = {}
    BY <2>2, FS_EmptySet
  <2> QED BY <2>1, <2>2, <2>3, CountedFinite
<1>7. ~OnStack(e) /\ ~InFlight(e)
  BY <1>0, <1>4 DEF FreeIsUnheld, FreedUncounted
<1>8. \A f \in Entry : InFlight(f)' <=> InFlight(f) \/ (f = e /\ refcount[e] = 1)
  BY <1>0, <1>1, <1>3 DEF InFlight
<1>9. OneFrees'
  BY <1>0, <1>1, <1>3, <1>7 DEF InFlight, OneFrees, FreeIsUnheld
<1>10. \A f \in Entry : OnStack(f)' <=> OnStack(f)
  BY <1>0 DEF OnStack
<1>11. OpInv' /\ Allocated'
  BY <1>0, <1>1 DEF OpInv, Allocated
<1>12. FreedUncounted'
  BY <1>0, <1>4, <1>6, <1>8 DEF FreedUncounted
<1>13. FreeIsUnheld'
  BY <1>0, <1>4, <1>7, <1>8, <1>9, <1>10 DEF FreeIsUnheld
<1>14. NoLeak'
  <2>1. storage \subseteq Entry
    BY <1>0 DEF TypeOK
  <2> QED BY <1>0, <1>4, <1>6, <1>8, <1>10, <2>1 DEF NoLeak
<1> QED BY <1>5, <1>11, <1>12, <1>13, <1>14 DEF PoolInv

LEMMA FreeInv ==
    ASSUME IInv, NEW t \in Thread, Free(t)
    PROVE  (OpInv /\ FreedUncounted /\ Allocated /\ PoolInv)'
<1> DEFINE o == [op[t] EXCEPT !.todo = "assign"]
<1>p. PICK p : p = op[t].on
  OBVIOUS
<1>0. /\ TypeOK /\ OpInv /\ FreedUncounted /\ Allocated /\ CountExact /\ FreeIsUnheld /\ NoLeak
      /\ op[t] # Idle /\ op[t].todo = "free"
      /\ stack' = Append(stack, ptr[p]) /\ storage' = storage /\ refcount' = refcount
      /\ ptr' = [ptr EXCEPT ![p] = Null] /\ op' = [op EXCEPT ![t] = o]
      /\ op \in [Thread -> {Idle} \cup Running] /\ stack \in Seq(Entry)
      /\ ptr \in [Pointer -> Entry \cup {Null}] /\ storage \subseteq Entry
  BY <1>p DEF IInv, PoolInv, Free, TypeOK
<1>1. /\ op[t] \in Running /\ p \in Pointer /\ Owner[p] = t
  BY <1>p, <1>0, OpType DEF OpInv
<1>2. PICK e \in Entry : e = ptr[p]
  BY <1>p, <1>0, <1>1 DEF OpInv
<1>3. /\ op'[t] = o /\ o # Idle /\ o.on = p /\ o.todo = "assign"
      /\ o.kind = op[t].kind /\ o.from = op[t].from
      /\ \A u \in Thread \ {t} : op'[u] = op[u]
  BY <1>p, <1>0, <1>1 DEF Idle, Running
<1>4. Discounted(p) /\ \A r \in Pointer : Discounted(r)' <=> Discounted(r)
  <2>1. \A r \in Pointer : Owner[r] \in Thread
    BY PoolAssumption
  <2> QED BY <1>p, <1>0, <1>1, <1>3, <2>1 DEF Discounted
<1>5. \A f \in Entry : Counted(f)' = Counted(f)
  BY <1>0, <1>1, <1>4, PoolAssumption DEF Counted
<1>6. CountExact'
  BY <1>0, <1>5, CountsStay
<1>7. InFlight(e) /\ Counted(e) = {} /\ ~OnStack(e) /\ e \in storage
  <2>1. InFlight(e)
    BY <1>p, <1>0, <1>2 DEF InFlight
  <2>2. e \in storage
    BY <1>0, <1>1, <1>2, PoolAssumption DEF Allocated
  <2> QED BY <1>0, <2>1, <2>2 DEF FreedUncounted, FreeIsUnheld
<1>8. \A u \in Thread \ {t} : op[u] # Idle =>
         op[u].on \in Pointer /\ op[u].on # p /\ ptr'[op[u].on] = ptr[op[u].on]
  <2> SUFFICES ASSUME NEW u \in Thread \ {t}, op[u] # Idle
               PROVE  op[u].on \in Pointer /\ op[u].on # p /\ ptr'[op[u].on] = ptr[op[u].on]
    OBVIOUS
  <2>1. op[u].on \in Pointer /\ Owner[op[u].on] = u
    BY <1>0, OpType DEF OpInv
  <2> QED BY <1>0, <1>1, <2>1
<1>9. OneFrees'
  BY <1>0, <1>3, <1>8 DEF OneFrees, FreeIsUnheld
<1>10. \A f \in Entry : InFlight(f)' <=> InFlight(f) /\ f # e
  <2>1. \A u \in Thread \ {t} : op[u] # Idle /\ op[u].todo = "free" => ptr[op[u].on] # e
    BY <1>p, <1>0, <1>2 DEF OneFrees, FreeIsUnheld
  <2> QED BY <1>p, <1>0, <1>2, <1>3, <1>8, <2>1 DEF InFlight
<1>11. /\ Len(stack) \in Nat /\ Len(stack') = Len(stack) + 1
       /\ stack'[Len(stack')] = e
       /\ \A i \in 1 .. Len(stack) : stack'[i] = stack[i] /\ stack[i] # e
  BY <1>0, <1>2, <1>7 DEF OnStack
<1>12. \A f \in Entry : OnStack(f)' <=> OnStack(f) \/ f = e
  BY <1>11 DEF OnStack
<1>13. OpInv' /\ Allocated'
  BY <1>0, <1>1, <1>3, <1>8, PoolAssumption DEF OpInv, Allocated
<1>14. FreedUncounted'
  BY <1>0, <1>5, <1>10 DEF FreedUncounted
<1>15. FreeIsUnheld'
  <2>1. (\A i, j \in 1 .. Len(stack) : stack[i] = stack[j] => i = j)'
    BY <1>0, <1>11 DEF FreeIsUnheld
  <2> QED BY <1>0, <1>5, <1>7, <1>9, <1>10, <1>12, <2>1 DEF FreeIsUnheld
<1>16. NoLeak'
  BY <1>0, <1>5, <1>10, <1>12 DEF NoLeak
<1> QED BY <1>6, <1>13, <1>14, <1>15, <1>16 DEF PoolInv

LEMMA AssignInv ==
    ASSUME IInv, NEW t \in Thread, Assign(t)
    PROVE  (OpInv /\ FreedUncounted /\ Allocated /\ PoolInv)'
<1>p. PICK p : p = op[t].on
  OBVIOUS
<1>q. PICK q : q = op[t].from
  OBVIOUS
<1>0. /\ TypeOK /\ OpInv /\ FreedUncounted /\ Allocated /\ CountExact /\ FreeIsUnheld
      /\ op[t] # Idle /\ op[t].todo = "assign"
      /\ stack' = stack /\ storage' = storage /\ op' = [op EXCEPT ![t] = Idle]
      /\ op \in [Thread -> {Idle} \cup Running]
      /\ ptr \in [Pointer -> Entry \cup {Null}] /\ refcount \in [Entry -> Int]
  BY DEF IInv, PoolInv, Assign, TypeOK
<1>1. /\ p \in Pointer /\ Owner[p] = t
      /\ op[t].kind # "destroy" => q \in Pointer /\ q # p /\ Owner[q] = t
  BY <1>p, <1>q, <1>0, OpType DEF OpInv
<1>2. op'[t] = Idle /\ \A u \in Thread \ {t} : op'[u] = op[u]
  BY <1>0
<1>3. /\ Discounted(p) /\ ~Discounted(p)'
      /\ \A r \in Pointer : r # p => (Discounted(r)' <=> Discounted(r))
      /\ op[t].kind # "destroy" => ~Discounted(q)
  <2>1. Discounted(p)
    BY <1>p, <1>0, <1>1 DEF Discounted
  <2>2. \A r \in Pointer : Owner[r] = t => ~Discounted(r)'
    BY <1>2 DEF Discounted
  <2>3. \A r \in Pointer : Owner[r] = t /\ r # p => ~Discounted(r)
    BY <1>p DEF Discounted
  <2>4. \A r \in Pointer : Owner[r] # t => (Discounted(r)' <=> Discounted(r))
    BY <1>2, PoolAssumption DEF Discounted
  <2> QED BY <1>1, <2>1, <2>2, <2>3, <2>4
<1>4. \A u \in Thread \ {t} : op[u] # Idle =>
         /\ op[u].on \in Pointer /\ Owner[op[u].on] = u
  BY <1>0, OpType DEF OpInv
<1>5. ASSUME \A r \in Pointer : Owner[r] # t => ptr'[r] = ptr[r]
      PROVE  /\ OneFrees' /\ OpInv'
             /\ \A f \in Entry : InFlight(f)' <=> InFlight(f)
  <2>1. \A u \in Thread \ {t} : op[u] # Idle => ptr'[op[u].on] = ptr[op[u].on]
    BY <1>4, <1>5
  <2> QED BY <1>0, <1>2, <2>1 DEF InFlight, OneFrees, FreeIsUnheld, OpInv
<1>6. ASSUME ptr' = [ptr EXCEPT ![p] = Null] \/ (op[t].kind # "destroy" /\ ptr[q] = Null),
             \/ ptr' = [ptr EXCEPT ![p] = Null]
             \/ ptr' = [ptr EXCEPT ![p] = ptr[q]]
             \/ ptr' = [ptr EXCEPT ![p] = ptr[q], ![q] = Null] /\ op[t].kind # "destroy",
             refcount' = refcount
      PROVE  (OpInv /\ FreedUncounted /\ Allocated /\ PoolInv)'
  <2>1. ptr'[p] = Null /\ \A r \in Pointer : r # p => ptr'[r] = ptr[r]
    BY <1>0, <1>1, <1>6
  <2>2. \A f \in Entry : Counted(f)' = Counted(f)
    BY <1>3, <2>1, PoolAssumption DEF Counted
  <2>3. \A r \in Pointer : Owner[r] # t => ptr'[r] = ptr[r]
    BY <1>1, <2>1
  <2>4. Allocated'
    BY <1>0, <2>1 DEF Allocated
  <2> QED BY <1>0, <1>5, <1>6, <2>2, <2>3, <2>4, CountsStay, StackKept DEF PoolInv
<1>7. ASSUME op[t].kind = "copy", ptr[q] # Null, ptr' = [ptr EXCEPT ![p] = ptr[q]],
             refcount' = Incremented(ptr[q])
      PROVE  (OpInv /\ FreedUncounted /\ Allocated /\ PoolInv)'
  <2>1. PICK e \in Entry : e = ptr[q]
    BY <1>0, <1>1, <1>7
  <2>2. ptr'[p] = e /\ \A r \in Pointer : r # p => ptr'[r] = ptr[r]
    BY <1>0, <1>1, <1>7, <2>1
  <2>3. q \in Pointer /\ ~Discounted(q)
    BY <1>1, <1>3, <1>7
  <2>4. /\ p \notin Counted(e) /\ q \in Counted(e)
        /\ Counted(e)' = Counted(e) \cup {p}
        /\ \A f \in Entry \ {e} : Counted(f)' = Counted(f)
    BY <1>1, <1>3, <2>1, <2>2, <2>3 DEF Counted
  <2>5. refcount' = [refcount EXCEPT ![e] = @ + 1]
    BY <1>0, <1>7, <2>1 DEF Incremented
  <2>6. CountExact'
    BY <1>0, <1>1, <2>4, <2>5, CountsUp
  <2>7. \A f \in Entry : Counted(f)' = {} <=> Counted(f) = {}
    BY <2>4
  <2>8. Allocated' /\ \A r \in Pointer : Owner[r] # t => ptr'[r] = ptr[r]
    BY <1>0, <1>1, <2>1, <2>2, <2>3 DEF Allocated
  <2> QED BY <1>0, <1>5, <2>6, <2>7, <2>8, StackKept DEF PoolInv
<1>8. ASSUME op[t].kind = "move", ptr[q] # Null, refcount' = refcount,
             ptr' = [ptr EXCEPT ![p] = ptr[q], ![q] = Null]
      PROVE  (OpInv /\ FreedUncounted /\ Allocated /\ PoolInv)'
  <2>1. PICK e \in Entry : e = ptr[q]
    BY <1>0, <1>1, <1>8
  <2>2. q \in Pointer /\ q # p /\ Owner[q] = t /\ ~Discounted(q)
    BY <1>1, <1>3, <1>8
  <2>3. /\ ptr'[p] = e /\ ptr'[q] = Null
        /\ \A r \in Pointer : r # p /\ r # q => ptr'[r] = ptr[r]
    BY <1>0, <1>1, <1>8, <2>1, <2>2
  <2>4. /\ p \notin Counted(e) /\ q \in Counted(e)
        /\ Counted(e)' = (Counted(e) \ {q}) \cup {p}
        /\ \A f \in Entry \ {e} : Counted(f)' = Counted(f)
    BY <1>1, <1>3, <2>1, <2>2, <2>3, PoolAssumption DEF Counted
  <2>5. CountExact'
    BY <1>0, <1>1, <1>8, <2>4, CountsMove
  <2>6. \A f \in Entry : Counted(f)' = {} <=> Counted(f) = {}
    BY <2>4
  <2>7. Allocated' /\ \A r \in Pointer : Owner[r] # t => ptr'[r] = ptr[r]
    BY <1>0, <1>1, <2>1, <2>2, <2>3 DEF Allocated
  <2> QED BY <1>0, <1>5, <2>5, <2>6, <2>7, StackKept DEF PoolInv
<1>9. \/ op[t].kind = "copy" /\ ptr' = [ptr EXCEPT ![p] = ptr[q]]
         /\ refcount' = Incremented(ptr[q])
      \/ op[t].kind = "move" /\ ptr' = [ptr EXCEPT ![p] = ptr[q], ![q] = Null]
         /\ refcount' = refcount
      \/ op[t].kind = "destroy" /\ ptr' = [ptr EXCEPT ![p] = Null] /\ refcount' = refcount
  BY <1>p, <1>q DEF Assign
<1>10. ptr[q] = Null => Incremented(ptr[q]) = refcount
  BY <1>0, PoolAssumption DEF Incremented
<1> QED
  <2>1. CASE op[t].kind = "destroy"
    BY <1>6, <1>9, <2>1
  <2>2. CASE op[t].kind = "copy" /\ ptr[q] = Null
    BY <1>6, <1>9, <1>10, <2>2
  <2>3. CASE op[t].kind = "move" /\ ptr[q] = Null
    BY <1>6, <1>9, <2>3
  <2> QED BY <1>7, <1>8, <1>9, <2>1, <2>2, <2>3

-----------------------------------------------------------------------------

LEMMA InitIInv == Init => IInv
<1> SUFFICES ASSUME Init PROVE IInv
  OBVIOUS
<1>1. /\ storage = {} /\ stack = <<>> /\ refcount = [e \in Entry |-> 0]
      /\ ptr = [p \in Pointer |-> Null] /\ op = [t \in Thread |-> Idle]
  BY DEF Init
<1>2. \A e \in Entry : Counted(e) = {} /\ ~InFlight(e) /\ ~OnStack(e)
  BY <1>1, PoolAssumption DEF Counted, InFlight, OnStack
<1>3. CountExact
  BY <1>1, <1>2, FS_EmptySet DEF CountExact
<1> QED
  BY <1>1, <1>2, <1>3
  DEF IInv, TypeOK, OpInv, FreedUncounted, Allocated, PoolInv, FreeIsUnheld, OneFrees, NoLeak

LEMMA StutterIInv == IInv /\ UNCHANGED vars => IInv'
<1> SUFFICES ASSUME IInv, UNCHANGED vars PROVE IInv'
  OBVIOUS
<1>1. \A e \in Entry : Counted(e)' = Counted(e)
  BY DEF vars, Counted, Discounted
<1> QED
  BY <1>1 DEF vars, IInv, TypeOK, OpInv, FreedUncounted, Allocated, PoolInv, CountExact,
     FreeIsUnheld, OneFrees, NoLeak, OnStack, InFlight

LEMMA NextIInv == IInv /\ [Next]_vars => IInv'
<1> SUFFICES ASSUME IInv, Next PROVE (OpInv /\ FreedUncounted /\ Allocated /\ PoolInv)'
  BY TypeStep, StutterIInv DEF IInv
<1>1. ASSUME NEW t \in Thread, NEW p \in Pointer, Owner[p] = t, Destroy(t, p)
      PROVE  (OpInv /\ FreedUncounted /\ Allocated /\ PoolInv)'
  BY <1>1, DecrementInv DEF Destroy
<1>2. ASSUME NEW t \in Thread, NEW p \in Pointer, NEW q \in Pointer, Owner[p] = t, Owner[q] = t,
             CopyAssign(t, p, q) \/ MoveAssign(t, p, q)
      PROVE  (OpInv /\ FreedUncounted /\ Allocated /\ PoolInv)'
  BY <1>2, DecrementInv, StartAssignInv DEF CopyAssign, MoveAssign
<1> QED
  BY <1>1, <1>2, GetOrAllocateInv, CopyConstructInv, MoveConstructInv, FreeInv, AssignInv
  DEF Next, Clone

\* The reference count of every entry is the number of pointers that refer to it, a
\* free entry is held by nobody and freed by nobody a second time, and no entry is
\* lost, however inc_ref_count, dec_ref_count and the pushes and pops of the free
\* stack of any number of threads interleave.
THEOREM PoolCorrect == Spec => []PoolInv
<1>1. Spec => []IInv
  BY InitIInv, NextIInv, PTL DEF Spec
<1>2. IInv => PoolInv
  BY DEF IInv
<1> QED BY <1>1, <1>2, PTL
=============================================================================
