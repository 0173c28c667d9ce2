------------------------- MODULE AlternatingOpenList ------------------------
(***************************************************************************)
(* The alternation between a preferred (1) and a standard (2) queue with    *)
(* the weights gbfs_lazy gives them: each pop lets the preferred queue's    *)
(* weight decay, each new best heuristic value boosts it. Only the sizes of *)
(* the queues matter here; module GbfsLazy implements this specification.   *)
(***************************************************************************)
EXTENDS Naturals

CONSTANTS
    Boost,      \* options.boost_preferred_queue
    MaxH,       \* bound: heuristic values are at most MaxH
    MaxSize     \* bound on the length of a queue

VARIABLES
    n,          \* the sizes of the queues
    pos,        \* m_pos: the queue last popped from
    count,      \* m_count: pops since it was selected
    weight,     \* m_weights[0]; that of the standard queue stays 1
    best        \* the best heuristic value so far

vars == <<n, pos, count, weight, best>>

TypeOK ==
    /\ n \in [1 .. 2 -> 0 .. MaxSize]
    /\ pos \in 1 .. 2
    /\ count \in Nat
    /\ weight \in Nat \ {0}
    /\ best \in 0 .. MaxH

Init ==
    /\ n = [q \in 1 .. 2 |-> 0]
    /\ pos = 1
    /\ count = 0
    /\ weight = 1
    /\ best \in 0 .. MaxH

Insert(q) ==
    /\ n[q] < MaxSize
    /\ n' = [n EXCEPT ![q] = @ + 1]
    /\ UNCHANGED <<pos, count, weight, best>>

Weight(q) == IF q = 1 THEN weight ELSE 1

\* Mutant: a queue is left only when it is empty.
ExchangeEmpty == n[pos] = 0

\* top(): the current queue is empty or has had its share.
Exchange == n[pos] = 0 \/ count >= Weight(pos)

\* Mutant: the search for a queue begins with the current one.
SelectedStay == IF n[pos] > 0 THEN pos ELSE 3 - pos

\* find_next_nonempty_queue: cyclically, possibly back to the same queue.
Selected == IF ~Exchange THEN pos ELSE IF n[3 - pos] > 0 THEN 3 - pos ELSE pos

Decayed == IF weight > 1 THEN weight - 1 ELSE 1

\* top(), pop() and the update of the weight after a state of value h was popped.
Pop(h) ==
    /\ \E q \in 1 .. 2 : n[q] > 0
    /\ pos' = Selected
    /\ count' = (IF Exchange THEN 0 ELSE count) + 1
    /\ n' = [n EXCEPT ![Selected] = @ - 1]
    /\ best' = IF h < best THEN h ELSE best
    /\ weight' = IF h < best THEN Decayed + Boost ELSE Decayed

Next ==
    \/ \E q \in 1 .. 2 : Insert(q)
    \/ \E h \in 0 .. MaxH : Pop(h)

\* The search pops as long as there is something to pop.
Spec == Init /\ [][Next]_vars /\ WF_vars(\E h \in 0 .. MaxH : Pop(h))

-----------------------------------------------------------------------------

\* No queue starves: however much the preferred queue is boosted and refilled, the
\* other one is served again, since the best heuristic value cannot improve for
\* ever and the pops from one queue are counted against its weight.
NoStarvation == \A q \in 1 .. 2 : (n[q] > 0) ~> (pos = q)

\* count never runs ahead of the weight by more than the decay of one pop, so the
\* preferred queue's share is bounded by the boosts it was given.
ShareBounded == pos = 1 => count <= weight + 1
=============================================================================
