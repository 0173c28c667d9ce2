----------------------------- MODULE Containers -----------------------------
(***************************************************************************)
(* The containers of common/ that give each value an index and keep it in   *)
(* memory that never moves:                                                 *)
(*    nodes    SegmentedVector, a vector in segments that double in size     *)
(*    objects  IndexedHashSet, a set over a SegmentedVector                  *)
(*    blocks   BlockArraySet over BlockArrayPool, arrays of one length in    *)
(*             segments that double                                          *)
(*    arrays   RawArraySet over RawArrayPool, arrays of one length in        *)
(*             segments of one size, filled through a cursor                 *)
(*    vectors  RawVectorSet over RawVectorPool, vectors behind their length  *)
(*             in segments filled one after the other, found by address      *)
(*    bits     two BitsetSpans of the same number of bits                    *)
(* clear forgets the values and keeps the segments with what is in them, so *)
(* that later values come to lie over the remains of earlier ones.           *)
(*                                                                          *)
(* A cell holds a block, an object or an element; a vector's length takes    *)
(* one cell.  Hash tables are found by equality.                             *)
(***************************************************************************)
EXTENDS BitPacking, Sequences, TLC

CONSTANTS Kinds,              \* which of the containers
          FirstSegmentSize,   \* arrays or objects of the first segment
          ArraysPerSegment,   \* of a RawArrayPool
          FirstSegmentBytes,  \* cells of the first segment of a RawVectorPool
          Length,             \* of the arrays
          Values,             \* elements of the arrays
          Objects,            \* objects, numbers as well
          Vectors,            \* the vectors inserted
          Widths,             \* numbers of bits of the spans
          MaxCount            \* bound: values in a container

VARIABLES
    kind,
    memory,     \* m_segments; the blocks of the two spans
    count,      \* m_size; the number of bits of the spans
    cursor,     \* <<m_cur_seg, m_cur_pos>>
    used,       \* used_bytes of each segment
    slots,      \* m_index: <<segment, cell>>
    members,    \* indices in the hash set
    stored      \* stored[i + 1]: the value given index i (history); the sets
                \* the two spans stand for

vars == <<kind, memory, count, cursor, used, slots, members, stored>>

Arrays == [1..Length -> Values]

Segment(n) == [c \in 0..(n - 1) |-> 0]

\* x is written to a segment from cell `at` on.
Overwrite(segment, at, x) ==
    [c \in DOMAIN segment |-> IF c - at + 1 \in DOMAIN x THEN x[c - at + 1] ELSE segment[c]]

-----------------------------------------------------------------------------
(* SegmentedVector and IndexedHashSet *)

SegmentIndex(i) == BitWidth((i \div FirstSegmentSize) + 1) - 1
SegmentPos(i) ==
    ((i \div FirstSegmentSize) - (2^SegmentIndex(i) - 1)) * FirstSegmentSize + (i % FirstSegmentSize)

Capacity(segments) == MapThenSumSet(LAMBDA s : Cardinality(DOMAIN segments[s]), DOMAIN segments)

\* The vector grows by one, so that one more segment is enough.
ResizeToFit(n) ==
    LET some == IF memory = <<>> THEN <<Segment(FirstSegmentSize)>> ELSE memory
    IN  IF Capacity(some) >= n THEN some ELSE Append(some, Segment(FirstSegmentSize * 2^Len(some)))

Element(i) == <<memory[SegmentIndex(i) + 1][SegmentPos(i)]>>

FindObject(x) == {i \in members : Element(i) = x}

\* operator[], assigned.
AssignElement(i, x) ==
    /\ kind = "nodes" /\ i < count
    /\ memory' = [memory EXCEPT ![SegmentIndex(i) + 1] = Overwrite(@, SegmentPos(i), x)]
    /\ stored' = [stored EXCEPT ![i + 1] = x]
    /\ UNCHANGED <<kind, count, cursor, used, slots, members>>

PushBack(x) ==
    /\ count < MaxCount
    /\ memory' = [ResizeToFit(count + 1) EXCEPT
                     ![SegmentIndex(count) + 1] = Overwrite(@, SegmentPos(count), x)]
    /\ count' = count + 1
    /\ stored' = Append(stored, x)
    /\ UNCHANGED <<kind, cursor, used, slots>>

PopBack ==
    /\ kind = "nodes" /\ count > 0
    /\ count' = count - 1
    /\ stored' = Front(stored)
    /\ UNCHANGED <<kind, memory, cursor, used, slots, members>>

PushNode(x) == kind = "nodes" /\ PushBack(x) /\ UNCHANGED members

InsertObject(x) ==
    /\ kind = "objects" /\ FindObject(x) = {}
    /\ PushBack(x)
    /\ members' = members \cup {count}

-----------------------------------------------------------------------------
(* BlockArrayPool and BlockArraySet *)

\* reserve: the segments up to the one of array n - 1.
Reserve(n) ==
    memory \o [s \in 1..(SegmentIndex(n - 1) + 1 - Len(memory)) |->
                  Segment(FirstSegmentSize * 2^(Len(memory) + s - 1) * Length)]

\* The view of array i, and the arrays an iterator goes through.
BlockArray(i) == [e \in 1..Length |-> memory[SegmentIndex(i) + 1][SegmentPos(i) * Length + e - 1]]
BlockArrays == [i \in 1..count |-> BlockArray(i - 1)]

FindBlockArray(x) == {i \in members : BlockArray(i) = x}

PushBackArray(x) ==
    /\ count < MaxCount
    /\ memory' = [Reserve(count + 1) EXCEPT
                     ![SegmentIndex(count) + 1] = Overwrite(@, SegmentPos(count) * Length, x)]
    /\ count' = count + 1
    /\ stored' = Append(stored, x)
    /\ UNCHANGED <<kind, cursor, used, slots>>

InsertBlockArray(x) ==
    /\ kind = "blocks" /\ FindBlockArray(x) = {}
    /\ PushBackArray(x)
    /\ members' = members \cup {count}

-----------------------------------------------------------------------------
(* RawArrayPool and RawArraySet *)

\* Mutant: segments that are there already are not used again.
IncreaseCapacityAtEnd ==
    IF cursor[1] < Len(memory) /\ cursor[2] + Length <= ArraysPerSegment * Length
    THEN [memory |-> memory, cursor |-> cursor]
    ELSE [memory |-> Append(memory, Segment(ArraysPerSegment * Length)), cursor |-> <<Len(memory), 0>>]

\* increase_capacity: the segments and the place of the next array.
IncreaseCapacity ==
    IF cursor[1] < Len(memory) /\ cursor[2] + Length <= ArraysPerSegment * Length
    THEN [memory |-> memory, cursor |-> cursor]
    ELSE IF cursor[1] + 1 < Len(memory)
    THEN [memory |-> memory, cursor |-> <<cursor[1] + 1, 0>>]
    ELSE [memory |-> Append(memory, Segment(ArraysPerSegment * Length)), cursor |-> <<Len(memory), 0>>]

RawArray(i) ==
    [e \in 1..Length |-> memory[(i \div ArraysPerSegment) + 1][(i % ArraysPerSegment) * Length + e - 1]]

FindRawArray(x) == {i \in members : RawArray(i) = x}

\* allocate, and the array is copied to the place it returns.
InsertRawArray(x) ==
    /\ kind = "arrays" /\ FindRawArray(x) = {} /\ count < MaxCount
    /\ LET place == IncreaseCapacity
       IN  /\ memory' = [place.memory EXCEPT ![place.cursor[1] + 1] = Overwrite(@, place.cursor[2], x)]
           /\ cursor' = [place.cursor EXCEPT ![2] = @ + Length]
    /\ count' = count + 1
    /\ members' = members \cup {count}
    /\ stored' = Append(stored, x)
    /\ UNCHANGED <<kind, used, slots>>

-----------------------------------------------------------------------------
(* RawVectorPool and RawVectorSet *)

\* The capacity of the next segment: twice the last one, and on until it fits.
NextBytes(needed) ==
    LET first == IF memory = <<>> THEN FirstSegmentBytes ELSE Cardinality(DOMAIN Last(memory)) * 2
        k == CHOOSE k \in 0..needed : /\ first * 2^k >= needed
                                      /\ \A j \in 0..(k - 1) : first * 2^j < needed
    IN  first * 2^k

\* Only the last segment is looked at.
CurrentSegmentFits(needed) ==
    memory # <<>> /\ Cardinality(DOMAIN Last(memory)) - Last(used) >= needed

RawVector(i) ==
    LET segment == memory[slots[i + 1][1]]
        at == slots[i + 1][2]
    IN  [e \in 1..segment[at] |-> segment[at + e]]

FindRawVector(x) == {i \in members : RawVector(i) = x}

InsertRawVector(x) ==
    /\ kind = "vectors" /\ FindRawVector(x) = {} /\ count < MaxCount
    /\ LET needed == 1 + Len(x)
           fits == CurrentSegmentFits(needed)
           segments == IF fits THEN memory ELSE Append(memory, Segment(NextBytes(needed)))
           filled == IF fits THEN used ELSE Append(used, 0)
           at == Last(filled)
       IN  /\ memory' = [segments EXCEPT ![Len(segments)] = Overwrite(@, at, <<Len(x)>> \o x)]
           /\ used' = [filled EXCEPT ![Len(filled)] = at + needed]
           /\ slots' = Append(slots, <<Len(segments), at>>)
    /\ count' = count + 1
    /\ members' = members \cup {count}
    /\ stored' = Append(stored, x)
    /\ UNCHANGED <<kind, cursor>>

-----------------------------------------------------------------------------
(* BitsetSpan *)

\* A modifier of span d; the other one is the operand.
Span(d, span, set) ==
    /\ kind = "bits"
    /\ memory' = [memory EXCEPT ![d] = span]
    /\ stored' = [stored EXCEPT ![d] = set]
    /\ UNCHANGED <<kind, count, cursor, used, slots, members>>

ModifyBits(d) ==
    LET x == memory[d]
        y == memory[3 - d]
        X == stored[d]
        Y == stored[3 - d]
    IN  \/ \E pos \in 0..(count - 1) :
            Span(d, SetBit(x, pos), X \cup {pos}) \/ Span(d, ResetBit(x, pos), X \ {pos})
        \/ Span(d, SetAllBits(x, count), 0..(count - 1))
        \/ Span(d, ResetAllBits(x), {})
        \/ Span(d, CopyFrom(x, y), Y)
        \/ Span(d, DiffFrom(x, y), Y \ X)
        \/ Span(d, AndWith(x, y), X \cap Y)
        \/ Span(d, OrWith(x, y), X \cup Y)
        \/ Span(d, MinusWith(x, y), X \ Y)

-----------------------------------------------------------------------------

Init ==
    /\ kind \in Kinds
    /\ count \in IF kind = "bits" THEN Widths ELSE {0}
    /\ memory = IF kind # "bits" THEN <<>>
                ELSE LET empty == [b \in 0..(NumBlocks(count) - 1) |-> {}] IN <<empty, empty>>
    /\ cursor = <<0, 0>>
    /\ used = <<>>
    /\ slots = <<>>
    /\ members = {}
    /\ stored = IF kind = "bits" THEN <<{}, {}>> ELSE <<>>

\* clear of each container. A RawArrayPool starts over at its first segment, a
\* RawVectorPool goes on in its last one.
Forget ==
    /\ count' = 0
    /\ members' = {}
    /\ stored' = <<>>
    /\ UNCHANGED <<kind, memory>>

Clear ==
    /\ kind \in {"nodes", "objects", "blocks"}
    /\ Forget
    /\ UNCHANGED <<cursor, used, slots>>

ClearArrays ==
    /\ kind = "arrays"
    /\ Forget
    /\ cursor' = <<0, 0>>
    /\ UNCHANGED <<used, slots>>

ClearVectors ==
    /\ kind = "vectors"
    /\ Forget
    /\ used' = [s \in DOMAIN used |-> 0]
    /\ slots' = <<>>
    /\ UNCHANGED cursor

Next ==
    \/ \E x \in [1..1 -> Objects] :
        PushNode(x) \/ InsertObject(x) \/ \E i \in 0..(MaxCount - 1) : AssignElement(i, x)
    \/ \E x \in Arrays : InsertBlockArray(x) \/ InsertRawArray(x)
    \/ \E x \in Vectors : InsertRawVector(x)
    \/ \E d \in 1..2 : kind = "bits" /\ ModifyBits(d)
    \/ PopBack \/ Clear \/ ClearArrays \/ ClearVectors

Spec == Init /\ [][Next]_vars

-----------------------------------------------------------------------------
At(i) ==
    CASE kind \in {"nodes", "objects"} -> Element(i)
      [] kind = "blocks" -> BlockArray(i)
      [] kind = "arrays" -> RawArray(i)
      [] kind = "vectors" -> RawVector(i)

\* A value reads back under its index as it was stored last, whatever lies in the
\* memory from before a clear and wherever the segments end, and a set gives equal
\* values one index (push_back, insert, operator[] and clear of each container).
ValuesIntact ==
    kind # "bits" =>
        /\ \A i \in 0..(count - 1) : At(i) = stored[i + 1]
        /\ kind = "blocks" => BlockArrays = stored
        /\ kind # "nodes" =>
            /\ members = 0..(count - 1)
            /\ \A i, j \in members : stored[i + 1] = stored[j + 1] => i = j

Least(S) == IF S = {} THEN NoPosition ELSE Min(S)

\* A span is the set its modifiers make, and every query and traversal answers for
\* that set, the bits of a last block that is not full left out (BitsetSpan).
SpansRight ==
    kind = "bits" => \A d \in 1..2 :
        LET x == memory[d]
            S == stored[d]
            n == count
            rest == (0..(n - 1)) \ S
        IN  /\ TrailingBitsZero(x, n)
            /\ {pos \in 0..(n - 1) : TestBit(x, pos)} = S
            /\ CountBits(x) = Cardinality(S) /\ CountZeros(x, n) = Cardinality(rest)
            /\ AnyBit(x) = (S # {})
            /\ SameBits(x, memory[3 - d]) = (S = stored[3 - d])
            /\ FindFirst(x, n) = Least(S)
            /\ FindFirstZero(x, n) = Least(rest)
            /\ \A pos \in 0..(n - 1) :
                /\ FindNext(x, n, pos) = Least({b \in S : b > pos})
                /\ FindNextZero(x, n, pos) = Least({b \in rest : b > pos})
            /\ ForEachBit(MinusWith(memory[3 - d], x), n) = SetToSortSeq(stored[3 - d] \ S, <)
            /\ ForEachBit([b \in DOMAIN x |-> Bits \ x[b]], n) = SetToSortSeq(rest, <)

ContainersFaithful == ValuesIntact /\ SpansRight
=============================================================================
