-------------------------- MODULE BitPackedArrays --------------------------
(***************************************************************************)
(* BitPackedArrayPool and BitPackedArraySet (common/bit_packed_array_*.hpp): *)
(* arrays of equal length whose elements take `width` bits each, stored      *)
(* without gaps in segments that double in size, and a set that gives equal   *)
(* arrays the same index.  An element too wide for its place makes push_back *)
(* throw when the elements before it are already written and the pool has    *)
(* already grown: the set then does not know the last array of its pool.     *)
(***************************************************************************)
EXTENDS BitPacking, Sequences, TLC

CONSTANTS Shapes,             \* lengths and widths of the arrays: a set of pairs
          FirstSegmentSize,   \* arrays in the first segment
          Values,             \* element values
          MaxSize             \* bound: arrays in the pool

VARIABLES
    shape,      \* <<m_length, m_width>>
    segments,   \* m_segments
    size,       \* m_size of the pool
    known,      \* m_set: indices in the hash set
    written,    \* written[i]: the elements of array i stored last (history)
    given       \* the index insert returned for an array (history)

vars == <<shape, segments, size, known, written, given>>

length == shape[1]
width == shape[2]

Arrays == [1..length -> Values]

GetSegmentIndex(index) == BitWidth((index \div FirstSegmentSize) + 1) - 1

GetSegmentPos(index) ==
    LET q == index \div FirstSegmentSize
        r == index % FirstSegmentSize
    IN  (q - (2^GetSegmentIndex(index) - 1)) * FirstSegmentSize + r

\* reserve: the segments up to the one that holds array `n - 1`.
Reserve(n) ==
    [s \in DOMAIN segments \cup 0..GetSegmentIndex(n - 1) |->
        IF s \in DOMAIN segments THEN segments[s]
        ELSE [b \in 0..(CeilDiv(FirstSegmentSize * 2^s * length * width, Digits) - 1) |-> {}]]

\* operator[] of the pool and of a view: block and offset of element e of array i.
Place(i, e) ==
    LET start == GetSegmentPos(i) * width * length
        bit == (start % Digits) + (e - 1) * width
    IN  [at |-> start \div Digits + bit \div Digits, offset |-> bit % Digits]

ReadArrayIn(segs, i) ==
    [e \in 1..length |->
        Decode(ReadInt(segs[GetSegmentIndex(i)], Place(i, e).at, Place(i, e).offset, width))]

ReadArray(i) == ReadArrayIn(segments, i)

\* The arrays an iterator of the pool goes through.
PoolArrays == [i \in 1..size |-> ReadArray(i - 1)]

\* find: the hash table compares element by element.
FindArray(a) == {i \in known : ReadArray(i) = a}

\* The elements written before one that does not fit makes the code throw.
Fitting(a) ==
    {e \in 1..length : \A d \in 1..e : EnsureFits(Encode(a[d]), width)}

\* The assignments of a's elements to array i, in order.
Stored(segs, i, a) ==
    LET seg == GetSegmentIndex(i)
        place[e \in 0..length] ==
            IF e = 0 THEN segs[seg]
            ELSE IF e \notin Fitting(a) THEN place[e - 1]
            ELSE WriteInt(place[e - 1], Place(i, e).at, Encode(a[e]), Place(i, e).offset, width)
    IN  [segs EXCEPT ![seg] = place[length]]

\* What array i holds after the elements of a that fit were assigned.
Overwritten(old, a) == [e \in 1..length |-> IF e \in Fitting(a) THEN a[e] ELSE old[e]]

Init ==
    /\ shape \in Shapes
    /\ segments = <<>>
    /\ size = 0
    /\ known = {}
    /\ written = <<>>
    /\ given = <<>>

\* insert: an array equal to one of the set is not stored again.
InsertKnown(a) ==
    /\ FindArray(a) # {}
    /\ UNCHANGED vars

InsertNew(a) ==
    /\ size < MaxSize
    /\ FindArray(a) = {}
    /\ LET grown == Reserve(size + 1)
       IN  /\ segments' = Stored(grown, size, a)
           /\ written' = Append(written, Overwritten(ReadArrayIn(grown, size), a))
    /\ size' = size + 1
    /\ IF Fitting(a) = 1..length
       THEN known' = known \cup {size} /\ given' = (a :> size) @@ given
       ELSE UNCHANGED <<known, given>>
    /\ UNCHANGED shape

\* operator= of the view of an array that is not in the set.
AssignArray(i, a) ==
    /\ i \in 0..(size - 1) \ known
    /\ segments' = Stored(segments, i, a)
    /\ written' = [written EXCEPT ![i + 1] = Overwritten(@, a)]
    /\ UNCHANGED <<shape, size, known, given>>

\* clear keeps the segments and what is in them.
Clear ==
    /\ size' = 0
    /\ known' = {}
    /\ written' = <<>>
    /\ given' = <<>>
    /\ UNCHANGED <<shape, segments>>

Next ==
    \/ \E a \in Arrays : InsertKnown(a) \/ InsertNew(a)
    \/ \E i \in 0..(MaxSize - 1), a \in Arrays : AssignArray(i, a)
    \/ Clear

Spec == Init /\ [][Next]_vars

-----------------------------------------------------------------------------
\* Every element lies inside its segment, the second block of a straddling one
\* included, and reads back as it was written last, whatever was written to the
\* other arrays that share its blocks, to the arrays of earlier contents, and
\* by calls that threw half way (bit_packed_array_pool.hpp push_back, view
\* operator=).
ArraysIntact ==
    /\ \A i \in 0..(size - 1), e \in 1..length :
        LET p == Place(i, e)
        IN  p.at + (IF p.offset + width > Digits THEN 1 ELSE 0)
                \in DOMAIN segments[GetSegmentIndex(i)]
    /\ PoolArrays = written

\* A set of packed arrays keeps that, and gives an array one index for as long as
\* it is not cleared: the index insert returned first is the only one under which
\* it is found again (bit_packed_array_set.hpp insert_with_hash).
SetFaithful ==
    /\ ArraysIntact
    /\ \A a \in DOMAIN given : FindArray(a) = {given[a]}
=============================================================================
