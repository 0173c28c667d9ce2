----------------------------- MODULE BitPacking -----------------------------
(***************************************************************************)
(* Packed unsigned integers (common/bit.hpp).  A block is the set of its     *)
(* bits that are 1, so that & | << >> are operations on sets of bit          *)
(* positions; a buffer maps positions 0, 1, ... to blocks.                   *)
(***************************************************************************)
EXTENDS Integers, SequencesExt

CONSTANT Digits      \* bits of a block, a power of two

DigitsAssumption == Digits \in {2, 4, 8, 16, 32}

Bits == 0..(Digits - 1)

\* The block that encodes the number x, and the number a block encodes.
Encode(x) == {b \in Bits : (x \div 2^b) % 2 = 1}
Decode(w) == MapThenSumSet(LAMBDA b : 2^b, w)

LoSet(n) == 0..(n - 1)
ShiftLeft(w, n) == {b \in Bits : b - n \in w}
ShiftRight(w, n) == {b \in Bits : b + n \in w}

CeilDiv(x, y) == (x + y - 1) \div y
BitWidth(x) == IF x = 0 THEN 0 ELSE 1 + CHOOSE b \in 0..x : 2^b <= x /\ x < 2^(b + 1)
BitsNeeded(size) == IF size <= 1 THEN 1 ELSE BitWidth(size - 1)

\* Mutant: the second block is overwritten, not masked.
WriteIntClobbers(buffer, at, x, offset, len) ==
    LET y == x \cap LoSet(len)
        rest == (offset + len) % Digits
        kept == IF offset + len >= Digits
                THEN LoSet(offset)
                ELSE LoSet(offset) \cup ((offset + len)..(Digits - 1))
    IN  [i \in DOMAIN buffer |->
            CASE i = at -> (buffer[i] \cap kept) \cup ShiftLeft(y, offset)
              [] i = at + 1 /\ offset + len >= Digits /\ rest # 0 -> ShiftRight(y, len - rest)
              [] OTHER -> buffer[i]]

\* write_int: the len low bits of x go to bit `offset` of block `at`, and on
\* into the next block where they do not fit.
WriteInt(buffer, at, x, offset, len) ==
    LET y == x \cap LoSet(len)
        rest == (offset + len) % Digits
        kept == IF offset + len >= Digits
                THEN LoSet(offset)
                ELSE LoSet(offset) \cup ((offset + len)..(Digits - 1))
    IN  [i \in DOMAIN buffer |->
            CASE i = at -> (buffer[i] \cap kept) \cup ShiftLeft(y, offset)
              [] i = at + 1 /\ offset + len >= Digits /\ rest # 0 ->
                    (buffer[i] \ LoSet(rest)) \cup ShiftRight(y, len - rest)
              [] OTHER -> buffer[i]]

ReadInt(buffer, at, offset, len) ==
    LET low == ShiftRight(buffer[at], offset)
    IN  IF offset + len > Digits
        THEN low \cup ShiftLeft(buffer[at + 1] \cap LoSet((offset + len) % Digits), Digits - offset)
        ELSE low \cap LoSet(len)

\* int_reference::ensure_fits: assigning a wider value throws.
EnsureFits(x, len) == x \subseteq LoSet(len)

\* bit_reference: one bit of a buffer, set and read.
WriteBit(buffer, bit, value) ==
    [buffer EXCEPT ![bit \div Digits] =
        IF value THEN @ \cup {bit % Digits} ELSE @ \ {bit % Digits}]

ReadBit(buffer, bit) == bit % Digits \in buffer[bit \div Digits]

-----------------------------------------------------------------------------
(* BitsetSpan (common/dynamic_bitset.hpp): the first n bits of a buffer. The *)
(* bits of the last block after them are kept 0.                            *)

NoPosition == -1

NumBlocks(n) == CeilDiv(n, Digits)
LastMask(n) == IF n % Digits = 0 THEN Bits ELSE LoSet(n % Digits)

\* Mutant: the last block is not cut off.
SetAllBitsWide(span, n) == [b \in DOMAIN span |-> Bits]

ClearTrailingBits(span, n) ==
    [b \in DOMAIN span |-> IF b = NumBlocks(n) - 1 THEN span[b] \cap LastMask(n) ELSE span[b]]
TrailingBitsZero(span, n) == ClearTrailingBits(span, n) = span

SetBit(span, pos) == [span EXCEPT ![pos \div Digits] = @ \cup {pos % Digits}]
ResetBit(span, pos) == [span EXCEPT ![pos \div Digits] = @ \ {pos % Digits}]
SetAllBits(span, n) == ClearTrailingBits([b \in DOMAIN span |-> Bits], n)
ResetAllBits(span) == [b \in DOMAIN span |-> {}]

CopyFrom(span, other) == [b \in DOMAIN span |-> other[b]]
DiffFrom(span, other) == [b \in DOMAIN span |-> other[b] \cap (Bits \ span[b])]
AndWith(span, other) == [b \in DOMAIN span |-> span[b] \cap other[b]]
OrWith(span, other) == [b \in DOMAIN span |-> span[b] \cup other[b]]
MinusWith(span, other) == [b \in DOMAIN span |-> span[b] \cap (Bits \ other[b])]

TestBit(span, pos) == span[pos \div Digits] \cap {pos % Digits} # {}
CountBits(span) == MapThenSumSet(LAMBDA b : Cardinality(span[b]), DOMAIN span)
CountZeros(span, n) == n - CountBits(span)
AnyBit(span) == \E b \in DOMAIN span : span[b] # {}
SameBits(span, other) == \A b \in DOMAIN span : span[b] = other[b]

\* The lowest bit of the first block that is not zero.
FindFirst(span, n) ==
    LET nonzero == {b \in DOMAIN span : span[b] # {}}
        first == Min(nonzero)
        bit == first * Digits + Min(span[first])
    IN  IF nonzero # {} /\ bit < n THEN bit ELSE NoPosition

\* The blocks before position pos and the bits before it in its block are skipped.
SkipTo(span, pos) ==
    [b \in DOMAIN span |->
        CASE b < pos \div Digits -> {}
          [] b = pos \div Digits -> span[b] \ LoSet(pos % Digits)
          [] OTHER -> span[b]]

FindNext(span, n, pos) == IF pos + 1 >= n THEN NoPosition ELSE FindFirst(SkipTo(span, pos + 1), n)

\* The complement, cut off at the end.
Zeros(span, n) == ClearTrailingBits([b \in DOMAIN span |-> Bits \ span[b]], n)
FindFirstZero(span, n) == FindFirst(Zeros(span, n), n)
FindNextZero(span, n, pos) ==
    IF pos + 1 >= n THEN NoPosition ELSE FindFirst(SkipTo(Zeros(span, n), pos + 1), n)

\* for_each_bit of the combined blocks: the bits of each word in ascending order.
ForEachBit(words, n) ==
    LET cut == ClearTrailingBits(words, n)
    IN  FlattenSeq([i \in 1..NumBlocks(n) |->
            LET bits == SetToSortSeq(cut[i - 1], <) IN [k \in DOMAIN bits |-> (i - 1) * Digits + bits[k]]])
=============================================================================
