---------------------------------- MODULE Bits ----------------------------------
(***************************************************************************)
(* The bit twiddling of OOBase: Morton codes (include/OOBase/Morton.h),    *)
(* byte_swap() (include/OOBase/ByteSwap.h) and the portable forms in       *)
(* src/Builtins.cpp.  A word is the set of its bits that are 1; bit 0 is   *)
(* the lowest.                                                             *)
(***************************************************************************)
EXTENDS Integers, SequencesExt

CONSTANT Flips   \* how many bits of an input differ from those of 0 or of ~0

VARIABLES
  width,   \* 16, 32 or 64
  keys,    \* MortonValue<T,I>::valueX for the I that the compiler has got to
  x, y, z, \* the coordinates of a point ...
  word     \* ... and a word of that width

vars == <<width, keys, x, y, z, word>>

Bits(w) == 0 .. w - 1
Left(a, n, w) == {b + n : b \in a} \cap Bits(w)
Right(a, n) == {b - n : b \in {c \in a : c >= n}}
Low(a, n) == {b \in a : b < n}
Xor(a, b) == (a \ b) \cup (b \ a)

\* A bit of a - b is lent from if the next bit below in which a and b differ
\* is one of b.
Minus(a, b, w) ==
  LET lends(p) == \E q \in b \ a : q < p /\ \A r \in a \ b : r < q \/ r >= p
  IN  {p \in Bits(w) : ((p \in a) # (p \in b)) # lends(p)}

\* MortonMAX: 0111 (octal), doubled until it has the size of the word.
MortonMax(w) ==
  LET max[s \in {8, 16, 32, 64}] ==
        IF s = 8 THEN [value |-> {0, 3, 6}, offset |-> 9]
        ELSE LET half == max[s \div 2]
             IN  [value |-> Left(half.value, half.offset, w) \cup half.value, offset |-> 2 * half.offset]
  IN  max[w].value

\* MortonValue: the next key of a coordinate comes from the last by arithmetic.
NextKey(v, w) == Minus(v, MortonMax(w), w) \cap MortonMax(w)

\* The tables hold the keys of 0 .. 255; a y and a z lie one and two bits
\* further up than an x.
MortonLUT(axis, i) == Left(keys[i + 1], axis, width)

NumberOf(a) == FoldSet(LAMBDA b, sum : sum + 2 ^ b, 0, a)

\* The entry of a table for the n bits of a coordinate from bit m on.
Key(axis, c, m, n) == MortonLUT(axis, NumberOf(Low(Right(c, m), n)))

\* MortonEncode16(), 32() and 64(): what is above the table's eight bits goes
\* before the rest.  The 64 bits are moved by 48 and again by 24, so that
\* nothing is left of the coordinates' bits from 16 on.
Encode16 == Key(0, x, 0, 6) \cup Key(1, y, 0, 5) \cup Key(2, z, 0, 5)
LowBytes(m) == Key(0, x, m, 8) \cup Key(1, y, m, 8) \cup Key(2, z, m, 8)
Encode32 ==
  Left(Key(0, x, 8, 3) \cup Key(1, y, 8, 3) \cup Key(2, z, 8, 2), 24, 32) \cup LowBytes(0)
Encode64 ==
  LET high == Key(0, x, 16, 6) \cup Key(1, y, 16, 5) \cup Key(2, z, 16, 5)
  IN  Left(Left(high, 48, 64) \cup LowBytes(8), 24, 64) \cup LowBytes(0)
Encoded == CASE width = 16 -> Encode16 [] width = 32 -> Encode32 [] width = 64 -> Encode64

\* MortonDecode16(), 32() and 64() fold the bits together in steps of
\* c = (c ^ (c >> shift)) & mask.  A mask keeps runs of bits at a distance.
Mask(run, distance, from, w) == {b \in from .. w - 1 : (b - from) % distance < run}
Folds(w) ==
  CASE w = 16 -> <<<<2, Mask(2, 6, 0, 14)>>, <<4, Mask(4, 12, 0, 16)>>, <<8, Mask(8, 16, 0, 8)>>>>
    [] w = 32 -> <<<<2, Mask(2, 6, 0, 32)>>, <<4, Mask(4, 12, 0, 28)>>, <<8, Mask(8, 24, 0, 32)>>, <<16, Mask(16, 32, 0, 16)>>>>
    [] w = 64 -> <<<<2, Mask(2, 6, 0, 62)>>, <<4, Mask(4, 12, 0, 64)>>, <<8, Mask(8, 24, 0, 56)>>,
                   <<16, Mask(16, 48, 0, 64)>>, <<32, Mask(32, 64, 0, 32)>>>>
Decode(c) ==
  FoldLeft(LAMBDA d, step : Xor(d, Right(d, step[1])) \cap step[2], c \cap MortonMax(width), Folds(width))
DecodeX(c) == Decode(c)
DecodeY(c) == Decode(Right(c, 1))
DecodeZ(c) == Decode(Right(c, 2))

\* byte_swap_2(), 4() and 8() where there is no instruction.
Swapped2(v) == Left(Low(v, 8), 8, 16) \cup Right(v, 8)
Halves4(v) == Left(Low(v, 16), 16, 32) \cup Right(v, 16)
Bytes4(v) ==
  Left(v \cap Mask(8, 16, 0, 32), 8, 32) \cup Right(v \cap Mask(8, 16, 8, 32), 8)
Swapped4(v) == Bytes4(Halves4(Low(v, 32)))
Swapped8(v) == Left(Swapped4(v), 32, 64) \cup Swapped4(Right(v, 32))
ByteSwapped == CASE width = 16 -> Swapped2(word) [] width = 32 -> Swapped4(word) [] width = 64 -> Swapped8(word)

\* ffs(): v & (~v + 1), then which of the masks of odd bits, odd pairs ... it hits.
Ffs(v) ==
  LET lowest == v \cap Minus({}, v, 16)
      hit(k) == IF lowest \cap Mask(2 ^ k, 2 ^ (k + 1), 2 ^ k, 16) # {} THEN 2 ^ k ELSE 0
  IN  hit(0) + hit(1) + hit(2) + hit(3)

-----------------------------------------------------------------------------
\* The bits that a coordinate has room for: x, y, z in turn.
Room(first) == {b \in Bits(width) : first + 3 * b < width}

Init ==
  /\ width \in {16, 32, 64}
  /\ keys = <<{}>> /\ x = {} /\ y = {} /\ z = {} /\ word = {}

Complete == Len(keys) = 256

Instantiate == ~Complete /\ keys' = Append(keys, NextKey(Last(keys), width)) /\ UNCHANGED <<width, x, y, z, word>>

\* The inputs: from 0 or ~0 each, Flips bits are turned over.
Ones(first) == Low(Room(first), 16)
Choose ==
  /\ Complete /\ x = {} /\ y = {} /\ z = {} /\ word = {}
  /\ x' \in {{}, Ones(0)} /\ y' \in {{}, Ones(1)} /\ z' \in {{}, Ones(2)} /\ word' \in {{}, Bits(width)}
  /\ UNCHANGED <<width, keys>>

Distance(a, ones) ==
  IF Cardinality(a) < Cardinality(Xor(a, ones)) THEN Cardinality(a) ELSE Cardinality(Xor(a, ones))
Flipped(a, b) == Xor(a, {b})

Flip ==
  /\ Complete
  /\ Distance(x, Ones(0)) + Distance(y, Ones(1)) + Distance(z, Ones(2)) + Distance(word, Bits(width)) < Flips
  /\ \/ \E b \in Room(0) : x' = Flipped(x, b) /\ UNCHANGED <<y, z, word>>
     \/ \E b \in Room(1) : y' = Flipped(y, b) /\ UNCHANGED <<x, z, word>>
     \/ \E b \in Room(2) : z' = Flipped(z, b) /\ UNCHANGED <<x, y, word>>
     \/ \E b \in Bits(width) : word' = Flipped(word, b) /\ UNCHANGED <<x, y, z>>
  /\ UNCHANGED <<width, keys>>

Next == Instantiate \/ Choose \/ Flip

\* What is interleaved comes apart again: the tables made by subtraction, the
\* shifts and the masks of three widths agree; in 64 bits, for coordinates of
\* 16 bits only.
PointsComeBack ==
  Complete /\ (width = 64 => x \cup y \cup z \subseteq Bits(16)) =>
    \E c \in {Encoded} : DecodeX(c) = x /\ DecodeY(c) = y /\ DecodeZ(c) = z

\* The bytes of a word change places end for end, whatever its width, and ffs()
\* finds the lowest bit.
BytesTurnRound ==
  /\ ByteSwapped = {8 * ((width \div 8) - 1 - (b \div 8)) + (b % 8) : b \in word}
  /\ width = 16 /\ word # {} => Ffs(word) \in word /\ Low(word, Ffs(word)) = {}
=============================================================================
