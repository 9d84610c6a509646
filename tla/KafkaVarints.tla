---------------------------- MODULE KafkaVarints ----------------------------
(* The variable-length integers of the kafka-python layer: those of records
   (record/util.py) and those of the protocol (protocol/types.py).

   A byte has ByteBits bits, 8 in the code: of a varint's byte one says whether
   another follows.  All widths and limits are the code's, expressed by ByteBits,
   so that every boundary is met with numbers that TLC can hold.             *)
EXTENDS Integers, Sequences, FiniteSetsExt

CONSTANT ByteBits

GroupBits == ByteBits - 1
More      == 2 ^ GroupBits        \* 0x80
IntBits   == 4 * ByteBits
LongBits  == 8 * ByteBits

Groups(bits) == (bits + GroupBits - 1) \div GroupBits

\* (value << 1) ^ (value >> 63), and back.
zigzag(value)   == IF value < 0 THEN -2 * value - 1 ELSE 2 * value
unzigzag(value) == IF value % 2 = 0 THEN value \div 2 ELSE -(value \div 2) - 1

\* The groups of a number, the lowest first; a byte but the last has More.
in_groups(value) ==
    LET n == CHOOSE k \in 1 .. Groups(LongBits) : value < More ^ k /\ (k > 1 => value >= More ^ (k - 1))
    IN  [i \in 1 .. n |-> ((value \div More ^ (i - 1)) % More) + (IF i < n THEN More ELSE 0)]

Raised == [raised |-> TRUE]
Read(value, next) == [raised |-> FALSE, value |-> value, next |-> next]

\* What the bytes from pos on say, if a group among the first n of them is the last one.
from_groups(bytes, pos, n) ==
    LET lasts == {i \in pos .. pos + n - 1 : IF i > Len(bytes) THEN FALSE ELSE bytes[i] < More}
        last  == Min(lasts)
    IN  IF lasts = {} THEN Raised
        ELSE Read(FoldSet(LAMBDA i, v : v + (bytes[i] % More) * More ^ (i - pos), 0, pos .. last), last + 1)

-----------------------------------------------------------------------------
(* record/util.py *)

encode_varint(value) == in_groups(zigzag(value))

size_of_unsigned_varint(value) ==
    LET enough == {i \in 1 .. (LongBits - 1) \div GroupBits : value < More ^ i}
    IN  IF enough = {} THEN Groups(LongBits) ELSE Min(enough)
size_of_varint(value) ==
    LET z == zigzag(value)
        enough == {i \in 1 .. (LongBits - 1) \div GroupBits : z < More ^ i}
    IN  IF enough = {} THEN Groups(LongBits) ELSE Min(enough)

Unzigzagged(read) == IF read.raised THEN Raised ELSE Read(unzigzag(read.value), read.next)
decode_varint(bytes, pos) == Unzigzagged(from_groups(bytes, pos, Groups(LongBits)))

-----------------------------------------------------------------------------
(* protocol/types.py *)

VarInt32_encode(value) == in_groups(zigzag(value) % 2 ^ IntBits)
VarInt32_decode_28(bytes, pos) == Unzigzagged(from_groups(bytes, pos, (IntBits - 1) \div GroupBits))
VarInt32_decode(bytes, pos) == Unzigzagged(from_groups(bytes, pos, (IntBits - 1) \div GroupBits + 1))

VarInt64_encode(value) == in_groups(zigzag(value) % 2 ^ LongBits)
VarInt64_decode(bytes, pos) == Unzigzagged(from_groups(bytes, pos, (LongBits - 1) \div GroupBits + 1))

\* By way of the signed ones.
UnsignedVarInt32_encode(value) == VarInt32_encode(unzigzag(value))
Zigzagged(read) == IF read.raised THEN Raised ELSE Read(zigzag(read.value), read.next)
UnsignedVarInt32_decode(bytes, pos) == Zigzagged(VarInt32_decode(bytes, pos))
=============================================================================
