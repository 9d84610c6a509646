------------------------------ MODULE KafkaWire ------------------------------
(* The types of which the kafka-python layer composes requests and responses
   (protocol/types.py, protocol/struct.py): a message is written, the
   network delivers all or a part of it with what follows, and it is read.

   Abstractions: a byte is a number of ByteBits bits (KafkaVarints), a text the
   sequence of its encoded bytes, None a value no sequence of bytes equals, the
   dictionary of tagged fields the sequence of its items.                    *)
EXTENDS KafkaVarints, SequencesExt

CONSTANTS Messages,      \* pairs of a schema (a sequence of types) and an item for it
          Following      \* what may follow a message in the buffer

VARIABLES item,          \* the schema and the values of the message
          sent,          \* its bytes, or Raised
          received,      \* the bytes in the reader's buffer
          decoded        \* what it has read

vars == <<item, sent, received, decoded>>

None == <<-1>>
NoItems == <<None>>                 \* only where the items are text

Int8  == [type |-> "Int", bytes |-> 1]
Int16 == [type |-> "Int", bytes |-> 2]
Int32 == [type |-> "Int", bytes |-> 4]
Int64 == [type |-> "Int", bytes |-> 8]
Boolean == [type |-> "Boolean"]
String == [type |-> "String"]
CompactString == [type |-> "CompactString"]
Bytes == [type |-> "Bytes"]
CompactBytes == CompactString
Varint == [type |-> "Varint"]       \* of a record
Array(t) == [type |-> "Array", of |-> t]
CompactArray(t) == [type |-> "CompactArray", of |-> t]
VarInt32 == [type |-> "VarInt32"]
VarInt64 == [type |-> "VarInt64"]
UnsignedVarInt32 == [type |-> "UnsignedVarInt32"]
TaggedFields == [type |-> "TaggedFields"]
BitField == [type |-> "BitField"]

-----------------------------------------------------------------------------
(* encode *)

Byte == 2 ^ ByteBits
NotEncoded == <<>>

big_endian(value, n) == [i \in 1 .. n |-> (value \div Byte ^ (n - i)) % Byte]
Int_encode_any(n, value) == big_endian(value % 2 ^ (ByteBits * n), n)
Int_encode(n, value) ==
    IF value \in -(2 ^ (ByteBits * n - 1)) .. 2 ^ (ByteBits * n - 1) - 1
    THEN big_endian(value % 2 ^ (ByteBits * n), n) ELSE NotEncoded

\* A value behind its length, written as a Int of n bytes or compactly, one more than it is.
sized(length, value) == IF length = NotEncoded THEN NotEncoded ELSE length \o value
Compact_length(n) == UnsignedVarInt32_encode(n + 1)

All(encoded) == IF NotEncoded \in Range(encoded) THEN NotEncoded ELSE FlattenSeq(encoded)

tagged_fields_encode(tags) ==
    UnsignedVarInt32_encode(Len(tags)) \o
        FlattenSeq([i \in DOMAIN tags |->
            UnsignedVarInt32_encode(tags[i][1]) \o UnsignedVarInt32_encode(Len(tags[i][2])) \o tags[i][2]])

scalar_encode(t, v) ==
    CASE t.type = "Int" -> Int_encode(t.bytes, v)
      [] t.type = "Boolean" -> <<IF v THEN 1 ELSE 0>>
      [] t.type = "String" -> IF v = None THEN Int_encode(2, -1) ELSE sized(Int_encode(2, Len(v)), v)
      [] t.type = "Bytes" -> IF v = None THEN Int_encode(4, -1) ELSE sized(Int_encode(4, Len(v)), v)
      [] t.type = "CompactString" -> IF v = None THEN UnsignedVarInt32_encode(0) ELSE sized(Compact_length(Len(v)), v)
      [] t.type = "Varint" -> encode_varint(v)
      [] t.type = "VarInt32" -> VarInt32_encode(v)
      [] t.type = "VarInt64" -> VarInt64_encode(v)
      [] t.type = "UnsignedVarInt32" -> UnsignedVarInt32_encode(v)
      [] t.type = "TaggedFields" -> tagged_fields_encode(v)
      [] t.type = "BitField" -> big_endian(FoldSet(LAMBDA b, n : n + 2 ^ b, 0, v), 4)

\* Arrays are of scalars here: nested schemas repeat the same two rules.
null(t, v) == IF t.of.type = "String" THEN v = NoItems ELSE FALSE
encode(t, v) ==
    IF t.type \notin {"Array", "CompactArray"} THEN scalar_encode(t, v)
    ELSE LET items(length) == All(<<length>> \o [i \in DOMAIN v |-> scalar_encode(t.of, v[i])]) IN
         IF t.type = "Array" THEN IF null(t, v) THEN Int_encode(4, -1) ELSE items(Int_encode(4, Len(v)))
         ELSE IF null(t, v) THEN UnsignedVarInt32_encode(0) ELSE items(Compact_length(Len(v)))

schema_encode(schema, values) == All([i \in DOMAIN schema |-> encode(schema[i], values[i])])

-----------------------------------------------------------------------------
(* decode: from position pos of the buffer *)

signed(u, bits) == IF u >= 2 ^ (bits - 1) THEN u - 2 ^ bits ELSE u
Int_decode(n, bytes, pos) ==
    IF pos + n - 1 > Len(bytes) THEN Raised
    ELSE Read(signed(FoldSet(LAMBDA i, v : v + bytes[pos + i] * Byte ^ (n - 1 - i), 0, 0 .. n - 1), ByteBits * n), pos + n)

data_decode_short(length, less, bytes) ==
    IF length.raised THEN Raised
    ELSE IF length.value - less < 0 THEN Read(None, length.next)
    ELSE Read(SubSeq(bytes, length.next, Min({length.next + length.value - less - 1, Len(bytes)})), length.next + length.value - less)
\* Shorter than it says: buffer underrun.
data_decode(length, less, bytes) ==
    IF length.raised THEN Raised
    ELSE IF length.value - less < 0 THEN Read(None, length.next)
    ELSE IF length.next + length.value - less - 1 > Len(bytes) THEN Raised
    ELSE Read(SubSeq(bytes, length.next, length.next + length.value - less - 1), length.next + length.value - less)

\* What has been read, with one more.
Grown(read, r) == IF r.raised THEN Raised ELSE Read(Append(read.value, r.value), r.next)
repeatedly(step(_), length, n) ==
    FoldLeft(LAMBDA read, i : IF read.raised THEN Raised ELSE step(read), Read(<<>>, length.next), [i \in 1 .. n |-> i])

\* Tags rise; a value may be shorter than it says.
tag_value(read, tag, size, bytes) ==
    IF size.raised \/ (read.value # <<>> /\ tag.value <= Last(read.value)[1]) THEN Raised
    ELSE Read(Append(read.value, <<tag.value, SubSeq(bytes, size.next, Min({size.next + size.value - 1, Len(bytes)}))>>),
              Min({size.next + size.value, Len(bytes) + 1}))
tag_size(read, tag, bytes) ==
    IF tag.raised THEN Raised ELSE tag_value(read, tag, UnsignedVarInt32_decode(bytes, tag.next), bytes)
tag_decode(read, bytes) == tag_size(read, UnsignedVarInt32_decode(bytes, read.next), bytes)
tags_decode(count, bytes) ==
    IF count.raised THEN Raised ELSE repeatedly(LAMBDA read : tag_decode(read, bytes), count, count.value)
tagged_fields_decode(bytes, pos) == tags_decode(UnsignedVarInt32_decode(bytes, pos), bytes)

\* Signed or not, the bits are the same.
bits_of(read) ==
    IF read.raised THEN Raised
    ELSE Read({b \in 0 .. IntBits - 1 : ((read.value % 2 ^ IntBits) \div 2 ^ b) % 2 = 1}, read.next)
bit_field_decode(bytes, pos) == bits_of(Int_decode(4, bytes, pos))

boolean_decode(bytes, pos) == IF pos > Len(bytes) THEN Raised ELSE Read(bytes[pos] # 0, pos + 1)

scalar_decode(t, bytes, pos) ==
    CASE t.type = "Int" -> Int_decode(t.bytes, bytes, pos)
      [] t.type = "Boolean" -> boolean_decode(bytes, pos)
      [] t.type = "String" -> data_decode(Int_decode(2, bytes, pos), 0, bytes)
      [] t.type = "Bytes" -> data_decode(Int_decode(4, bytes, pos), 0, bytes)
      [] t.type = "CompactString" -> data_decode(UnsignedVarInt32_decode(bytes, pos), 1, bytes)
      [] t.type = "Varint" -> decode_varint(bytes, pos)
      [] t.type = "VarInt32" -> VarInt32_decode(bytes, pos)
      [] t.type = "VarInt64" -> VarInt64_decode(bytes, pos)
      [] t.type = "UnsignedVarInt32" -> UnsignedVarInt32_decode(bytes, pos)
      [] t.type = "TaggedFields" -> tagged_fields_decode(bytes, pos)
      [] t.type = "BitField" -> bit_field_decode(bytes, pos)

array_decode(t, length, less, bytes) ==
    IF length.raised THEN Raised
    ELSE IF length.value - less = -1 THEN Read(NoItems, length.next)
    ELSE repeatedly(LAMBDA read : Grown(read, scalar_decode(t, bytes, read.next)), length, length.value - less)

decode(t, bytes, pos) ==
    CASE t.type = "Array" -> array_decode(t.of, Int_decode(4, bytes, pos), 0, bytes)
      [] t.type = "CompactArray" -> array_decode(t.of, UnsignedVarInt32_decode(bytes, pos), 1, bytes)
      [] OTHER -> scalar_decode(t, bytes, pos)

field_decode(read, t, bytes) == IF read.raised THEN Raised ELSE Grown(read, decode(t, bytes, read.next))
schema_decode(schema, bytes) == FoldLeft(LAMBDA read, t : field_decode(read, t, bytes), Read(<<>>, 1), schema)

-----------------------------------------------------------------------------

Nothing == [raised |-> FALSE, value |-> <<>>, next |-> 0]

Init ==
    /\ item \in Messages
    /\ sent = NotEncoded /\ received = <<>> /\ decoded = Nothing

Encode ==
    /\ sent = NotEncoded
    /\ schema_encode(item.schema, item.values) # NotEncoded
    /\ sent' = schema_encode(item.schema, item.values)
    /\ UNCHANGED <<item, received, decoded>>

\* The whole message with what follows it, or its first bytes.
Deliver ==
    /\ sent # NotEncoded /\ received = <<>>
    /\ \/ \E rest \in Following : received' = sent \o rest
       \/ \E n \in 1 .. Len(sent) - 1 : received' = SubSeq(sent, 1, n)
    /\ UNCHANGED <<item, sent, decoded>>

Decode ==
    /\ received # <<>> /\ decoded = Nothing
    /\ decoded' = schema_decode(item.schema, received)
    /\ UNCHANGED <<item, sent, received>>

Next == Encode \/ Deliver \/ Decode
Spec == Init /\ [][Next]_vars

-----------------------------------------------------------------------------
(* Properties. *)

Bounded(i) == item.schema[i].type = "TaggedFields" => item.values[i] = <<>>

\* What is read is what was written, and reading ends where the message does, whatever follows it.
RoundTrip ==
    decoded # Nothing /\ Len(received) >= Len(sent) => decoded = Read(item.values, Len(sent) + 1)

\* A message that is cut is not read as another one - unless it ends in the value of a tagged field.
CutIsNoticed ==
    decoded # Nothing /\ Len(received) < Len(sent) /\ (\A i \in DOMAIN item.schema : Bounded(i)) => decoded = Raised

\* The size of a record's integer, as the record's length takes it into account, is that of its bytes.
VarintSized ==
    sent # NotEncoded /\ (\A i \in DOMAIN item.schema : item.schema[i] = Varint) =>
        Len(sent) = FoldLeft(LAMBDA n, v : n + size_of_varint(v), 0, item.values)

\* A message is refused exactly if a number is out of its type's range or a text too long for its prefix:
\* nothing is written modulo the width.
ScalarInRange(t, v) ==
    CASE t.type = "Int" -> v \in -(2 ^ (ByteBits * t.bytes - 1)) .. 2 ^ (ByteBits * t.bytes - 1) - 1
      [] t.type = "String" -> Len(v) < 2 ^ (2 * ByteBits - 1)
      [] OTHER -> TRUE
InRange(t, v) == IF t.type \in {"Array", "CompactArray"} THEN \A i \in DOMAIN v : ScalarInRange(t.of, v[i]) ELSE ScalarInRange(t, v)
Refused ==
    sent = NotEncoded => (schema_encode(item.schema, item.values) = NotEncoded
                            <=> \E i \in DOMAIN item.schema : ~InRange(item.schema[i], item.values[i]))
=============================================================================
