----------------------------- MODULE MCKafkaWire -----------------------------
(* Every type of the protocol alone and between others, with the values at which
   its form changes.                                                         *)
EXTENDS KafkaWire

Limits(bits) == UNION {{2 ^ k - 1, 2 ^ k, -(2 ^ k), -(2 ^ k) - 1} : k \in 0 .. bits - 2} \cup {2 ^ (bits - 1) - 1, -(2 ^ (bits - 1))}
Unsigned(bits) == UNION {{2 ^ k - 1, 2 ^ k} : k \in 0 .. bits - 1} \cup {2 ^ bits - 1}
Text(n) == [i \in 1 .. n |-> (3 * i) % Byte]
Texts(S) == {Text(n) : n \in S}

Values(t) ==
    CASE t.type = "Int" -> LET bits == ByteBits * t.bytes IN Limits(bits) \cup {2 ^ (bits - 1), -(2 ^ (bits - 1)) - 1}
      [] t.type = "Boolean" -> BOOLEAN
      [] t.type = "String" -> Texts({0, 1, 5, 31, 32}) \cup {None}
      [] t.type \in {"Bytes", "CompactString"} -> Texts({0, 1, 2, 3, 14, 15, 16, 40}) \cup {None}
      [] t.type = "VarInt32" -> Limits(IntBits)
      [] t.type \in {"VarInt64", "Varint"} -> Limits(LongBits)
      [] t.type = "UnsignedVarInt32" -> Unsigned(IntBits)
      [] t.type = "TaggedFields" -> {<<>>, <<<<0, <<>>>>>>, <<<<0, Text(2)>>, <<5, Text(9)>>>>}
      [] t.type = "BitField" -> {{}, {0}, {3, 7}, {IntBits - 1}, 0 .. IntBits - 1}
      [] t.type \in {"Array", "CompactArray"} ->
           IF t.of.type = "String" THEN {<<>>, NoItems, <<None, Text(0)>>, <<Text(1), Text(2), Text(3)>>, <<Text(32)>>}
           ELSE {<<>>, <<1>>, <<-1, 0, 1>>, [i \in 1 .. 20 |-> i]}

Types == {Int8, Int16, Int32, Int64, Boolean, String, CompactString, Bytes, Varint, VarInt32, VarInt64, UnsignedVarInt32,
          TaggedFields, BitField, Array(Int32), Array(String), CompactArray(Int32), CompactArray(String)}

Message(schema, values) == [schema |-> schema, values |-> values]
\* A value alone; behind another and before one.
AllMessages ==
    UNION {{Message(<<t>>, <<v>>) : v \in Values(t)} : t \in Types}
    \cup UNION {{Message(<<Int32, t, Int16>>, <<7, v, -1>>) : v \in Values(t)} : t \in Types}
    \cup UNION {{Message(<<t, TaggedFields>>, <<v, <<>>>>) : v \in Values(t)} : t \in Types}
Rests == {<<>>, <<0>>, <<Byte - 1, 1>>}
==============================================================================
