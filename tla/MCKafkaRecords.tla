---------------------------- MODULE MCKafkaRecords ----------------------------
(* Every message format, compressed or not, with the broker's or the producer's
   timestamps; records about the sizes at which a varint grows, the first of a
   batch too large for it.                                                   *)
EXTENDS KafkaRecords

Record(k, v, h) == [key |-> k, value |-> v, headers |-> h]
Small == Record(-1, 1, <<>>)
Large == Record(2, 31, <<>>)
Headed == Record(0, -1, <<<<2, -1>>, <<0, 8>>>>)
Times == {0, Now - 1}

Mode(m, c, l, s, q, p) ==
    [magic |-> m, compression_type |-> c, batch_size |-> s, log_append |-> l, sequence |-> q, payloads |-> p]
Plain == {Small, Large}
AllModes ==
    {Mode(2, TRUE, TRUE, 125, MAX_INT - 1, {Small, Headed}), Mode(2, FALSE, FALSE, 90, MAX_INT, Plain)}
    \cup {Mode(0, c, FALSE, 90, -1, Plain) : c \in BOOLEAN} \cup {Mode(1, c, ~c, 90, -1, Plain) : c \in BOOLEAN}
    \cup {Mode(1, TRUE, FALSE, 120, -1, Plain)}
=============================================================================
