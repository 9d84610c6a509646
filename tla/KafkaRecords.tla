----------------------------- MODULE KafkaRecords -----------------------------
(* Record batches of the kafka-python layer (record/): a producer appends
   records to a MemoryRecordsBuilder of message format 0, 1 or 2 and closes it, a
   broker stores the batch, and a consumer reads a fetched part of the log, cut
   anywhere, through MemoryRecords.

   Abstractions: of keys, values and headers the lengths, -1 for None; sizes in
   bytes are exact, with the varints of KafkaVarints; a checksum is the number of
   bytes it was taken over; a compressed batch has a chosen size.            *)
EXTENDS KafkaVarints, SequencesExt

CONSTANTS Timestamps,    \* of records; all before Now
          Modes,         \* [magic, compression_type : BOOLEAN, batch_size, log_append : BOOLEAN, sequence,
                         \*  payloads : [key, value : length or -1, headers : pairs of lengths]]
          MaxRecords        \* appended in all

VARIABLES b,             \* the MemoryRecordsBuilder and the builder in it
          appended,      \* what has been appended to it
          log,           \* batches the broker has stored, with what a consumer is to read of them
          buffer,        \* fetched: batches, of which the last may have been cut, and its length
          reader,        \* MemoryRecords over it
          mode

vars == <<b, appended, log, buffer, reader, mode>>

HEADER_STRUCT == 61
LOG_OVERHEAD == 12
RECORD_OVERHEAD_V0 == 14
RECORD_OVERHEAD_V1 == 22
MIN_SLICE == LOG_OVERHEAD + RECORD_OVERHEAD_V0
\* length and offset as int, timestamp as long, attributes: 21 bytes in the code
MAX_RECORD_OVERHEAD == 2 * Groups(IntBits) + Groups(LongBits) + 1
MAX_INT == 2 ^ (IntBits - 1) - 1
Now == 2 ^ (LongBits - 2)

-----------------------------------------------------------------------------
(* Sizes. *)

sized(n) == IF n = -1 THEN 1 ELSE size_of_varint(n) + n
size_of_headers(headers) ==
    FoldLeft(LAMBDA n, h : n + size_of_varint(h[1]) + h[1] + sized(h[2]), size_of_varint(Len(headers)), headers)
size_of(p) == sized(p.key) + sized(p.value) + size_of_headers(p.headers)
size_of_body(offset, delta, p) == 1 + size_of_varint(offset) + size_of_varint(delta) + size_of(p)

Length(n) == IF n = -1 THEN 0 ELSE n
record_overhead(magic) == IF magic = 0 THEN RECORD_OVERHEAD_V0 ELSE RECORD_OVERHEAD_V1
record_size(magic, p) == record_overhead(magic) + Length(p.key) + Length(p.value)

estimate_without_overhead(p) == HEADER_STRUCT + size_of(p)
estimate_size_in_bytes(p) ==
    IF mode.magic = 2 THEN HEADER_STRUCT + MAX_RECORD_OVERHEAD + size_of(p)
    ELSE LOG_OVERHEAD + record_size(mode.magic, p)
           + IF mode.compression_type THEN LOG_OVERHEAD + record_overhead(mode.magic) ELSE 0

-----------------------------------------------------------------------------
(* MemoryRecordsBuilder. *)

log_end == IF log = <<>> THEN 0 ELSE Last(log).next_offset
NewBuilder(magic) ==
    [records |-> <<>>, first_timestamp |-> -1, max_timestamp |-> -1, size |-> IF magic = 2 THEN HEADER_STRUCT ELSE 0]

\* A record takes its place unless the batch has no room for it; the first one always.
has_room_before(required) == b.size <= mode.batch_size
has_room(required) == required + b.size <= mode.batch_size
append_default(timestamp, p) ==
    LET first    == IF b.records = <<>> THEN timestamp ELSE b.first_timestamp
        offset   == Len(b.records)
        length   == size_of_body(offset, timestamp - first, p)
        required == length + size_of_varint(length)
    IN  /\ b.records = <<>> \/ has_room(required)
        /\ b' = [b EXCEPT !.records = Append(@, [length |-> length, timestamp_delta |-> timestamp - first, offset_delta |-> offset, payload |-> p]),
                          !.first_timestamp = first,
                          !.max_timestamp = IF @ < timestamp THEN timestamp ELSE @,
                          !.size = @ + required]

message(offset, timestamp, p) ==
    [offset |-> offset, timestamp |-> IF mode.magic = 0 THEN -1 ELSE timestamp, payload |-> p,
     size |-> LOG_OVERHEAD + record_size(mode.magic, p)]
append_legacy(timestamp, p) ==
    LET m == message(Len(b.records), timestamp, p)
    IN  /\ p.headers = <<>>
        /\ m.offset = 0 \/ b.size + m.size < mode.batch_size
        /\ b' = [b EXCEPT !.records = Append(@, m), !.size = @ + m.size]

\* Producer, broker and consumer share nothing but the log: they take turns.
Fetched == buffer.batches # <<>>
append ==
    /\ ~Fetched /\ log_end + Len(b.records) < MaxRecords
    /\ \E timestamp \in Timestamps, p \in mode.payloads :
          /\ IF mode.magic = 2 THEN append_default(timestamp, p) ELSE append_legacy(timestamp, p)
          /\ appended' = Append(appended, [timestamp |-> IF mode.magic = 0 THEN -1 ELSE timestamp, payload |-> p])
    /\ UNCHANGED <<log, buffer, reader, mode>>

\* What the records take uncompressed, and what a compressor may make of them.
Outcomes(n) == IF mode.compression_type THEN {n \div 2, n + 5} ELSE {n}

\* As the batch is drained, before it is closed; for formats without a producer an error, not done.
set_producer_state == mode.sequence
built_default(compressed) ==
    LET data == b.size - HEADER_STRUCT
        smaller == compressed < data
    IN  [magic |-> 2, base_offset |-> 0, last_offset_delta |-> Len(b.records) - 1, first_timestamp |-> b.first_timestamp,
         max_timestamp |-> b.max_timestamp, log_append |-> FALSE, compressed |-> smaller, base_sequence |-> set_producer_state,
         records_count |-> Len(b.records), records |-> b.records,
         size |-> HEADER_STRUCT + IF smaller THEN compressed ELSE data,
         crc |-> HEADER_STRUCT + IF smaller THEN compressed ELSE data]

\* Modulo MAX_INT + 1, in additions that do not overflow.
last_sequence_without_end(batch) == batch.base_sequence + batch.last_offset_delta
last_sequence(batch) ==
    IF batch.base_sequence > MAX_INT - batch.last_offset_delta
    THEN batch.last_offset_delta - (MAX_INT - batch.base_sequence) - 1
    ELSE batch.base_sequence + batch.last_offset_delta

single(m) == [magic |-> mode.magic, offset |-> m.offset, timestamp |-> m.timestamp, log_append |-> FALSE, compressed |-> FALSE,
              records |-> <<m>>, size |-> m.size, crc |-> m.size]
wrapper(compressed) ==
    LET size == LOG_OVERHEAD + record_overhead(mode.magic) + compressed
    IN  [magic |-> mode.magic, offset |-> 0, timestamp |-> 0, log_append |-> FALSE, compressed |-> TRUE,
         records |-> b.records, size |-> size, crc |-> size]
built_legacy(compressed) ==
    IF mode.compression_type THEN <<wrapper(compressed)>> ELSE [i \in DOMAIN b.records |-> single(b.records[i])]

\* close and, by then in a request, the broker: it gives offsets and, where the topic says so, timestamps.
stored_default(batch) ==
    [batch EXCEPT !.base_offset = log_end, !.log_append = mode.log_append,
                  !.max_timestamp = IF mode.log_append THEN Now ELSE @]
stored_legacy(s) ==
    LET stamped == [s EXCEPT !.log_append = mode.log_append /\ s.magic = 1, !.timestamp = IF mode.log_append /\ s.magic = 1 THEN Now ELSE @]
        last == Last(s.records).offset
    IN  IF s.magic = 0 /\ s.compressed
        THEN [stamped EXCEPT !.offset = log_end + last, !.records = [i \in DOMAIN @ |-> [@[i] EXCEPT !.offset = log_end + @]]]
        ELSE [stamped EXCEPT !.offset = log_end + last]

\* What a consumer is to read: records i to j of those appended.
due(i, j) ==
    [k \in 1 .. j - i + 1 |->
        [offset |-> log_end + i + k - 2, payload |-> appended[i + k - 1].payload,
         timestamp |-> IF mode.log_append /\ mode.magic > 0 THEN Now ELSE appended[i + k - 1].timestamp]]

close ==
    /\ b.records # <<>> /\ ~Fetched
    /\ \E compressed \in Outcomes(IF mode.magic = 2 THEN b.size - HEADER_STRUCT ELSE b.size) :
          LET sets == IF mode.magic = 2 THEN <<stored_default(built_default(compressed))>>
                      ELSE LET l == built_legacy(compressed) IN [i \in DOMAIN l |-> stored_legacy(l[i])]
          IN  log' = log \o [i \in DOMAIN sets |->
                [batch |-> sets[i], dense |-> TRUE, read |-> IF Len(sets) = 1 THEN due(1, Len(appended)) ELSE due(i, i),
                 next_offset |-> log_end + IF Len(sets) = 1 THEN Len(appended) ELSE i]]
    /\ b' = NewBuilder(mode.magic) /\ appended' = <<>>
    /\ UNCHANGED <<buffer, reader, mode>>

\* Compaction, once: a record goes, and offsets stay (and, here, the size).
Compact ==
    /\ ~Fetched /\ b.records = <<>> /\ \A i \in DOMAIN log : log[i].dense
    /\ \E i \in DOMAIN log : \E k \in DOMAIN log[i].batch.records :
          LET s == log[i].batch
              rest == RemoveAt(s.records, k)
          IN  /\ s.magic = 2 \/ rest # <<>>
              /\ log' = [log EXCEPT ![i] =
                    [dense |-> FALSE, read |-> RemoveAt(@.read, k), next_offset |-> @.next_offset,
                     batch |-> IF s.magic = 2 THEN [s EXCEPT !.records = rest, !.records_count = @ - 1]
                               ELSE [s EXCEPT !.records = rest, !.offset = Last(RemoveAt(log[i].read, k)).offset]]]
    /\ UNCHANGED <<b, appended, buffer, reader, mode>>

-----------------------------------------------------------------------------
(* MemoryRecords. *)

NewReader == [pos |-> 0, next_slice |-> 0, remaining |-> -1, out |-> <<>>, corrupt |-> FALSE]

\* The batch that begins at pos, if all of it is in the buffer; else what remains is known.
bytes_of(batches) == FoldLeft(LAMBDA n, s : n + s.batch.size, 0, batches)
begins_at(buf, pos) == CHOOSE i \in DOMAIN buf.batches : bytes_of(SubSeq(buf.batches, 1, i - 1)) = pos
cached_header(buf, r) ==
    IF buf.length - r.pos < LOG_OVERHEAD THEN [r EXCEPT !.next_slice = 0, !.remaining = buf.length - r.pos]
    ELSE [r EXCEPT !.pos = @ + buf.batches[begins_at(buf, r.pos)].batch.size, !.next_slice = begins_at(buf, r.pos)]
cached(buf, r) ==
    LET remaining == buf.length - r.pos
        i == begins_at(buf, r.pos)
        whole == remaining >= LOG_OVERHEAD /\ r.pos + buf.batches[i].batch.size <= buf.length
    IN  IF whole THEN [r EXCEPT !.pos = @ + buf.batches[i].batch.size, !.next_slice = i]
        ELSE [r EXCEPT !.next_slice = 0, !.remaining = remaining]

\* A fetch response ends where the broker's limit is, within a batch or behind one.
Fetch ==
    /\ log # <<>> /\ b.records = <<>> /\ ~Fetched
    /\ \E i \in DOMAIN log, cut \in {1, LOG_OVERHEAD, MIN_SLICE, Last(log).batch.size} :
          /\ cut <= Last(log).batch.size
          /\ buffer' = [batches |-> SubSeq(log, i, Len(log)), length |-> bytes_of(SubSeq(log, i, Len(log) - 1)) + cut]
    /\ reader' = cached(buffer', NewReader)
    /\ UNCHANGED <<b, appended, log, mode>>

\* To the end and back: the position is left as it was.
to_the_end(r) ==
    FoldLeft(LAMBDA y, i : IF y.remaining = -1 THEN cached(buffer, y) ELSE y, r, [i \in 1 .. Len(buffer.batches) + 1 |-> i])
valid_bytes ==
    /\ Fetched /\ reader.remaining = -1 /\ ~reader.corrupt
    /\ reader' = [reader EXCEPT !.remaining = to_the_end(reader).remaining]
    /\ UNCHANGED <<b, appended, log, buffer, mode>>

\* Records of a batch of format 2: each is as long as it says, and none is left.
read_default(batch) ==
    [k \in 1 .. batch.records_count |->
        LET m == batch.records[k] IN
        [offset |-> batch.base_offset + m.offset_delta, payload |-> m.payload,
         timestamp |-> IF batch.log_append THEN batch.max_timestamp ELSE batch.first_timestamp + m.timestamp_delta]]
lengths_agree(batch) ==
    /\ Len(batch.records) = batch.records_count
    /\ \A k \in DOMAIN batch.records :
          LET m == batch.records[k] IN m.length = size_of_body(m.offset_delta, m.timestamp_delta, m.payload)

\* Of formats 0 and 1: those in a wrapper of format 1 have offsets relative to its own.
read_legacy_as_they_are(s) ==
    [k \in DOMAIN s.records |-> [offset |-> s.records[k].offset, payload |-> s.records[k].payload, timestamp |-> s.timestamp]]
read_legacy(s) ==
    LET base == IF s.magic > 0 THEN s.offset - Last(s.records).offset ELSE -1
    IN  IF s.compressed
        THEN [k \in DOMAIN s.records |->
                LET m == s.records[k] IN
                [offset |-> IF base >= 0 THEN m.offset + base ELSE m.offset, payload |-> m.payload,
                 timestamp |-> IF s.log_append THEN s.timestamp ELSE m.timestamp]]
        ELSE <<[offset |-> s.offset, payload |-> s.records[1].payload, timestamp |-> s.timestamp]>>

next_batch ==
    /\ reader.next_slice # 0 /\ ~reader.corrupt
    /\ LET batch == buffer.batches[reader.next_slice].batch
           good  == batch.size >= MIN_SLICE /\ batch.crc = batch.size /\ (batch.magic = 2 => lengths_agree(batch))
           got   == IF batch.magic = 2 THEN read_default(batch) ELSE read_legacy(batch)
       IN  /\ UNCHANGED buffer
           /\ reader' = IF good THEN [cached(buffer, reader) EXCEPT !.out = @ \o got] ELSE [reader EXCEPT !.corrupt = TRUE]
    /\ UNCHANGED <<b, appended, log, mode>>

-----------------------------------------------------------------------------

Init ==
    /\ mode \in Modes
    /\ b = NewBuilder(mode.magic) /\ appended = <<>>
    /\ log = <<>> /\ buffer = [batches |-> <<>>, length |-> 0] /\ reader = NewReader

Next == append \/ close \/ Compact \/ Fetch \/ valid_bytes \/ next_batch
Spec == Init /\ [][Next]_vars

-----------------------------------------------------------------------------
(* Properties. *)

Whole ==
    LET fits == {j \in DOMAIN buffer.batches : bytes_of(SubSeq(buffer.batches, 1, j)) <= buffer.length}
    IN  SubSeq(buffer.batches, 1, Cardinality(fits))

\* The builder's size is that of its records, and a reader stays within what was fetched.
TypeOK ==
    /\ b.size \in 0 .. 2 ^ LongBits /\ b.max_timestamp >= b.first_timestamp
    /\ reader.pos \in 0 .. buffer.length /\ reader.next_slice \in 0 .. Len(buffer.batches)
    /\ reader.remaining \in -1 .. buffer.length

\* A consumer reads of every whole batch, whatever its format, compression or compaction, the records
\* with the keys, values, offsets and timestamps the log has, in order, and of a batch that was cut nothing.
ReadBack ==
    LET due_now == FlattenSeq([i \in DOMAIN Whole |-> Whole[i].read])
    IN  /\ ~reader.corrupt
        /\ IsPrefix(reader.out, due_now)
        /\ reader.next_slice = 0 /\ Fetched => reader.out = due_now

\* What the fetcher counts as read is what it could read, whenever it asks.
ValidBytes == reader.remaining # -1 => buffer.length - reader.remaining = bytes_of(Whole)

\* No batch outgrows the limit but by its only record.
WithinBatchSize == Len(b.records) > 1 => b.size <= mode.batch_size

\* "the upper bound estimate on the size of record": the producer refuses records by it, and makes a
\* batch of that size for a record that is larger than batch_size.
Estimated ==
    /\ mode.magic = 2 => \A i \in DOMAIN b.records :
          LET r == b.records[i] IN HEADER_STRUCT + r.length + size_of_varint(r.length) <= estimate_size_in_bytes(r.payload)
    /\ mode.magic < 2 => \A i \in DOMAIN b.records : b.records[i].size <= estimate_size_in_bytes(b.records[i].payload)
    /\ \A i \in DOMAIN log :
          LET batch == log[i].batch IN
          batch.magic = 2 /\ batch.last_offset_delta = 0 /\ batch.records # <<>> => batch.size <= estimate_size_in_bytes(batch.records[1].payload)

\* Sequence numbers go on from 0 after the greatest.
SequencesWrap ==
    \A i \in DOMAIN log :
        LET batch == log[i].batch IN
        batch.magic = 2 => (batch.base_sequence # -1 => last_sequence(batch) = (batch.base_sequence + batch.last_offset_delta) % (MAX_INT + 1))
=============================================================================
