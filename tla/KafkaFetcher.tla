---------------------------- MODULE KafkaFetcher ----------------------------
(* The fetch path of the kafka-python consumer: consumer/fetcher.py with the
   positions of consumer/subscription_state.py, the poll loop of
   consumer/group.py and the committed offsets of coordinator/consumer.py.

   One consumer, one broker that leads every partition.  The application thread
   makes calls and runs poll step by step; responses are handled while it polls
   the client or, in a consumer group, at any time by the heartbeat thread.

   Abstractions: a log is a prefix of Batches, cut at both ends; sizes and
   deserialisation are left out, a record that cannot be unpacked is in "bad";
   time is the nondeterminism of when a backoff or a timeout is over.        *)
EXTENDS Integers, Sequences, FiniteSets, SequencesExt, TLC

CONSTANTS Partition,
          Batches,         \* the batches of each log, in order of their offsets
          DefaultReset,    \* auto_offset_reset: "earliest", "latest" or "none"
          ReadCommitted,   \* isolation_level
          Modes,           \* how a consumer is used: group_id or not, iterator or poll, its partitions
                           \* and how many calls and rebalances there are, and the batches logged before
          MaxRecords,      \* max_poll_records
          MaxEpoch,        \* FetchMetadata.MAX_EPOCH
          MaxResets,       \* ListOffsets requests in flight
          Targets,         \* the offsets seeks and other members go to
          MaxFaults        \* lost connections, evicted sessions, cut logs

ASSUME FetcherAssumption ==
    /\ MaxRecords \in Nat \ {0} /\ MaxEpoch \in Nat \ {0}
    /\ MaxResets \in Nat /\ MaxFaults \in Nat
    /\ DefaultReset \in {"earliest", "latest", "none"}
    /\ ReadCommitted \in BOOLEAN
    /\ Modes \subseteq [group : BOOLEAN, iterates : BOOLEAN, parts : SUBSET Partition, calls : Nat,
                logged : 0 .. Len(Batches)]

VARIABLES assignment,   \* SubscriptionState: a TopicPartitionState per assigned partition
          call,         \* where the application thread is, and what poll has collected and will fetch
          completed,    \* _completed_fetches, unparsed
          current,      \* _next_partition_records
          pending_error,\* _next_in_line_exception_metadata, _cached_list_offsets_exception
          session,      \* FetchSessionHandler of the broker
          wire,         \* the fetch in flight
          resets,       \* ListOffsets requests in flight
          checked,      \* the resets the heartbeat thread is about to apply
          offset_fetches, \* _offset_fetch_futures by the partitions asked for
          broker,       \* the broker's fetch session
          log,          \* per partition, the first and last batch there are
          committed,    \* the group's committed offsets
          expected,     \* the offset the application is due next (history)
          mode,         \* with a group there is a heartbeat thread; the partitions to consume
          budget

fetcher == <<completed, current, pending_error>>
network == <<session, wire, broker>>
lookups == <<resets, checked, offset_fetches>>
vars == <<assignment, call, fetcher, network, lookups, log, committed, expected, mode, budget>>

NoOffset == -1
Overridden == -2         \* of "expected": a reset has replaced a later choice
End == IF Batches = <<>> THEN 0 ELSE Last(Batches).next
Offset == 0 .. End
ASSUME TargetsAssumption == Targets \subseteq Offset
Strategy == {"earliest", "latest"}

-----------------------------------------------------------------------------
(* Logs, and what of them an application may see. *)

\* A transaction is decided by the first marker of its producer behind it.
Aborted(i) ==
    /\ Batches[i].kind = "txn"
    /\ \E j \in i + 1 .. Len(Batches) :
          /\ Batches[j].kind = "abort" /\ Batches[j].producer = Batches[i].producer
          /\ \A k \in i + 1 .. j - 1 : Batches[k].kind = "commit" => Batches[k].producer # Batches[i].producer

Visible == UNION {Batches[i].records : i \in {j \in DOMAIN Batches :
                     Batches[j].kind \in {"plain", "txn"} /\ ~(ReadCommitted /\ Aborted(j))}}

Due(from, upto) == {o \in Visible : from <= o /\ o < upto}

\* Broker: the last stable batch, behind which a transaction is still open.
Stable(n) ==
    IF ~ReadCommitted THEN n
    ELSE Max({s \in 0 .. n : \A i \in 1 .. s : Batches[i].kind = "txn" =>
                 \E j \in i + 1 .. n : Batches[j].kind \in {"abort", "commit"}
                                       /\ Batches[j].producer = Batches[i].producer})
StartOffset(p) == IF log[p].first > Len(Batches) THEN End ELSE Batches[log[p].first].base
EndOffset(p) == IF Stable(log[p].last) = 0 THEN 0 ELSE Batches[Stable(log[p].last)].next

-----------------------------------------------------------------------------
(* SubscriptionState and TopicPartitionState. *)

TopicPartitionState == [paused |-> FALSE, position |-> NoOffset, strategy |-> "none", retry |-> "now"]

has_valid_position(s) == s.position # NoOffset
awaiting_reset(s) == s.strategy # "none"
is_missing_position(s) == ~has_valid_position(s) /\ ~awaiting_reset(s)
is_assigned(p) == p \in DOMAIN assignment

\* Mutant: a paused partition counts as fetchable.
fetchable_though_paused(s) == has_valid_position(s)
state_is_fetchable(s) == ~s.paused /\ has_valid_position(s)
is_fetchable(p) == is_assigned(p) /\ state_is_fetchable(assignment[p])
has_all_fetch_positions == \A p \in DOMAIN assignment : has_valid_position(assignment[p])
missing_fetch_positions == {p \in DOMAIN assignment : is_missing_position(assignment[p])}
partitions_needing_reset(a) == {p \in DOMAIN a : awaiting_reset(a[p]) /\ a[p].retry = "now"}

\* Mutant: a reset that is asked for stays so.
seek_keeping_reset(s, offset) == [s EXCEPT !.position = offset, !.retry = "now"]
seek_state(s, offset) == [s EXCEPT !.position = offset, !.strategy = "none", !.retry = "now"]
reset_state(s, strategy) == [s EXCEPT !.strategy = strategy, !.position = NoOffset, !.retry = "now"]

reset_missing_positions(a) ==
    [p \in DOMAIN a |-> IF is_missing_position(a[p]) THEN reset_state(a[p], DefaultReset) ELSE a[p]]

set_reset_pending(a, parts) ==
    [p \in DOMAIN a |-> IF p \in parts THEN [a[p] EXCEPT !.retry = "later"] ELSE a[p]]

\* reset_failed raises a KeyError for a partition that is no longer assigned;
\* the retry time it sets is no earlier than the one that is pending.
reset_failed(a, parts) == set_reset_pending(a, parts)

assign_from_user(parts) ==
    [p \in parts |-> IF is_assigned(p) THEN assignment[p] ELSE TopicPartitionState]

assign_from_subscribed(parts) == [p \in parts |-> TopicPartitionState]

all_consumed_offsets ==
    [p \in {q \in DOMAIN assignment : has_valid_position(assignment[q])} |-> assignment[p].position]

-----------------------------------------------------------------------------
(* PartitionRecords: a response being unpacked, record by record. *)

NoRecords == [p |-> "none"]

\* One batch of _unpack_records.  acc: the offsets yielded so far, the next
\* fetch offset, the aborted transactions not yet met, the producers inside one,
\* and whether a record could not be unpacked.
UnpackBatch(acc, b) ==
    LET met == IF ReadCommitted /\ b.producer # 0
               THEN {t \in acc.aborted : t.first_offset < b.next} ELSE {}
        ids == acc.ids \cup {t.producer : t \in met}
        seen == [acc EXCEPT !.aborted = @ \ met,
                            !.ids = IF b.kind = "abort" THEN ids \ {b.producer} ELSE ids]
        good == IF b.bad = {} THEN b.records
                ELSE {o \in b.records : \A x \in b.bad : o < x}
    IN  IF acc.bad THEN acc
        ELSE IF b.kind \in {"abort", "commit"} \/ (b.kind = "txn" /\ b.producer \in ids)
        THEN [seen EXCEPT !.next = b.next]
        ELSE [seen EXCEPT !.out = @ \o SetToSortSeq(good, LAMBDA x, y : x < y),
                          !.next = IF b.bad = {} THEN b.next
                                   ELSE IF good = {} THEN acc.next ELSE Max(good) + 1,
                          !.bad = b.bad # {}]

\* Offsets before the one asked for are dropped.
_unpack_records(fetch) ==
    LET acc == FoldLeft(UnpackBatch,
                        [out |-> <<>>, next |-> fetch.offset, aborted |-> fetch.aborted, ids |-> {}, bad |-> FALSE],
                        fetch.batches)
    IN  [acc EXCEPT !.out = SelectSeq(@, LAMBDA o : o >= fetch.offset)]

PartitionRecords(fetch) ==
    LET acc == _unpack_records(fetch)
    IN  [p |-> fetch.p, next |-> fetch.offset, todo |-> acc.out, end |-> acc.next,
         error |-> IF acc.bad THEN "ahead" ELSE "none"]

\* take(n): the records handed out and what is left.  A generator that has
\* raised is exhausted, but the records are not drained.
take(part, n) ==
    IF part.error = "raised" THEN [records |-> <<>>, rest |-> part]
    ELSE IF n <= Len(part.todo)
    THEN [records |-> SubSeq(part.todo, 1, n),
          rest |-> [part EXCEPT !.todo = SubSeq(@, n + 1, Len(@)), !.next = part.todo[n] + 1]]
    ELSE IF part.error = "ahead"
    THEN [records |-> part.todo,
          rest |-> [part EXCEPT !.todo = <<>>, !.error = "inline", !.next = part.end]]
    ELSE [records |-> part.todo, rest |-> [part EXCEPT !.todo = <<>>, !.next = part.end]]

\* Whether take raises: the exception met now, or the one kept from last time.
take_raises(part, n) ==
    \/ part.error = "inline"
    \/ part.error = "ahead" /\ part.todo = <<>>

drained_by(part, n) == part.error = "none" /\ n > Len(part.todo)

-----------------------------------------------------------------------------
(* FetchSessionHandler: what the client believes the broker's session holds. *)

NewSession == [id |-> 0, epoch |-> 0, parts |-> <<>>]

next_epoch(epoch) == IF epoch = MaxEpoch THEN 1 ELSE epoch + 1
next_close_existing(s) == [s EXCEPT !.epoch = 0]
initial_metadata(s) == [s EXCEPT !.id = 0, !.epoch = 0]

\* A full request, or what has been added, altered and removed.
build_next(s, next) ==
    IF s.epoch = 0 THEN [send |-> next, forget |-> {}, epoch |-> 0, id |-> s.id]
    ELSE LET changed == {p \in DOMAIN next : p \notin DOMAIN s.parts \/ next[p] # s.parts[p]}
         IN  [send |-> [p \in changed |-> next[p]],
              forget |-> DOMAIN s.parts \ DOMAIN next, epoch |-> s.epoch, id |-> s.id]

\* The handler after a response, and whether the response is used.
handle_response(s, r) ==
    IF r.error = "session_not_found" THEN [used |-> FALSE, session |-> initial_metadata(s)]
    ELSE IF r.error = "session_error" THEN [used |-> FALSE, session |-> next_close_existing(s)]
    ELSE IF s.epoch = 0
    THEN IF r.parts # DOMAIN s.parts THEN [used |-> FALSE, session |-> initial_metadata(s)]
         ELSE IF r.id = 0 THEN [used |-> TRUE, session |-> initial_metadata(s)]
         ELSE [used |-> TRUE, session |-> [s EXCEPT !.id = r.id, !.epoch = next_epoch(0)]]
    ELSE IF ~(r.parts \subseteq DOMAIN s.parts) THEN [used |-> FALSE, session |-> next_close_existing(s)]
    ELSE IF r.id = 0 THEN [used |-> TRUE, session |-> initial_metadata(s)]
    ELSE [used |-> TRUE, session |-> [s EXCEPT !.epoch = next_epoch(@)]]

\* Mutant: the session goes on after a request that failed.
handle_error_going_on(s) == s
handle_error(s) == next_close_existing(s)

-----------------------------------------------------------------------------
(* Sending fetches. *)

NoFetch == [state |-> "none"]

buffered == {completed[i].p : i \in DOMAIN completed} \cup {current.p}

\* Mutant: a partition is fetched again while a response for it is buffered.
fetchable_though_buffered == {p \in DOMAIN assignment : is_fetchable(p)}
_fetchable_partitions == {p \in DOMAIN assignment : is_fetchable(p)} \ buffered

-----------------------------------------------------------------------------
(* The application's calls, between two polls. *)

Idle == [pc |-> "idle", records |-> <<>>, fetchable |-> {}]
Between == call.pc = "idle"
Calls == budget.calls < mode.calls
Spend(kind) == budget' = [budget EXCEPT ![kind] = @ + 1]
Recorded(p, offset) == expected' = [expected EXCEPT ![p] = offset]

\* Mutant: an iteration under way goes on.
seek_while_iterating(p, offset) ==
    /\ Between /\ Calls /\ is_assigned(p)
    /\ assignment' = [assignment EXCEPT ![p] = seek_state(@, offset)]
    /\ Recorded(p, offset) /\ Spend("calls")
    /\ UNCHANGED <<mode, call, fetcher, network, lookups, log, committed>>

seek(p, offset) ==
    /\ Between /\ Calls /\ is_assigned(p)
    /\ assignment' = [assignment EXCEPT ![p] = seek_state(@, offset)]
    /\ call' = Idle
    /\ Recorded(p, offset) /\ Spend("calls")
    /\ UNCHANGED <<mode, fetcher, network, lookups, log, committed>>

seek_to_beginning(p) ==
    /\ Between /\ Calls /\ is_assigned(p)
    /\ assignment' = [assignment EXCEPT ![p] = reset_state(@, "earliest")]
    /\ call' = Idle
    /\ Recorded(p, NoOffset) /\ Spend("calls")
    /\ UNCHANGED <<mode, fetcher, network, lookups, log, committed>>

seek_to_end(p) ==
    /\ Between /\ Calls /\ is_assigned(p)
    /\ assignment' = [assignment EXCEPT ![p] = reset_state(@, "latest")]
    /\ call' = Idle
    /\ Recorded(p, NoOffset) /\ Spend("calls")
    /\ UNCHANGED <<mode, fetcher, network, lookups, log, committed>>

pause(p) ==
    /\ Between /\ Calls /\ is_assigned(p) /\ ~assignment[p].paused
    /\ assignment' = [assignment EXCEPT ![p].paused = TRUE]
    /\ Spend("calls")
    /\ UNCHANGED <<mode, call, fetcher, network, lookups, log, committed, expected>>

resume(p) ==
    /\ Between /\ is_assigned(p) /\ assignment[p].paused
    /\ assignment' = [assignment EXCEPT ![p].paused = FALSE]
    /\ UNCHANGED <<mode, call, fetcher, network, lookups, log, committed, expected, budget>>

Forgotten(parts) == expected' = [p \in Partition |-> IF p \in parts THEN expected[p] ELSE NoOffset]

assign(parts) ==
    /\ Between /\ Calls /\ ~mode.group /\ parts # DOMAIN assignment /\ parts # {}
    /\ assignment' = assign_from_user(parts)
    /\ Forgotten(parts) /\ Spend("calls")
    /\ UNCHANGED <<mode, call, fetcher, network, lookups, log, committed>>

commit ==
    /\ Between /\ mode.group /\ Calls
    /\ committed' = all_consumed_offsets @@ committed
    /\ Spend("calls")
    /\ UNCHANGED <<mode, assignment, call, fetcher, network, lookups, log, expected>>

-----------------------------------------------------------------------------
(* KafkaConsumer._poll_once. *)

At(pc) == call.pc = pc
Go(pc) == call' = [call EXCEPT !.pc = pc]

\* coordinator.poll with nothing to do for the group.
poll ==
    /\ Between /\ call.records = <<>>
    /\ call' = [Idle EXCEPT !.pc = "positions"]
    /\ UNCHANGED <<mode, assignment, fetcher, network, lookups, log, committed, expected, budget>>

\* coordinator.poll that rebalances: the consumed offsets are committed and the
\* partitions come back without their state.
poll_rejoins(parts) ==
    /\ Between /\ call.records = <<>> /\ mode.group /\ Calls
    /\ committed' = all_consumed_offsets @@ committed
    /\ assignment' = assign_from_subscribed(parts)
    /\ Forgotten({}) /\ Spend("calls")
    /\ call' = [Idle EXCEPT !.pc = "positions"]
    /\ UNCHANGED <<mode, fetcher, network, lookups, log>>

Unanswered == [done |-> FALSE, offsets |-> <<>>]

\* fetch_committed_offsets: the request is kept under its partitions, and one
\* already made for the same partitions is taken up again.
fetch_committed_offsets ==
    /\ At("positions") /\ mode.group /\ missing_fetch_positions # {}
    /\ Go("committed")
    /\ offset_fetches' = IF missing_fetch_positions \in DOMAIN offset_fetches THEN offset_fetches
                         ELSE (missing_fetch_positions :> Unanswered) @@ offset_fetches
    /\ UNCHANGED <<mode, assignment, fetcher, network, resets, checked, log, committed, expected, budget>>

Without(f, x) == [y \in DOMAIN f \ {x} |-> f[y]]

\* Where the partitions of an assignment without a position start.
Settle(offsets) ==
    expected' = [p \in Partition |->
        IF p \in DOMAIN offsets /\ expected[p] = NoOffset THEN offsets[p] ELSE expected[p]]

refresh_committed_offsets_if_needed ==
    LET parts == missing_fetch_positions
        offsets == offset_fetches[parts].offsets
    IN  /\ At("committed") /\ parts \in DOMAIN offset_fetches /\ offset_fetches[parts].done
        /\ assignment' = [p \in DOMAIN assignment |->
                             IF p \in DOMAIN offsets THEN seek_state(assignment[p], offsets[p])
                             ELSE assignment[p]]
        /\ offset_fetches' = Without(offset_fetches, parts)
        /\ Settle(offsets)
        /\ Go("reset")
        /\ UNCHANGED <<mode, fetcher, network, resets, checked, log, committed, budget>>

committed_timeout ==
    /\ At("committed")
    /\ Go("collect1")
    /\ UNCHANGED <<mode, assignment, fetcher, network, lookups, log, committed, expected, budget>>

NoError == [p |-> "none", offset |-> NoOffset, lookup |-> FALSE]

\* The rest of _update_fetch_positions: the default reset for what is still
\* missing, then ListOffsets for what may be reset now.
update_fetch_positions ==
    LET reset == reset_missing_positions(assignment)
        parts == partitions_needing_reset(reset)
    IN  /\ \/ At("positions") /\ ~has_all_fetch_positions
              /\ (~mode.group \/ missing_fetch_positions = {})
           \/ At("reset")
        /\ DefaultReset # "none" \/ missing_fetch_positions = {}
        /\ ~pending_error.lookup
        /\ \/ /\ parts # {} /\ Len(resets) < MaxResets
              /\ assignment' = set_reset_pending(reset, parts)
              /\ resets' = Append(resets, [state |-> "sent", parts |-> [p \in parts |-> reset[p].strategy]])
           \/ assignment' = reset /\ UNCHANGED resets
        /\ Go("collect1")
        /\ UNCHANGED <<mode, fetcher, network, checked, offset_fetches, log, committed, expected, budget>>

\* NoOffsetForPartitionError, or the error of an earlier lookup.
update_fetch_positions_raises ==
    /\ \/ At("positions") /\ ~has_all_fetch_positions
          /\ (~mode.group \/ missing_fetch_positions = {})
       \/ At("reset")
    /\ call' = Idle
    /\ \/ /\ DefaultReset = "none" /\ missing_fetch_positions # {}
          /\ UNCHANGED <<assignment, pending_error>>
       \/ /\ DefaultReset # "none" \/ missing_fetch_positions = {}
          /\ pending_error.lookup
          /\ pending_error' = [pending_error EXCEPT !.lookup = FALSE]
          /\ assignment' = reset_missing_positions(assignment)
    /\ UNCHANGED <<mode, completed, current, network, lookups, log, committed, expected, budget>>

positions_known ==
    /\ At("positions") /\ has_all_fetch_positions
    /\ Go("collect1")
    /\ UNCHANGED <<mode, assignment, fetcher, network, lookups, log, committed, expected, budget>>

Collecting == call.pc \in {"collect1", "collect2"}
Remaining == MaxRecords - Len(call.records)

\* An exception met while collecting is raised, or kept for the next call when
\* there are records to return first.
Raise(p, offset) ==
    IF call.records = <<>>
    THEN call' = Idle /\ UNCHANGED pending_error
    ELSE pending_error' = [pending_error EXCEPT !.p = p, !.offset = offset] /\ UNCHANGED call

raise_next_in_line ==
    /\ Collecting /\ call.records = <<>> /\ pending_error.p # "none"
    /\ pending_error' = [NoError EXCEPT !.lookup = pending_error.lookup]
    /\ call' = IF /\ is_fetchable(pending_error.p)
                  /\ assignment[pending_error.p].position = pending_error.offset
               THEN Idle ELSE call
    /\ UNCHANGED <<mode, assignment, completed, current, network, lookups, log, committed, expected, budget>>

\* The position is still the one the request was made for.
is_current(c) == assignment[c.p].position = c.offset

_parse_fetched_data ==
    LET c == Head(completed)
        wanted == is_fetchable(c.p)
    IN  /\ Collecting /\ Remaining > 0 /\ pending_error.p = "none"
        /\ current = NoRecords /\ completed # <<>>
        /\ completed' = Tail(completed)
        /\ \/ /\ \/ ~wanted
                 \/ wanted /\ c.error \in {"none", "out_of_range"} /\ ~is_current(c)
                 \/ c.error = "retriable"
              /\ UNCHANGED <<assignment, call, current, pending_error, expected>>
           \/ /\ wanted /\ c.error = "none" /\ is_current(c)
              /\ current' = PartitionRecords(c)
              /\ UNCHANGED <<assignment, call, pending_error, expected>>
           \/ /\ wanted /\ c.error = "out_of_range" /\ is_current(c) /\ DefaultReset # "none"
              /\ assignment' = [assignment EXCEPT ![c.p] = reset_state(@, DefaultReset)]
              /\ expected' = IF assignment[c.p].position = c.offset /\ expected[c.p] # Overridden
                             THEN [expected EXCEPT ![c.p] = NoOffset] ELSE expected
              /\ UNCHANGED <<call, current, pending_error>>
           \/ /\ wanted
              /\ \/ c.error = "fatal"
                 \/ c.error = "out_of_range" /\ is_current(c) /\ DefaultReset = "none"
              /\ Raise(c.p, c.offset)
              /\ UNCHANGED <<assignment, current, expected>>
        /\ UNCHANGED <<mode, network, lookups, log, committed, budget>>

next_in_line(part) == part.next = assignment[part.p].position

position_moves(records) == ~mode.iterates \/ records = <<>>

_append ==
    LET part == current
        taken == take(part, Remaining)
        usable == is_fetchable(part.p) /\ next_in_line(part)
    IN  /\ Collecting /\ Remaining > 0 /\ pending_error.p = "none" /\ part # NoRecords
        /\ \/ /\ ~usable
              /\ current' = NoRecords
              /\ UNCHANGED <<assignment, call, pending_error>>
           \/ /\ usable /\ ~take_raises(part, Remaining)
              /\ call' = [call EXCEPT !.records =
                             @ \o [i \in DOMAIN taken.records |-> [p |-> part.p, offset |-> taken.records[i]]]]
              /\ assignment' = IF position_moves(taken.records)
                               THEN [assignment EXCEPT ![part.p].position = taken.rest.next] ELSE assignment
              /\ current' = IF drained_by(part, Remaining) THEN NoRecords ELSE taken.rest
              /\ UNCHANGED pending_error
           \/ /\ usable /\ take_raises(part, Remaining)
              /\ current' = [part EXCEPT !.error = "raised"]
              /\ Raise(part.p, part.next)
              /\ UNCHANGED assignment
        /\ UNCHANGED <<mode, completed, network, lookups, log, committed, expected, budget>>

\* The end of fetched_records' loop.
Collected ==
    \/ Remaining = 0
    \/ current = NoRecords /\ completed = <<>>
    \/ pending_error.p # "none" /\ call.records # <<>>

ReturnOr(pc) == IF call.records # <<>> THEN "return" ELSE pc

fetched_records ==
    /\ Collecting /\ Collected /\ ~(pending_error.p # "none" /\ call.records = <<>>)
    /\ Go(IF At("collect1") THEN "partial" ELSE ReturnOr("idle"))
    /\ UNCHANGED <<mode, assignment, fetcher, network, lookups, log, committed, expected, budget>>

\* Behind the first one the next fetches are sent, unless responses are left.
partial ==
    /\ At("partial")
    /\ Go(IF completed = <<>> THEN "fetchable" ELSE ReturnOr("wait"))
    /\ UNCHANGED <<mode, assignment, fetcher, network, lookups, log, committed, expected, budget>>

\* What may be fetched is computed first, and only then whether a request is
\* pending at the leader.  Nothing keeps the heartbeat thread from handling the
\* response of that one in between.
_create_fetch_requests ==
    /\ At("fetchable")
    /\ call' = [call EXCEPT !.pc = "send", !.fetchable = _fetchable_partitions]
    /\ UNCHANGED <<mode, assignment, fetcher, network, lookups, log, committed, expected, budget>>

\* The partitions are looked at one by one.  The leader is not ready or has a
\* request pending, or not; that changes half way if the other thread comes in.
send_fetches ==
    /\ At("send")
    /\ \E asked \in SUBSET call.fetchable :
          LET offsets == [p \in asked |-> assignment[p].position]
          IN  IF asked = {} THEN UNCHANGED <<session, wire>>
              ELSE /\ wire.state = "none" /\ (asked = call.fetchable \/ mode.group)
                   /\ wire' = [state |-> "sent", offsets |-> offsets, request |-> build_next(session, offsets)]
                   /\ session' = [session EXCEPT !.parts = offsets]
    /\ call' = [call EXCEPT !.pc = ReturnOr("wait"), !.fetchable = {}]
    /\ UNCHANGED <<mode, assignment, fetcher, broker, lookups, log, committed, expected, budget>>

\* client.poll is over; a rebalance that is due goes first.
client_poll_returns ==
    /\ At("wait")
    /\ \/ Go("collect2")
       \/ mode.group /\ call' = Idle
    /\ UNCHANGED <<mode, assignment, fetcher, network, lookups, log, committed, expected, budget>>

Offsets(records, p) == {records[i].offset : i \in {j \in DOMAIN records : records[j].p = p}}

Delivered(records) ==
    expected' = [p \in Partition |->
        IF Offsets(records, p) = {} \/ expected[p] = Overridden THEN expected[p] ELSE Max(Offsets(records, p)) + 1]

\* The records go to the caller, or to the iterator that made the call.
poll_returns ==
    /\ At("return")
    /\ IF mode.iterates THEN Go("idle") /\ UNCHANGED expected
       ELSE call' = Idle /\ Delivered(call.records)
    /\ UNCHANGED <<mode, assignment, fetcher, network, lookups, log, committed, budget>>

\* _message_generator_v2, resumed.
next_record ==
    LET r == Head(call.records) IN
    /\ Between /\ call.records # <<>>
    /\ IF is_fetchable(r.p)
       THEN /\ assignment' = [assignment EXCEPT ![r.p].position = r.offset + 1]
            /\ call' = [call EXCEPT !.records = Tail(@)]
            /\ Delivered(<<r>>)
       ELSE /\ call' = [call EXCEPT !.records = SelectSeq(@, LAMBDA x : x.p # r.p)]
            /\ UNCHANGED <<assignment, expected>>
    /\ UNCHANGED <<mode, fetcher, network, lookups, log, committed, budget>>

-----------------------------------------------------------------------------
(* Responses. *)

\* By the application thread while it polls the client, or by the other one.
Polling == mode.group \/ call.pc \in {"wait", "return"}

\* Every partition of a response that is used is queued to be unpacked.
_handle_fetch_response ==
    LET r == wire.reply
        h == handle_response(session, r)
        fetched == SetToSeq(r.parts)
    IN  /\ Polling /\ wire.state = "answered"
        /\ session' = h.session
        /\ completed' = IF h.used
                        THEN completed \o [i \in DOMAIN fetched |->
                                 r.data[fetched[i]] @@ [p |-> fetched[i], offset |-> wire.offsets[fetched[i]]]]
                        ELSE completed
        /\ wire' = NoFetch
        /\ UNCHANGED <<mode, assignment, call, current, pending_error, broker, lookups, log, committed, expected, budget>>

_handle_fetch_error ==
    /\ Polling /\ wire.state = "lost"
    /\ session' = handle_error(session)
    /\ wire' = NoFetch
    /\ UNCHANGED <<mode, assignment, call, fetcher, broker, lookups, log, committed, expected, budget>>

\* Mutant: a reset that is no longer asked for is applied.
reset_unchecked(p, strategy) == is_assigned(p)

\* The partition may be lost, moved or reset otherwise by now.
reset_wanted(p, strategy) == is_assigned(p) /\ assignment[p].strategy = strategy

\* A response handled on the application thread, within client.poll.
reset_offsets_on_success ==
    LET r == Head(resets)
        wanted == {p \in DOMAIN r.offsets : reset_wanted(p, r.parts[p])}
        failed == reset_failed(assignment, r.retry)
    IN  /\ Polling /\ ~mode.group /\ resets # <<>> /\ r.state = "answered"
        /\ resets' = Tail(resets)
        /\ IF r.retry \subseteq DOMAIN assignment
           THEN /\ assignment' = [p \in DOMAIN assignment |->
                                     IF p \in wanted THEN seek_state(failed[p], r.offsets[p]) ELSE failed[p]]
                /\ Settle([p \in wanted |-> r.offsets[p]])
           ELSE assignment' = failed /\ UNCHANGED expected
        /\ UNCHANGED <<mode, call, fetcher, network, checked, offset_fetches, log, committed, budget>>

\* The same on the heartbeat thread, whose steps others may come between.
heartbeat_on_success ==
    LET r == Head(resets) IN
    /\ mode.group /\ resets # <<>> /\ r.state = "answered" /\ checked = {}
    /\ resets' = Tail(resets)
    /\ assignment' = reset_failed(assignment, r.retry)
    /\ checked' = IF r.retry \subseteq DOMAIN assignment
                  THEN {[p |-> p, strategy |-> r.parts[p], offset |-> r.offsets[p], passed |-> FALSE] :
                           p \in DOMAIN r.offsets}
                  ELSE {}
    /\ UNCHANGED <<mode, call, fetcher, network, offset_fetches, log, committed, expected, budget>>

_reset_offset_if_needed(c) ==
    /\ \A d \in checked : ~d.passed
    /\ checked' = (checked \ {c}) \cup
           IF reset_wanted(c.p, c.strategy) THEN {[c EXCEPT !.passed = TRUE]} ELSE {}
    /\ UNCHANGED <<mode, assignment, call, fetcher, network, resets, offset_fetches, log, committed, expected, budget>>

apply_reset(c) ==
    /\ c.passed
    /\ IF is_assigned(c.p)
       THEN /\ assignment' = [assignment EXCEPT ![c.p] = seek_state(@, c.offset)]
            /\ Recorded(c.p, IF expected[c.p] = NoOffset THEN c.offset ELSE Overridden)
            /\ checked' = checked \ {c}
       ELSE checked' = {} /\ UNCHANGED <<assignment, expected>>
    /\ UNCHANGED <<mode, call, fetcher, network, resets, offset_fetches, log, committed, budget>>

\* A failure that is not retriable is kept for the next poll.
reset_offsets_on_failure ==
    LET r == Head(resets) IN
    /\ Polling /\ resets # <<>> /\ r.state \in {"lost", "fatal"}
    /\ resets' = Tail(resets)
    /\ assignment' = reset_failed(assignment, DOMAIN r.parts)
    /\ pending_error' = IF r.state = "fatal" /\ DOMAIN r.parts \subseteq DOMAIN assignment
                        THEN [pending_error EXCEPT !.lookup = TRUE] ELSE pending_error
    /\ UNCHANGED <<mode, call, completed, current, network, checked, offset_fetches, log, committed, expected, budget>>

\* A backoff, or the time a lookup may take, is over.
reset_allowed(p) ==
    /\ is_assigned(p) /\ assignment[p].retry = "later"
    /\ assignment' = [assignment EXCEPT ![p].retry = "now"]
    /\ UNCHANGED <<mode, call, fetcher, network, lookups, log, committed, expected, budget>>

-----------------------------------------------------------------------------
(* The broker and the logs. *)

Faults == budget.faults < MaxFaults
Fails(fails) == IF fails THEN Faults /\ Spend("faults") ELSE UNCHANGED budget

\* The aborted transactions a response names: [first offset, producer].
AbortedIn(from, upto) ==
    {[first_offset |-> Batches[i].base, producer |-> Batches[i].producer] :
        i \in {k \in DOMAIN Batches :
            /\ Aborted(k) /\ Batches[k].base < upto
            /\ \E j \in DOMAIN Batches : Batches[j].kind = "abort" /\ Batches[j].next > from
                                          /\ Batches[j].producer = Batches[k].producer}}

\* What the broker has for one partition at an offset.
FetchedData(p, offset) ==
    LET present == {i \in log[p].first .. Stable(log[p].last) : Batches[i].next > offset}
        nothing == [error |-> "none", batches |-> <<>>, aborted |-> {}]
    IN  IF offset < StartOffset(p) \/ (offset > 0 /\ (log[p].last = 0 \/ offset > Batches[log[p].last].next))
        THEN {[nothing EXCEPT !.error = "out_of_range"]}
        ELSE IF present = {} THEN {nothing}
        ELSE {[error |-> "none",
               batches |-> SubSeq(Batches, Min(present), n),
               aborted |-> IF ReadCommitted THEN AbortedIn(offset, Batches[n].next) ELSE {}] : n \in present}

\* The partitions the broker takes a request for, by its own session.
BrokerView(request) == 
    IF request.epoch = 0 THEN request.send
    ELSE [p \in (DOMAIN broker.parts \cup DOMAIN request.send) \ request.forget |->
             IF p \in DOMAIN request.send THEN request.send[p] ELSE broker.parts[p]]

Answered(reply, view) == wire' = [state |-> "answered", offsets |-> wire.offsets, reply |-> reply, view |-> view]

BrokerRefuses(error) ==
    /\ Answered([error |-> error, id |-> 0, parts |-> {}, data |-> <<>>], <<>>)
    /\ UNCHANGED <<broker, budget>>

\* A full request opens a session, or is answered without one.
BrokerFetch ==
    LET request == wire.request
        view == BrokerView(request)
    IN  /\ wire.state = "sent"
        /\ \/ /\ request.epoch # 0 /\ request.id # broker.id
              /\ BrokerRefuses("session_not_found")
           \/ /\ request.epoch # 0 /\ request.id = broker.id /\ request.epoch # broker.epoch
              /\ BrokerRefuses("session_error")
           \/ /\ request.epoch # 0 => request.id = broker.id /\ request.epoch = broker.epoch
              /\ \E data \in {f \in [DOMAIN view -> UNION {FetchedData(p, view[p]) : p \in DOMAIN view}] :
                                 \A p \in DOMAIN view : f[p] \in FetchedData(p, view[p])} :
                 \E error \in {"none", "retriable", "fatal"}, opens \in BOOLEAN :
                   LET id == IF request.epoch # 0 THEN broker.id ELSE IF opens THEN 3 - broker.id ELSE 0
                       answer == [p \in DOMAIN view |-> IF error = "none" THEN data[p]
                                                       ELSE [error |-> error, batches |-> <<>>, aborted |-> {}]]
                       parts == IF request.epoch = 0 THEN DOMAIN view
                                ELSE {p \in DOMAIN view : answer[p].error # "none" \/ answer[p].batches # <<>>}
                   IN  /\ Fails(error # "none" \/ ~opens)
                       /\ Answered([error |-> "none", id |-> id, parts |-> parts, data |-> answer], view)
                       /\ broker' = IF id = 0 THEN [id |-> broker.id, epoch |-> 0, parts |-> <<>>]
                                    ELSE [id |-> id, epoch |-> next_epoch(request.epoch), parts |-> view]
        /\ UNCHANGED <<mode, assignment, call, fetcher, session, lookups, log, committed, expected>>

BrokerEvictsSession ==
    /\ Faults /\ broker.epoch # 0
    /\ broker' = [id |-> 3 - broker.id, epoch |-> 0, parts |-> <<>>]
    /\ Spend("faults")
    /\ UNCHANGED <<mode, assignment, call, fetcher, session, wire, lookups, log, committed, expected>>

\* A request, or its answer, goes down with the connection.
ConnectionLost ==
    /\ Faults /\ wire.state \in {"sent", "answered"}
    /\ wire' = [state |-> "lost"]
    /\ Spend("faults")
    /\ UNCHANGED <<mode, assignment, call, fetcher, session, broker, lookups, log, committed, expected>>

BrokerListOffsets(i) ==
    LET r == resets[i] IN
    /\ r.state = "sent"
    /\ \/ \E retry \in SUBSET DOMAIN r.parts :
            /\ Fails(retry # {})
            /\ resets' = [resets EXCEPT ![i] =
                   [state |-> "answered", parts |-> r.parts, retry |-> retry,
                    offsets |-> [p \in DOMAIN r.parts \ retry |->
                                   IF r.parts[p] = "earliest" THEN StartOffset(p) ELSE EndOffset(p)]]]
       \/ \E state \in {"lost", "fatal"} :
            /\ Fails(TRUE)
            /\ resets' = [resets EXCEPT ![i] = [state |-> state, parts |-> r.parts]]
    /\ UNCHANGED <<mode, assignment, call, fetcher, network, checked, offset_fetches, log, committed, expected>>

BrokerOffsetFetch(parts) ==
    /\ ~offset_fetches[parts].done
    /\ offset_fetches' = [offset_fetches EXCEPT ![parts] =
          [done |-> TRUE, offsets |-> [p \in parts \cap DOMAIN committed |-> committed[p]]]]
    /\ UNCHANGED <<mode, assignment, call, fetcher, network, resets, checked, log, committed, expected, budget>>

\* A failed lookup is made again by the call that waits for it, or the next one.
OffsetFetchFails(parts) ==
    /\ ~offset_fetches[parts].done
    /\ Fails(TRUE)
    /\ offset_fetches' = Without(offset_fetches, parts)
    /\ IF At("committed") /\ missing_fetch_positions = parts THEN Go("positions") ELSE UNCHANGED call
    /\ UNCHANGED <<mode, assignment, fetcher, network, resets, checked, log, committed, expected>>

Produce(p) ==
    /\ log[p].last < Len(Batches)
    /\ log' = [log EXCEPT ![p].last = @ + 1]
    /\ UNCHANGED <<mode, assignment, call, fetcher, network, lookups, committed, expected, budget>>

DeleteRecords(p) ==
    /\ Faults /\ log[p].first <= log[p].last
    /\ log' = [log EXCEPT ![p].first = @ + 1]
    /\ Spend("faults")
    /\ UNCHANGED <<mode, assignment, call, fetcher, network, lookups, committed, expected>>

\* The owner of a partition this consumer does not have goes on.
OtherMemberCommits(p, offset) ==
    /\ mode.group /\ ~is_assigned(p) /\ Calls
    /\ p \in DOMAIN committed => committed[p] < offset
    /\ committed' = (p :> offset) @@ committed
    /\ Spend("calls")
    /\ UNCHANGED <<mode, assignment, call, fetcher, network, lookups, log, expected>>

-----------------------------------------------------------------------------

Init ==
    /\ mode \in Modes
    /\ assignment = [p \in mode.parts |-> TopicPartitionState]
    /\ call = Idle
    /\ completed = <<>> /\ current = NoRecords /\ pending_error = NoError
    /\ session = NewSession /\ wire = NoFetch
    /\ broker = [id |-> 1, epoch |-> 0, parts |-> <<>>]
    /\ resets = <<>> /\ checked = {} /\ offset_fetches = <<>>
    /\ log = [p \in Partition |-> [first |-> 1, last |-> mode.logged]]
    /\ committed = <<>>
    /\ expected = [p \in Partition |-> NoOffset]
    /\ budget = [calls |-> 0, faults |-> 0]

Application ==
    \/ \E p \in Partition : \/ seek_to_beginning(p) \/ seek_to_end(p) \/ pause(p) \/ resume(p)
                            \/ \E offset \in Targets : seek(p, offset)
    \/ \E parts \in SUBSET mode.parts : assign(parts) \/ poll_rejoins(parts)
    \/ commit \/ poll \/ next_record

PollOnce ==
    \/ fetch_committed_offsets \/ refresh_committed_offsets_if_needed \/ committed_timeout
    \/ update_fetch_positions \/ update_fetch_positions_raises \/ positions_known
    \/ raise_next_in_line \/ _parse_fetched_data \/ _append \/ fetched_records
    \/ partial \/ _create_fetch_requests \/ send_fetches
    \/ client_poll_returns \/ poll_returns

Responses ==
    \/ _handle_fetch_response \/ _handle_fetch_error
    \/ reset_offsets_on_success \/ heartbeat_on_success \/ reset_offsets_on_failure
    \/ \E c \in checked : _reset_offset_if_needed(c) \/ apply_reset(c)
    \/ \E p \in Partition : reset_allowed(p)

Environment ==
    \/ BrokerFetch \/ BrokerEvictsSession \/ ConnectionLost
    \/ \E i \in DOMAIN resets : BrokerListOffsets(i)
    \/ \E parts \in DOMAIN offset_fetches : BrokerOffsetFetch(parts) \/ OffsetFetchFails(parts)
    \/ \E p \in mode.parts : \/ Produce(p) \/ DeleteRecords(p)
                             \/ \E offset \in Targets : OtherMemberCommits(p, offset)

Next == Application \/ PollOnce \/ Responses \/ Environment

Spec == Init /\ [][Next]_vars

-----------------------------------------------------------------------------

State == [paused : BOOLEAN, position : Offset \cup {NoOffset},
          strategy : Strategy \cup {"none"}, retry : {"now", "later"}]

\* A partition has a position or a reset to wait for, never both; what is
\* collected for one call is within max_poll_records.
TypeOK ==
    /\ DOMAIN assignment \subseteq Partition
    /\ \A p \in DOMAIN assignment : /\ assignment[p] \in State
                                    /\ ~(has_valid_position(assignment[p]) /\ awaiting_reset(assignment[p]))
    /\ call.pc \in {"idle", "positions", "committed", "reset", "collect1", "partial", "fetchable", "send",
                   "wait", "collect2", "return"}
    /\ call.fetchable \subseteq DOMAIN assignment
    /\ Len(call.records) <= MaxRecords
    /\ session.epoch \in 0 .. MaxEpoch /\ broker.epoch \in 0 .. MaxEpoch
    /\ wire.state \in {"none", "sent", "answered", "lost"}
    /\ \A i \in DOMAIN resets : resets[i].state \in {"sent", "answered", "lost", "fatal"}
    /\ expected \in [Partition -> Offset \cup {NoOffset, Overridden}]

\* KafkaConsumer.poll: between two calls, a partition stands where the
\* application is due to go on, with nothing visible in the log left out, or
\* passed over twice, whatever seeks, resets and responses have crossed.
NothingSkipped ==
    call.pc = "idle" => \A p \in DOMAIN assignment :
        has_valid_position(assignment[p]) /\ expected[p] \in Offset =>
            expected[p] <= assignment[p].position /\ Due(expected[p], assignment[p].position) = {}

\* _append and _message_generator_v2: the records about to be handed out are the
\* next visible ones of their partition, in a row.
ReturnedInOrder ==
    LET InRow(p, os) == is_fetchable(p) /\ expected[p] \in Offset => os = Due(expected[p], Max(os) + 1)
    IN  /\ call.pc = "return" => \A i \in DOMAIN call.records :
              InRow(call.records[i].p, Offsets(call.records, call.records[i].p))
        /\ call.pc = "idle" /\ call.records # <<>> =>
              InRow(call.records[1].p, {call.records[1].offset})

\* pause: "will not return any records from these partitions until they have
\* been resumed", and none of a partition that was taken away, even when they
\* were fetched before.
NotReturnedWhilePaused ==
    call.pc = "return" => \A i \in DOMAIN call.records :
        is_assigned(call.records[i].p) /\ ~assignment[call.records[i].p].paused

\* FetchSessionHandler: what the broker makes of an incremental request is what
\* the client meant to ask for.
SessionAgrees ==
    wire.state = "answered" /\ wire.reply.error = "none" => wire.view = wire.offsets

\* send_fetches: of one partition there is one fetch in flight or one response
\* buffered; with a heartbeat thread, that may handle a response while the next
\* fetches are prepared, there is one more of them and never two.
FetchesBounded ==
    \A p \in Partition :
        Cardinality({i \in DOMAIN completed : completed[i].p = p})
        + (IF current.p = p THEN 1 ELSE 0)
        + (IF wire.state \in {"sent", "answered"} /\ p \in DOMAIN wire.offsets THEN 1 ELSE 0)
        <= IF mode.group THEN 2 ELSE 1

\* _reset_offset_if_needed: a reset never replaces a position that has been
\* chosen since it was asked for ("the user might seek to a different offset").
SeekHonoured == \A p \in Partition : expected[p] # Overridden

\* Fetcher and FetchSessionHandler: a bound on the fetches and responses of a
\* partition, and a session on the broker that asks for what the client wants.
FetchesTracked == TypeOK /\ SessionAgrees /\ FetchesBounded

\* KafkaConsumer.poll: the application gets every visible record once and in order,
\* whatever seeks, resets, rebalances and responses have crossed.
RecordsInOrder == NothingSkipped /\ ReturnedInOrder
=============================================================================
