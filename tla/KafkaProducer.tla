--------------------------- MODULE KafkaProducer ---------------------------
(* The kafka-python producer: the application's calls (producer/kafka.py), the
   record accumulator, the sender thread, and the transaction manager, against
   brokers that write batches and a transaction coordinator.

   One application thread; the sender thread runs run_once over and over.  A
   batch is known by its number, in the order of creation, so that the batches
   that have reached their delivery timeout are the first "aged" ones.

   Abstractions: a record is a batch's count, linger_ms is 0 as by default, time
   (backoffs, timeouts, the readiness of connections) is nondeterminism, the
   metadata are known and every partition keeps its leader, acks is not 0.   *)
EXTENDS Naturals, Sequences, FiniteSets, FiniteSetsExt, KafkaTransactionManager

CONSTANTS Node,
          BatchSize,   \* records that fit in a batch
          MaxFaults,   \* errors, lost connections, fencing
          Modes        \* how the producer is configured and used

\* KafkaProducer.__init__: idempotence needs retries and one request in flight.
ModeAllowed(m) ==
    m.manager # "none" => m.retries > 0 /\ m.inflight = 1

ASSUME ProducerAssumption ==
    /\ BatchSize \in Nat \ {0} /\ MaxFaults \in Nat
    /\ Modes \subseteq [manager : {"none", "idempotent", "transactional"}, retries : Nat, inflight : Nat \ {0},
                        leader : [Partition -> Node], sends : Nat, txns : Nat, ages : Nat]
    /\ \A m \in Modes : ModeAllowed(m)

VARIABLES batch,      \* every ProducerBatch there has been
          queues,     \* RecordAccumulator._batches
          incomplete, \* RecordAccumulator._incomplete
          flushes,    \* _flushes_in_progress
          muted,      \* RecordAccumulator.muted
          in_flight_batches, \* Sender._in_flight_batches
          sender,     \* where the sender thread is
          answers,    \* the batches of responses, and of requests that failed, yet to be completed
          tm,         \* the transaction manager
          app,        \* the application thread: what it is in and what it waits for
          txn,        \* its transactions: what has become of each (history)
          wire,       \* requests in flight to each node
          stray,      \* batches on broken connections that a broker may still read
          log,        \* what the leader of each partition has written
          coord,      \* the transaction coordinator
          aged,       \* batches that have reached their delivery timeout
          mode, faults

accumulator == <<batch, queues, incomplete, flushes, muted, in_flight_batches>>
client == <<app, txn>>
brokers == <<stray, log, coord>>
vars == <<accumulator, sender, answers, tm, client, wire, brokers, aged, mode, faults>>

Leader == mode.leader
managed == mode.manager # "none"
transactional == mode.manager = "transactional"
guarantee_message_order == mode.inflight = 1

Batch(i) == batch[i]
Of(p) == {i \in DOMAIN batch : batch[i].tp = p}
Queued == UNION {{queues[p][k] : k \in DOMAIN queues[p]} : p \in Partition}
Written(i) == {k \in DOMAIN log[batch[i].tp] : log[batch[i].tp][k].b = i}
Unfinished == {i \in DOMAIN batch : batch[i].final = "none"}

-----------------------------------------------------------------------------
(* The application's calls. *)

idle == app.at = "ready"
Current == Len(txn)

\* send: the partition joins the transaction, then the record is appended.
send(p) ==
    /\ idle /\ mode.sends > app.sent
    /\ transactional => ready_for_send(tm)
    /\ tm' = IF transactional THEN maybe_add_partition_to_transaction(tm, p) ELSE tm
    /\ app' = [app EXCEPT !.at = "append", !.tp = p, !.sent = @ + 1]
    /\ UNCHANGED <<accumulator, sender, answers, txn, wire, brokers, aged, mode, faults>>

ProducerBatch(p) ==
    [tp |-> p, count |-> 1, open |-> TRUE, retry |-> FALSE, attempts |-> 0,
     pid |-> 0, seq |-> 0, txn |-> Current, final |-> "none"]

\* ProducerBatch.try_append.  Mutant: one record too many.
takes_one_more(i) == batch[i].open /\ batch[i].count <= BatchSize
try_append(i) == batch[i].open /\ batch[i].count < BatchSize

append ==
    LET p == app.tp
        last == queues[p][Len(queues[p])]
        new == Len(batch) + 1
    IN  /\ app.at = "append"
        /\ app' = [app EXCEPT !.at = "ready"]
        /\ \/ /\ queues[p] # <<>> /\ try_append(last)
              /\ batch' = [batch EXCEPT ![last].count = @ + 1]
              /\ UNCHANGED <<queues, incomplete>>
           \/ /\ batch' = Append(batch, ProducerBatch(p))
              /\ queues' = [queues EXCEPT ![p] = Append(@, new)]
              /\ incomplete' = incomplete \cup {new}
        /\ UNCHANGED <<flushes, muted, in_flight_batches, sender, answers, tm, txn, wire, brokers, aged, mode, faults>>

\* flush and, as its first part, close.
flush(then) ==
    /\ idle
    /\ app' = [app EXCEPT !.at = then, !.waits = incomplete]
    /\ flushes' = flushes + 1
    /\ UNCHANGED <<batch, queues, incomplete, muted, in_flight_batches, sender, answers, tm, txn, wire, brokers,
                   aged, mode, faults>>

await_flush_completion ==
    /\ app.at \in {"flush", "close"}
    /\ app.waits \cap Unfinished = {}
    /\ flushes' = flushes - 1
    /\ app' = [app EXCEPT !.at = IF @ = "flush" THEN "ready" ELSE "join"]
    /\ sender' = IF app.at = "close" THEN [sender EXCEPT !.running = FALSE] ELSE sender
    /\ UNCHANGED <<batch, queues, incomplete, muted, in_flight_batches, answers, tm, txn, wire, brokers,
                   aged, mode, faults>>

\* Neither a flush nor a close whose flush has timed out goes any further.
flush_times_out ==
    /\ app.at \in {"flush", "close"}
    /\ flushes' = flushes - 1
    /\ app' = [app EXCEPT !.at = "ready"]
    /\ UNCHANGED <<batch, queues, incomplete, muted, in_flight_batches, sender, answers, tm, txn, wire, brokers,
                   aged, mode, faults>>

\* close: the sender thread has ended, or is told not to send what is left.
join ==
    /\ app.at = "join"
    /\ app' = [app EXCEPT !.at = "closed"]
    /\ sender' = IF sender.pc \in {"closed", "dead"} THEN sender ELSE [sender EXCEPT !.force = TRUE]
    /\ UNCHANGED <<accumulator, answers, tm, txn, wire, brokers, aged, mode, faults>>

calls_manager(result) ==
    /\ app' = [app EXCEPT !.at = "wait", !.result = result]
    /\ UNCHANGED <<accumulator, sender, answers, wire, brokers, aged, mode, faults>>

\* A call after a timeout goes on waiting for the request there is.
init_transactions ==
    /\ idle /\ transactional
    /\ \/ can_initialize(tm) /\ tm' = initialize_transactions(tm)
       \/ tm.results["init"] = "pending" /\ tm' = tm
    /\ calls_manager("init") /\ UNCHANGED txn

begin ==
    /\ idle /\ transactional /\ can_begin(tm) /\ Current < mode.txns
    /\ tm' = begin_transaction(tm)
    /\ txn' = Append(txn, "begun")
    /\ UNCHANGED <<accumulator, sender, answers, app, wire, brokers, aged, mode, faults>>

commit_transaction ==
    /\ idle /\ transactional /\ can_commit(tm)
    /\ tm' = begin_commit(tm)
    /\ txn' = [txn EXCEPT ![Current] = "commit"]
    /\ calls_manager("end")

abort_transaction ==
    /\ idle /\ transactional /\ can_abort(tm)
    /\ tm' = begin_abort(tm)
    /\ txn' = [txn EXCEPT ![Current] = "abort"]
    /\ calls_manager("end")

offsets_to_transaction ==
    /\ idle /\ transactional /\ can_send_offsets(tm) /\ tm.results["offsets"] = "none"
    /\ tm' = send_offsets_to_transaction(tm)
    /\ calls_manager("offsets") /\ UNCHANGED txn

call_returns ==
    /\ app.at = "wait"
    /\ \/ tm.results[app.result] \in {"done", "failed"}
       \/ app.result = "init"                       \* a KafkaTimeoutError after max_block_ms
    /\ txn' = IF app.result = "end" /\ tm.results["end"] = "done"
              THEN [txn EXCEPT ![Current] = IF @ = "commit" THEN "committed" ELSE "aborted"] ELSE txn
    /\ app' = [app EXCEPT !.at = "ready"]
    /\ UNCHANGED <<accumulator, sender, answers, tm, wire, brokers, aged, mode, faults>>

Application ==
    \/ \E p \in Partition : send(p)
    \/ append \/ flush("flush") \/ flush("close") \/ await_flush_completion \/ flush_times_out \/ join
    \/ init_transactions \/ begin \/ commit_transaction \/ abort_transaction \/ offsets_to_transaction
    \/ call_returns

-----------------------------------------------------------------------------
(* Finishing batches. *)

settled(bs, ids, how) == [i \in DOMAIN bs |-> IF i \in ids THEN [bs[i] EXCEPT !.final = how] ELSE bs[i]]

\* RecordAccumulator.abort_undrained_batches and _abort_batches: the first batch
\* that is in no queue raises, whatever batches have been aborted before it.
abortable(A) ==
    /\ A \subseteq incomplete \cap Queued
    /\ incomplete \subseteq Queued => A = incomplete
abort_raises == ~(incomplete \subseteq Queued)
\* What is left of a queue when the batches ids are removed from it.
Kept(q, ids) ==
    LET first[k \in 0 .. Len(q)] ==
            IF k = 0 THEN <<>> ELSE IF q[k] \in ids THEN first[k - 1] ELSE Append(first[k - 1], q[k])
    IN  first[Len(q)]
without(ids) == [p \in Partition |-> Kept(queues[p], ids)]
abort(A) ==
    /\ batch' = settled(batch, A, "ABORTED")
    /\ queues' = without(A)
    /\ incomplete' = incomplete \ A

\* Sender._fail_batch: the manager after the failure, unless that raises.
fail_raises(m, error) ==
    transactional /\ error \notin {"unknown_producer", "fatal"} /\ abortable_error_raises(m)
fail_manager(m, b, error) ==
    CASE ~managed -> m
      [] managed /\ error = "out_of_order" /\ ~transactional /\ m.pid = b.pid -> reset_producer_id(m)
      [] managed /\ error = "unknown_producer" -> reset_sequence_for_partition(m, b.tp)
      [] managed /\ error = "fatal" -> transition_to_fatal_error(m)
      [] OTHER -> IF transactional THEN transition_to_abortable_error(m) ELSE m

retriable(error) == error \in {"disconnected", "not_leader"}

\* Mutant: what has been given up meanwhile is sent again all the same.
can_retry_again(i, error) == batch[i].attempts < mode.retries /\ retriable(error)
_can_retry(i, error) ==
    i > aged /\ batch[i].attempts < mode.retries /\ batch[i].final = "none" /\ retriable(error)

\* RecordAccumulator.reenqueue, ProducerBatch.retry.
\* Mutant: a batch to be sent again goes to the end.
reenqueue_last(i) ==
    /\ batch' = [batch EXCEPT ![i].retry = TRUE, ![i].attempts = @ + 1]
    /\ queues' = [queues EXCEPT ![batch[i].tp] = Append(@, i)]
reenqueue_batch(i) ==
    /\ batch' = [batch EXCEPT ![i].retry = TRUE, ![i].attempts = @ + 1]
    /\ queues' = [queues EXCEPT ![batch[i].tp] = <<i>> \o @]

\* done: the final state is set once.
finish(i, how) ==
    IF batch[i].final = "none"
    THEN /\ batch' = settled(batch, {i}, how)
         /\ in_flight_batches' = in_flight_batches \ {i}
         /\ incomplete' = incomplete \ {i}
    ELSE UNCHANGED <<batch, in_flight_batches, incomplete>>

\* Mutant: the sequence number is not raised.
unmute_only(i) == muted' = muted \ {batch[i].tp} /\ tm' = tm
acknowledge(i) ==
    /\ muted' = muted \ {batch[i].tp}
    /\ tm' = IF managed /\ tm.pid = batch[i].pid THEN increment_sequence_number(tm, batch[i].tp, batch[i].count) ELSE tm

_complete_batch(i, error) ==
    IF error = "none"
    THEN finish(i, "SUCCEEDED") /\ acknowledge(i) /\ UNCHANGED queues
    ELSE IF _can_retry(i, error) /\ (managed => tm.pid = batch[i].pid)
    THEN /\ reenqueue_batch(i)
         /\ in_flight_batches' = in_flight_batches \ {i}
         /\ muted' = muted \ {batch[i].tp}
         /\ UNCHANGED <<incomplete, tm>>
    ELSE /\ error # "disconnected" /\ ~fail_raises(tm, error)
         /\ tm' = fail_manager(tm, batch[i], error)
         /\ finish(i, "FAILED")
         /\ muted' = muted \ {batch[i].tp}
         /\ UNCHANGED queues

\* _fail_batch raises, in the manager or because _failed_produce hands it an
\* exception where it calls a class: the batch stays as it is, its partition
\* muted, and the batches after it in the same request are not looked at.
completes ==
    LET a == Head(answers)
    IN  /\ answers # <<>>
        /\ \/ _complete_batch(a.b, a.error) /\ answers' = Tail(answers)
           \/ /\ a.error = "disconnected" \/ (a.error # "none" /\ fail_raises(tm, a.error))
              /\ ~(_can_retry(a.b, a.error) /\ (managed => tm.pid = batch[a.b].pid))
              /\ \E n \in DOMAIN answers :
                    /\ \A k \in DOMAIN answers : k <= n <=> answers[k].request = a.request
                    /\ answers' = SubSeq(answers, n + 1, Len(answers))
              /\ UNCHANGED <<batch, queues, incomplete, muted, in_flight_batches, tm>>
        /\ UNCHANGED <<flushes, sender, client, wire, brokers, aged, mode, faults>>

-----------------------------------------------------------------------------
(* The sender thread. *)

in_flight == \E n \in Node : wire[n] # <<>>
runs == /\ sender.pc = "run" /\ answers = <<>>
        /\ sender.running \/ (~sender.force /\ (Queued # {} \/ in_flight \/ has_in_flight_transactional_request(tm)))
goes(pc) == sender' = [sender EXCEPT !.pc = pc]

\* Why run_once would not come to sending batches.
completing == transactional /\ is_completing(tm) /\ incomplete # {}
failed(m) == managed /\ (has_fatal_error(m) \/ ~has_producer_id(m))
asks == transactional /\ ~has_in_flight_transactional_request(tm)

\* _maybe_wait_for_producer_id, of an idempotent producer.
waits_for_producer_id ==
    /\ runs /\ mode.manager = "idempotent" /\ ~has_producer_id(tm)
    /\ goes("acquire")
    /\ UNCHANGED <<accumulator, answers, tm, client, wire, brokers, aged, mode, faults>>

_maybe_wait_for_producer_id ==
    /\ sender.pc = "acquire" /\ answers = <<>>
    /\ \/ /\ coord' = [coord EXCEPT !.pid = @ + 1]
          /\ tm' = set_producer_id_and_epoch(tm, coord.pid + 1)
          /\ UNCHANGED faults
       \/ /\ faults < MaxFaults /\ faults' = faults + 1
          /\ tm' = transition_to_fatal_error(tm)
          /\ UNCHANGED coord
    /\ goes("run")
    /\ UNCHANGED <<accumulator, answers, client, wire, stray, log, aged, mode>>

\* _maybe_send_transactional_request up to the request it is going to send; an
\* abort with a batch in flight raises, and run_once is over without a poll.
aborts_batches ==
    /\ runs /\ asks /\ completing /\ is_aborting(tm)
    /\ \E A \in SUBSET incomplete : abortable(A) /\ abort(A)
    /\ UNCHANGED <<flushes, muted, in_flight_batches, sender, answers, tm, client, wire, brokers, aged, mode, faults>>

_maybe_send_transactional_request ==
    LET next == next_request_handler(tm, incomplete # {})
    IN  /\ runs /\ asks
        /\ ~(completing /\ is_aborting(tm))
        /\ flushes' = IF completing /\ flushes = 0 THEN 1 ELSE flushes
        /\ next.request # NoRequest
        /\ tm' = next.tm
        /\ sender' = [sender EXCEPT !.pc = "await", !.request = next.request]
        /\ UNCHANGED <<batch, queues, incomplete, muted, in_flight_batches, answers, client, wire, brokers, aged, mode, faults>>

\* The request is sent, the coordinator is looked for first, or the connection
\* fails: then the coordinator is looked for and the request is not kept.
request_sent ==
    LET r == sender.request IN
    /\ sender.pc = "await" /\ answers = <<>>
    /\ needs_coordinator(r) => tm.coordinator[coordinator_type(r)]
    /\ tm' = [tm EXCEPT !.in_flight = r]
    /\ sender' = [sender EXCEPT !.pc = "poll", !.request = NoRequest]
    /\ UNCHANGED <<accumulator, answers, client, wire, brokers, aged, mode, faults>>

request_put_off ==
    LET r == sender.request
        known == tm.coordinator[coordinator_type(r)]
    IN  /\ sender.pc = "await" /\ answers = <<>> /\ needs_coordinator(r)
        /\ IF known THEN faults < MaxFaults /\ faults' = faults + 1 ELSE UNCHANGED faults
        /\ \/ tm' = _enqueue_request(lookup_coordinator_for_request(tm, r), r)
           \/ known /\ tm' = lookup_coordinator_for_request(tm, r)
        /\ sender' = [sender EXCEPT !.pc = "poll", !.request = NoRequest]
        /\ UNCHANGED <<accumulator, answers, client, wire, brokers, aged, mode>>

\* run_once when there is nothing to ask the coordinator, or an answer is awaited.
nothing_to_ask ==
    \/ ~transactional
    \/ /\ asks /\ ~(completing /\ is_aborting(tm))
       /\ next_request_handler(tm, incomplete # {}).request = NoRequest
after_asking == IF transactional THEN next_request_handler(tm, incomplete # {}).tm ELSE tm
flushes_after == IF completing /\ flushes = 0 THEN 1 ELSE flushes

only_polls ==
    /\ runs
    /\ \/ /\ transactional /\ has_in_flight_transactional_request(tm)
          /\ UNCHANGED <<tm, flushes>>
       \/ /\ nothing_to_ask /\ failed(after_asking) /\ (mode.manager = "idempotent" => has_producer_id(tm))
          /\ ~(has_fatal_error(after_asking) /\ incomplete # {})      \* _maybe_abort_batches raises
          /\ tm' = after_asking /\ flushes' = flushes_after
    /\ goes("poll")
    /\ UNCHANGED <<batch, queues, incomplete, muted, in_flight_batches, answers, client, wire, brokers, aged, mode, faults>>

\* The abortable error of a transaction: what has not been sent is aborted first.
aborts_undrained ==
    /\ runs /\ nothing_to_ask /\ has_abortable_error(after_asking) /\ incomplete # {}
    /\ \E A \in SUBSET incomplete : abortable(A) /\ abort(A)
    /\ tm' = after_asking
    /\ UNCHANGED <<flushes, muted, in_flight_batches, sender, answers, client, wire, brokers, aged, mode, faults>>

\* RecordAccumulator.ready and drain_batches_for_one_node.
can_send_more(n) == Len(wire[n]) < mode.inflight
drainable(p) ==
    /\ queues[p] # <<>> /\ p \notin muted /\ can_send_more(Leader[p])
    /\ managed => is_send_to_partition_allowed(tm, transactional, p) /\ has_producer_id(tm)

stamped(b) ==
    IF managed /\ ~b.retry THEN [b EXCEPT !.open = FALSE, !.pid = tm.pid, !.seq = tm.seq[b.tp]]
    ELSE [b EXCEPT !.open = FALSE]

\* expired_batches: those at the head of a queue.
late(q) == CHOOSE n \in 0 .. Len(q) : /\ \A k \in 1 .. n : q[k] <= aged
                                      /\ n < Len(q) => q[n + 1] > aged

\* _get_expired_inflight_batches.
expired_in_flight(ids) == {i \in ids : i <= aged}

produce_request(n, ids) == {i \in ids : Leader[batch[i].tp] = n}
requests(ids) ==
    [n \in Node |-> IF produce_request(n, ids) = {} THEN wire[n] ELSE Append(wire[n], produce_request(n, ids))]

mute(D) == muted' = IF guarantee_message_order THEN muted \cup D ELSE muted

_send_producer_data(D, m) ==
    LET drained == {Head(queues[p]) : p \in D}
        rest    == [p \in Partition |-> IF p \in D THEN Tail(queues[p]) ELSE queues[p]]
        flying  == in_flight_batches \cup drained
        expired == (UNION {{rest[p][k] : k \in 1 .. late(rest[p])} : p \in Partition}) \cup expired_in_flight(flying)
        sent    == [i \in DOMAIN batch |-> IF i \in drained THEN stamped(batch[i]) ELSE batch[i]]
        raises  == expired # {} /\ fail_raises(m, "timeout")
        reset   == managed /\ \E i \in expired : batch[i].retry
        after   == IF expired # {} /\ transactional THEN transition_to_abortable_error(m) ELSE m
    IN  /\ queues' = [p \in Partition |-> SubSeq(rest[p], late(rest[p]) + 1, Len(rest[p]))]
        /\ in_flight_batches' = flying \ expired
        /\ mute(D)
        /\ batch' = IF raises THEN sent ELSE settled(sent, expired, "FAILED")
        /\ incomplete' = IF raises THEN incomplete ELSE incomplete \ expired
        /\ tm' = IF raises THEN m ELSE IF reset /\ ~transactional THEN reset_producer_id(after) ELSE after
        /\ wire' = IF raises \/ reset THEN wire ELSE requests(drained)
        /\ goes(IF raises \/ (reset /\ transactional) THEN "run" ELSE "poll")

sends_data ==
    /\ runs /\ nothing_to_ask /\ ~failed(after_asking)
    /\ ~(has_abortable_error(after_asking) /\ incomplete # {})
    /\ flushes' = flushes_after
    /\ \E D \in SUBSET {p \in Partition : drainable(p)} : _send_producer_data(D, after_asking)
    /\ UNCHANGED <<answers, client, brokers, aged, mode, faults>>

poll_returns ==
    /\ sender.pc = "poll" /\ answers = <<>>
    /\ goes("run")
    /\ UNCHANGED <<accumulator, answers, tm, client, wire, brokers, aged, mode, faults>>

\* The end of run: what is left is aborted, unless it has been sent.
run_ends ==
    /\ sender.pc = "run" /\ answers = <<>> /\ ~runs
    /\ IF sender.force
       THEN /\ \E A \in SUBSET incomplete : abortable(A) /\ abort(A)
            /\ goes(IF abort_raises THEN "dead" ELSE "closed")
       ELSE goes("closed") /\ UNCHANGED <<batch, queues, incomplete>>
    /\ UNCHANGED <<flushes, muted, in_flight_batches, answers, tm, client, wire, brokers, aged, mode, faults>>

Sender ==
    \/ waits_for_producer_id \/ _maybe_wait_for_producer_id \/ aborts_batches
    \/ _maybe_send_transactional_request \/ request_sent \/ request_put_off
    \/ only_polls \/ aborts_undrained \/ sends_data \/ poll_returns \/ run_ends \/ completes

-----------------------------------------------------------------------------
(* Brokers (external): a leader writes a batch unless it has written it already
   or it is out of order; the coordinator decides transactions.             *)

at_fault == faults < MaxFaults /\ faults' = faults + 1
no_fault == UNCHANGED faults

OfProducer(l, pid) == SelectSeq(l, LAMBDA e : batch[e.b].pid = pid)
NextSequence(l, pid) ==
    LET mine == OfProducer(l, pid) IN
    IF mine = <<>> THEN 0 ELSE LET b == batch[mine[Len(mine)].b] IN b.seq + b.count
IsDuplicate(l, b) ==
    \E k \in DOMAIN l : LET w == batch[l[k].b] IN w.pid = b.pid /\ w.seq = b.seq /\ w.count = b.count

Verdict(l, i) ==
    CASE coord.fenced -> "fatal"
      [] ~coord.fenced /\ batch[i].pid # 0 /\ IsDuplicate(l, batch[i]) -> "duplicate"
      [] ~coord.fenced /\ batch[i].pid # 0 /\ ~IsDuplicate(l, batch[i]) /\ batch[i].seq # NextSequence(l, batch[i].pid)
            -> "out_of_order"
      [] OTHER -> "append"
WithBatch(l, i) ==
    IF Verdict(l, i) = "append" THEN Append(l, [b |-> i, mark |-> IF transactional THEN "open" ELSE "plain"]) ELSE l
WithBatches(ids) ==
    [p \in Partition |-> IF \E i \in ids : batch[i].tp = p
                         THEN WithBatch(log[p], CHOOSE i \in ids : batch[i].tp = p) ELSE log[p]]
ErrorOf(i) ==
    LET v == Verdict(log[batch[i].tp], i) IN IF v \in {"append", "duplicate"} THEN "none" ELSE v

\* The answers to requests, one after the other, each in some order of its partitions.
InSomeOrder(ids, error(_), request(_)) ==
    {[k \in DOMAIN o |-> [b |-> o[k], error |-> error(o[k]), request |-> request(o[k])]] :
        o \in {f \in [1 .. Cardinality(ids) -> ids] :
                 \A j, k \in DOMAIN f : j < k => f[j] # f[k] /\ request(f[j]) <= request(f[k])}}
Only(i) == 1

polling == sender.pc \in {"poll", "await", "acquire"} /\ answers = <<>>

\* A produce request is written and answered; one partition of it may be led by
\* another broker by now, or not be open to this producer.
BrokerAnswers(n) ==
    LET ids == Head(wire[n]) IN
    /\ polling /\ wire[n] # <<>>
    /\ wire' = [wire EXCEPT ![n] = Tail(@)]
    /\ \/ /\ answers' \in InSomeOrder(ids, ErrorOf, Only)
          /\ log' = WithBatches(ids)
          /\ no_fault
       \/ \E i \in ids, e \in {"not_leader", "unauthorized"} :
             /\ answers' \in InSomeOrder(ids, LAMBDA j : IF j = i THEN e ELSE ErrorOf(j), Only)
             /\ log' = WithBatches(ids \ {i})
             /\ at_fault
    /\ UNCHANGED <<accumulator, sender, tm, client, stray, coord, aged, mode>>

\* Every request in flight to the node fails; it has written a few of them, and
\* may still come to the rest.
ConnectionLost(n) ==
    LET ids == UNION {wire[n][k] : k \in DOMAIN wire[n]} IN
    /\ polling /\ wire[n] # <<>>
    /\ at_fault
    /\ wire' = [wire EXCEPT ![n] = <<>>]
    /\ answers' \in InSomeOrder(ids, LAMBDA i : "disconnected", LAMBDA i : CHOOSE k \in DOMAIN wire[n] : i \in wire[n][k])
    /\ \/ log' = WithBatches(wire[n][1]) /\ stray' = stray
       \/ log' = log /\ stray' = stray \cup ids
    /\ UNCHANGED <<accumulator, sender, tm, client, coord, aged, mode>>

StrayWritten ==
    \E i \in stray :
        /\ stray' = stray \ {i}
        /\ log' = WithBatches({i})
        /\ UNCHANGED <<accumulator, sender, answers, tm, client, wire, coord, aged, mode, faults>>

Ended(parts, mark) ==
    [p \in Partition |-> [k \in DOMAIN log[p] |->
        IF p \in parts /\ log[p][k].mark = "open" THEN [log[p][k] EXCEPT !.mark = mark] ELSE log[p][k]]]

Effect(r) ==
    CASE r.kind = "InitProducerId" ->
            log' = Ended(coord.parts, "aborted") /\ coord' = [coord EXCEPT !.pid = @ + 1, !.parts = {}]
      [] r.kind = "AddPartitions" -> log' = log /\ coord' = [coord EXCEPT !.parts = @ \cup r.parts]
      [] r.kind = "EndTxn" ->
            log' = Ended(coord.parts, IF r.committed THEN "committed" ELSE "aborted")
            /\ coord' = [coord EXCEPT !.parts = {}]
      [] OTHER -> UNCHANGED <<log, coord>>

Fenced(r) == coord.fenced /\ r.kind \in {"AddPartitions", "AddOffsets", "EndTxn", "TxnOffsetCommit"}

CoordinatorAnswers ==
    LET r == tm.in_flight IN
    /\ polling /\ r # NoRequest
    /\ \/ ~Fenced(r) /\ Effect(r) /\ tm' = on_complete(tm, "answered", "none", coord.pid + 1) /\ no_fault
       \/ Fenced(r) /\ tm' = on_complete(tm, "answered", "fatal", 0) /\ no_fault /\ UNCHANGED <<log, coord>>
       \/ /\ at_fault /\ UNCHANGED <<log, coord>>
          /\ \E e \in Errors \ {"none"} : tm' = on_complete(tm, "answered", e, 0)
       \/ at_fault /\ tm' = on_complete(tm, "failed", "none", 0) /\ UNCHANGED <<log, coord>>
       \/ /\ at_fault /\ tm' = on_complete(tm, "lost", "none", 0)
          /\ (~Fenced(r) /\ Effect(r)) \/ UNCHANGED <<log, coord>>
    /\ UNCHANGED <<accumulator, sender, answers, client, wire, stray, aged, mode>>

\* Another producer starts with the same transactional id.
OtherProducer ==
    /\ transactional /\ tm.pid # 0 /\ ~coord.fenced
    /\ at_fault
    /\ log' = Ended(coord.parts, "aborted")
    /\ coord' = [coord EXCEPT !.fenced = TRUE, !.parts = {}]
    /\ UNCHANGED <<accumulator, sender, answers, tm, client, wire, stray, aged, mode>>

TimePasses ==
    /\ aged < Len(batch) /\ aged < mode.ages
    /\ aged' = aged + 1
    /\ UNCHANGED <<accumulator, sender, answers, tm, client, wire, brokers, mode, faults>>

Broker == \/ \E n \in Node : BrokerAnswers(n) \/ ConnectionLost(n)
          \/ StrayWritten \/ CoordinatorAnswers \/ OtherProducer

-----------------------------------------------------------------------------

Init ==
    /\ mode \in Modes
    /\ batch = <<>> /\ queues = [p \in Partition |-> <<>>] /\ incomplete = {} /\ flushes = 0
    /\ muted = {} /\ in_flight_batches = {} /\ answers = <<>>
    /\ sender = [pc |-> "run", running |-> TRUE, force |-> FALSE, request |-> NoRequest]
    /\ tm = TransactionManager
    /\ app = [at |-> "ready", tp |-> CHOOSE p \in Partition : TRUE, waits |-> {}, result |-> "init", sent |-> 0]
    /\ txn = <<>>
    /\ wire = [n \in Node |-> <<>>] /\ stray = {} /\ log = [p \in Partition |-> <<>>]
    /\ coord = [pid |-> 0, parts |-> {}, fenced |-> FALSE]
    /\ aged = 0 /\ faults = 0

Next == Application \/ Sender \/ Broker \/ TimePasses

Spec == Init /\ [][Next]_vars

-----------------------------------------------------------------------------
(* Properties. *)

Id == DOMAIN batch

\* Every part of the state has its type.
TypeOK ==
    /\ mode \in Modes /\ faults \in 0 .. MaxFaults /\ aged \in 0 .. Len(batch) /\ flushes \in Nat
    /\ batch \in Seq([tp : Partition, count : 1 .. BatchSize, open : BOOLEAN, retry : BOOLEAN, attempts : Nat,
                      pid : Nat, seq : Nat, txn : Nat, final : {"none", "SUCCEEDED", "FAILED", "ABORTED"}])
    /\ queues \in [Partition -> Seq(Id)] /\ incomplete \subseteq Id /\ in_flight_batches \subseteq Id
    /\ muted \subseteq Partition
    /\ wire \in [Node -> Seq(SUBSET Id)] /\ stray \subseteq Id
    /\ answers \in Seq([b : Id, error : {"none", "fatal", "out_of_order", "not_leader", "unauthorized", "disconnected"},
                        request : Nat])
    /\ tm.state \in States /\ tm.seq \in [Partition -> Nat]
    /\ tm.new \cup tm.pending \cup tm.added \subseteq Partition
    /\ sender.pc \in {"run", "acquire", "await", "poll", "closed", "dead"}
    /\ app.at \in {"ready", "append", "flush", "close", "join", "wait", "closed"}
    /\ log \in [Partition -> Seq([b : Id, mark : {"plain", "open", "committed", "aborted"}])]

\* A batch without a result is in exactly one place, a queue or the batches in
\* flight, and is among those a flush waits for; one with a result is in none.
NothingForgotten ==
    /\ incomplete = Unfinished
    /\ Queued \cup in_flight_batches = Unfinished
    /\ Queued \cap in_flight_batches = {}
    /\ \A p \in Partition : \A j, k \in DOMAIN queues[p] : j # k => queues[p][j] # queues[p][k]

\* An earlier batch that was given up has been written with this batch's number.
NumberTaken(i) ==
    \E j \in Of(batch[i].tp) : /\ batch[j].final \in {"FAILED", "ABORTED"} /\ Written(j) # {}
                              /\ batch[j].pid = batch[i].pid /\ batch[j].seq = batch[i].seq

\* A record the application was told is written has been written, and by an
\* idempotent producer once, whatever was sent again or arrives late.
AcknowledgedIsWritten ==
    \A i \in Id : /\ batch[i].final = "SUCCEEDED" /\ ~NumberTaken(i) => Written(i) # {}
                  /\ managed => Cardinality(Written(i)) <= 1

First(i) == CHOOSE k \in Written(i) : \A j \in Written(i) : k <= j

\* With one request in flight, records are written in the order they were sent in.
WrittenInOrder ==
    guarantee_message_order =>
        \A p \in Partition : \A i, j \in Of(p) :
            i < j /\ Written(i) # {} /\ Written(j) # {} /\ batch[i].final = batch[j].final /\ batch[i].final = "SUCCEEDED"
                => First(i) < First(j)

OfTxn(t) == {i \in Id : batch[i].txn = t}
Marks(i) == {log[batch[i].tp][k].mark : k \in Written(i)}

\* A transaction takes effect as a whole, and as the call that ended it says.  Left
\* aside are a batch that was given up after it had been sent, which may be written
\* later, and the batch that takes over its number.
Atomic ==
    LET takes_effect(j) == Marks(j) = {"committed"} \/ NumberTaken(j)
    IN  transactional =>
        \A t \in DOMAIN txn, i \in Id :
            /\ batch[i].txn = t /\ batch[i].final = "SUCCEEDED" /\ "committed" \in Marks(i) =>
                  txn[t] \in {"commit", "committed"} /\ \A j \in OfTxn(t) : takes_effect(j)
            /\ batch[i].txn = t /\ txn[t] = "committed" => batch[i].final = "SUCCEEDED" /\ takes_effect(i)
            /\ batch[i].txn = t /\ batch[i].final = "SUCCEEDED" /\ txn[t] = "aborted" => Marks(i) \subseteq {"aborted"}

\* RecordAccumulator and Sender: every batch is in one place until it has its result.
BatchesTracked == TypeOK /\ NothingForgotten

\* Sender: what is acknowledged is written, and in the order guarantee_message_order
\* promises, whatever is sent again, expires or arrives late.
DeliverySound == AcknowledgedIsWritten /\ WrittenInOrder
=============================================================================
