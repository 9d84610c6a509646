---------------------- MODULE KafkaTransactionManager ----------------------
(* The transaction manager of the kafka-python producer
   (producer/transaction_manager.py), as operators on a record: the state of
   the transaction, the producer id, the sequence numbers, the queue of requests
   to the coordinator and the results the application waits for.

   An operator named after a method gives the manager after it.  Where the method
   raises before it has changed anything, so the operator leaves it as it is.

   Abstractions: a producer id stands for the id and its epoch, 0 for none; the
   offsets of a transaction are pending or not.                              *)
EXTENDS Naturals, Sequences

CONSTANT Partition

States == {"UNINITIALIZED", "INITIALIZING", "READY", "IN_TRANSACTION", "COMMITTING_TRANSACTION",
           "ABORTING_TRANSACTION", "ABORTABLE_ERROR", "FATAL_ERROR"}
Kinds == {"FindCoordinator", "InitProducerId", "AddPartitions", "AddOffsets", "TxnOffsetCommit", "EndTxn"}
Coordinators == {"transaction", "group"}
Results == {"init", "end", "offsets"}

NoRequest == [kind |-> "none"]
Request == [kind : Kinds, parts : SUBSET Partition, committed : BOOLEAN, pid : Nat,
            key : Coordinators, result : Results \cup {"none"}]
Manager == [state : States, pid : Nat, seq : [Partition -> Nat],
            new : SUBSET Partition, pending : SUBSET Partition, added : SUBSET Partition,
            started : BOOLEAN, requests : Seq(Request), in_flight : Request \cup {NoRequest},
            coordinator : [Coordinators -> BOOLEAN], offsets : BOOLEAN,
            results : [Results -> {"none", "pending", "done", "failed"}]]

TransactionManager ==
    [state |-> "UNINITIALIZED", pid |-> 0, seq |-> [p \in Partition |-> 0],
     new |-> {}, pending |-> {}, added |-> {}, started |-> FALSE,
     requests |-> <<>>, in_flight |-> NoRequest,
     coordinator |-> [c \in Coordinators |-> FALSE], offsets |-> FALSE,
     results |-> [r \in Results |-> "none"]]

-----------------------------------------------------------------------------
(* States. *)

is_transition_valid(source, target) ==
    \/ target = "INITIALIZING" /\ source = "UNINITIALIZED"
    \/ target = "READY" /\ source \in {"INITIALIZING", "COMMITTING_TRANSACTION", "ABORTING_TRANSACTION"}
    \/ target = "IN_TRANSACTION" /\ source = "READY"
    \/ target = "COMMITTING_TRANSACTION" /\ source = "IN_TRANSACTION"
    \/ target = "ABORTING_TRANSACTION" /\ source \in {"IN_TRANSACTION", "ABORTABLE_ERROR"}
    \/ target = "ABORTABLE_ERROR" /\ source \in {"IN_TRANSACTION", "COMMITTING_TRANSACTION", "ABORTABLE_ERROR"}
    \/ target = "FATAL_ERROR"

can_transition_to(tm, target) == is_transition_valid(tm.state, target)
_transition_to(tm, target) == IF can_transition_to(tm, target) THEN [tm EXCEPT !.state = target] ELSE tm

has_error(tm) == tm.state \in {"ABORTABLE_ERROR", "FATAL_ERROR"}
has_fatal_error(tm) == tm.state = "FATAL_ERROR"
has_abortable_error(tm) == tm.state = "ABORTABLE_ERROR"
is_completing(tm) == tm.state \in {"COMMITTING_TRANSACTION", "ABORTING_TRANSACTION"}
is_aborting(tm) == tm.state = "ABORTING_TRANSACTION"
has_producer_id(tm) == tm.pid # 0
has_in_flight_transactional_request(tm) == tm.in_flight # NoRequest

abortable_error_raises(tm) == ~is_aborting(tm) /\ ~can_transition_to(tm, "ABORTABLE_ERROR")
transition_to_abortable_error(tm) == IF is_aborting(tm) THEN tm ELSE _transition_to(tm, "ABORTABLE_ERROR")
transition_to_fatal_error(tm) == _transition_to(tm, "FATAL_ERROR")

-----------------------------------------------------------------------------
(* Producer id and sequence numbers. *)

reset_producer_id(tm) == [tm EXCEPT !.pid = 0, !.seq = [p \in Partition |-> 0]]
set_producer_id_and_epoch(tm, pid) == [tm EXCEPT !.pid = pid]

\* Sequence numbers wrap at java's max int.
MaxInt == 2147483647
increment_sequence_number(tm, p, increment) ==
    [tm EXCEPT !.seq[p] = IF @ > MaxInt - increment THEN increment - (MaxInt - @) - 1 ELSE @ + increment]
reset_sequence_for_partition(tm, p) == [tm EXCEPT !.seq[p] = 0]

-----------------------------------------------------------------------------
(* The queue of requests. *)

priority(kind) ==
    CASE kind = "FindCoordinator" -> 0
      [] kind = "InitProducerId"  -> 1
      [] kind = "EndTxn"          -> 3
      [] OTHER                    -> 2

\* Behind those of its priority, in a queue that is kept in the order of priorities.
ahead(q, r) ==
    CHOOSE n \in 0 .. Len(q) : /\ \A k \in 1 .. n : priority(q[k].kind) <= priority(r.kind)
                               /\ n < Len(q) => priority(q[n + 1].kind) > priority(r.kind)
_enqueue_request(tm, r) ==
    LET n == ahead(tm.requests, r)
    IN  [tm EXCEPT !.requests = SubSeq(@, 1, n) \o <<r>> \o SubSeq(@, n + 1, Len(@))]

NewRequest(tm, kind) ==
    [kind |-> kind, parts |-> {}, committed |-> FALSE, pid |-> tm.pid, key |-> "transaction", result |-> "none"]

coordinator_type(r) == IF r.kind = "TxnOffsetCommit" THEN "group" ELSE "transaction"
needs_coordinator(r) == r.kind # "FindCoordinator"

_lookup_coordinator(tm, key) ==
    _enqueue_request([tm EXCEPT !.coordinator[key] = FALSE], [NewRequest(tm, "FindCoordinator") EXCEPT !.key = key])
lookup_coordinator_for_request(tm, r) == _lookup_coordinator(tm, coordinator_type(r))

result_done(tm, r, how) == IF r.result = "none" THEN tm ELSE [tm EXCEPT !.results[r.result] = how]

fatal_error(tm, r) == result_done(transition_to_fatal_error(tm), r, "failed")
abortable_error(tm, r) ==
    IF abortable_error_raises(tm) THEN tm ELSE result_done(transition_to_abortable_error(tm), r, "failed")

_add_partitions_to_transaction_handler(tm) ==
    LET moved == [tm EXCEPT !.pending = @ \cup tm.new, !.new = {}]
    IN  _enqueue_request(moved, [NewRequest(tm, "AddPartitions") EXCEPT !.parts = moved.pending])

_complete_transaction(tm) ==
    IF ~can_transition_to(tm, "READY") THEN tm
    ELSE [tm EXCEPT !.state = "READY", !.started = FALSE, !.new = {}, !.pending = {}, !.added = {}]

-----------------------------------------------------------------------------
(* What the application asks for.  Each has the condition it raises without. *)

can_initialize(tm) == can_transition_to(tm, "INITIALIZING")
initialize_transactions(tm) ==
    _enqueue_request([reset_producer_id(tm) EXCEPT !.state = "INITIALIZING", !.results["init"] = "pending"],
                     [NewRequest(tm, "InitProducerId") EXCEPT !.result = "init"])

can_begin(tm) == can_transition_to(tm, "IN_TRANSACTION")
begin_transaction(tm) == _transition_to(tm, "IN_TRANSACTION")

_begin_completing_transaction(tm, committed) ==
    LET joined == IF tm.new # {} THEN _add_partitions_to_transaction_handler(tm) ELSE tm
    IN  _enqueue_request([joined EXCEPT !.results["end"] = "pending"],
                         [NewRequest(tm, "EndTxn") EXCEPT !.committed = committed, !.result = "end"])

can_commit(tm) == can_transition_to(tm, "COMMITTING_TRANSACTION")
begin_commit(tm) == _begin_completing_transaction(_transition_to(tm, "COMMITTING_TRANSACTION"), TRUE)

can_abort(tm) == can_transition_to(tm, "ABORTING_TRANSACTION")
begin_abort(tm) ==
    _begin_completing_transaction([_transition_to(tm, "ABORTING_TRANSACTION") EXCEPT !.new = {}], FALSE)

can_send_offsets(tm) == tm.state = "IN_TRANSACTION"
send_offsets_to_transaction(tm) ==
    _enqueue_request([tm EXCEPT !.results["offsets"] = "pending"],
                     [NewRequest(tm, "AddOffsets") EXCEPT !.result = "offsets"])

ready_for_send(tm) == has_producer_id(tm) /\ tm.state = "IN_TRANSACTION"
is_partition_pending_add(tm, p) == p \in tm.new \cup tm.pending
maybe_add_partition_to_transaction(tm, p) ==
    IF p \in tm.added \/ is_partition_pending_add(tm, p) THEN tm ELSE [tm EXCEPT !.new = @ \cup {p}]

is_send_to_partition_allowed(tm, transactional, p) ==
    ~has_fatal_error(tm) /\ (transactional => p \in tm.added)

-----------------------------------------------------------------------------
(* next_request_handler: the manager afterwards and the request to send. *)

terminated_with_error(tm, r) == has_error(tm) /\ ~(has_abortable_error(tm) /\ r.kind = "FindCoordinator")

\* Mutant: the end of a transaction does not wait for its batches.
next_request_at_once(tm, incomplete) ==
    IF tm.requests = <<>> THEN [tm |-> tm, request |-> NoRequest]
    ELSE [tm |-> [tm EXCEPT !.requests = Tail(@)], request |-> Head(tm.requests)]

next_request_handler(tm, incomplete) ==
    LET joined == IF tm.new # {} THEN _add_partitions_to_transaction_handler(tm) ELSE tm
        first  == Head(joined.requests)
        popped == [joined EXCEPT !.requests = Tail(@)]
        ended  == _complete_transaction(result_done(popped, first, "done"))
    IN  CASE joined.requests = <<>> -> [tm |-> joined, request |-> NoRequest]
          [] joined.requests # <<>> /\ first.kind = "EndTxn" /\ incomplete -> [tm |-> joined, request |-> NoRequest]
          [] joined.requests # <<>> /\ ~(first.kind = "EndTxn" /\ incomplete) /\ terminated_with_error(joined, first) ->
                [tm |-> result_done(popped, first, "failed"), request |-> NoRequest]
          [] OTHER ->
                IF first.kind # "EndTxn" \/ joined.started THEN [tm |-> popped, request |-> first]
                ELSE IF ended.requests = <<>> THEN [tm |-> ended, request |-> NoRequest]
                ELSE [tm |-> [ended EXCEPT !.requests = Tail(@)], request |-> Head(ended.requests)]

-----------------------------------------------------------------------------
(* Responses.  "error" is the class of errors that are treated alike:
   "moved"     the coordinator is elsewhere or not available,
   "retry"     still loading, a transaction in progress, a topic not known yet,
   "refused"   a topic or a group is not authorized: the transaction must be aborted,
   "fatal"     fenced, transactional id not authorized, or unexpected.        *)

Errors == {"none", "moved", "retry", "refused", "fatal"}

reenqueue(tm, r) == _enqueue_request(tm, r)
reenqueue_elsewhere(tm, r) == _enqueue_request(_lookup_coordinator(tm, "transaction"), r)

InitProducerId_response(tm, r, error, pid) ==
    CASE error = "none"  -> result_done(_transition_to(set_producer_id_and_epoch(tm, pid), "READY"), r, "done")
      [] error = "moved" -> reenqueue_elsewhere(tm, r)
      [] error = "retry" -> reenqueue(tm, r)
      [] OTHER           -> fatal_error(tm, r)

AddPartitions_response(tm, r, error) ==
    CASE error = "none"  -> [tm EXCEPT !.pending = @ \ r.parts, !.added = @ \cup r.parts, !.started = TRUE]
      [] error = "moved" -> reenqueue_elsewhere(tm, r)
      [] error = "retry" -> reenqueue(tm, r)
      [] error = "refused" -> abortable_error([tm EXCEPT !.pending = @ \ r.parts], r)
      [] OTHER           -> fatal_error(tm, r)

FindCoordinator_response(tm, r, error) ==
    CASE error = "none"  -> [tm EXCEPT !.coordinator[r.key] = TRUE]
      [] error = "moved" -> reenqueue(tm, r)
      [] error = "refused" /\ r.key = "group" -> abortable_error(tm, r)
      [] OTHER           -> fatal_error(tm, r)

EndTxn_response(tm, r, error) ==
    CASE error = "none"  ->
            IF can_transition_to(tm, "READY") THEN result_done(_complete_transaction(tm), r, "done") ELSE tm
      [] error = "moved" -> reenqueue_elsewhere(tm, r)
      [] error = "retry" -> reenqueue(tm, r)
      [] OTHER           -> fatal_error(tm, r)

AddOffsets_response(tm, r, error) ==
    CASE error = "none"  ->
            _enqueue_request([tm EXCEPT !.offsets = TRUE, !.started = TRUE],
                             [NewRequest(tm, "TxnOffsetCommit") EXCEPT !.result = r.result])
      [] error = "moved" -> reenqueue_elsewhere(tm, r)
      [] error = "retry" -> reenqueue(tm, r)
      [] error = "refused" -> abortable_error(tm, r)
      [] OTHER           -> fatal_error(tm, r)

\* Any error raises: the errors of the response hide the module of the errors.
TxnOffsetCommit_response(tm, r, error) ==
    IF error = "none" THEN result_done([tm EXCEPT !.offsets = FALSE], r, "done") ELSE tm

handle_response(tm, r, error, pid) ==
    CASE r.kind = "InitProducerId"  -> InitProducerId_response(tm, r, error, pid)
      [] r.kind = "AddPartitions"   -> AddPartitions_response(tm, r, error)
      [] r.kind = "FindCoordinator" -> FindCoordinator_response(tm, r, error)
      [] r.kind = "EndTxn"          -> EndTxn_response(tm, r, error)
      [] r.kind = "AddOffsets"      -> AddOffsets_response(tm, r, error)
      [] OTHER                      -> TxnOffsetCommit_response(tm, r, error)

\* on_complete: "lost" is a KafkaConnectionError, "failed" any other, a request
\* timeout or a node that is not ready among them.
on_complete(tm, how, error, pid) ==
    LET r == tm.in_flight
        free == [tm EXCEPT !.in_flight = NoRequest]
    IN  CASE how = "lost" /\ needs_coordinator(r)  -> reenqueue(lookup_coordinator_for_request(free, r), r)
          [] how = "lost" /\ ~needs_coordinator(r) -> reenqueue(free, r)
          [] how = "failed"                        -> fatal_error(free, r)
          [] OTHER                                 -> handle_response(free, r, error, pid)
=============================================================================
