----------------------------- MODULE KafkaClient -----------------------------
(* The network client of the kafka-python layer (client_async.py) with its
   connections (conn.py, protocol/parser.py) and the metadata (cluster.py): the
   threads of a producer or a consumer send and poll through one client, which
   holds its lock while it polls but not while a request is queued or a
   completed one is handed to its callbacks.

   Abstractions: a request stands for its future; one address per host; time
   (backoffs, ages, timeouts, throttling) is nondeterminism; the transport is
   plain.  A client that knows the broker's version goes from the established
   connection to CONNECTED at once; one that does not asks for it first, on one
   thread, as in check_version.                                              *)
EXTENDS Integers, Sequences, FiniteSets, SequencesExt

CONSTANTS Thread, Bootstrap, Broker,
          MaxInFlight,  \* max_in_flight_requests_per_connection
          Modes         \* how the client is used: its threads, the requests they send, the
                        \* topics they add, the faults (connections refused or lost, requests too late, throttling)

ASSUME ClientAssumption ==
    /\ MaxInFlight \in Nat \ {0}
    /\ Modes \subseteq [threads : SUBSET Thread, sends : Nat, topics : Nat, faults : Nat, version_known : BOOLEAN]
    /\ \A m \in Modes : ~m.version_known => Cardinality(m.threads) = 1

VARIABLES s,        \* the client, its connections and the cluster's metadata
          wake,     \* the wakeup socket: a byte in it, and the flag _waking
          lock,     \* the thread that holds the client's lock
          thread,   \* where each thread is, and the node its call is about
          result,   \* what became of each request of a thread
          mode, faults

vars == <<s, wake, lock, thread, result, mode, faults>>

Node == Bootstrap \cup Broker
None == "none"
Threads == mode.threads

-----------------------------------------------------------------------------
(* Connections. *)

ApiVersionsIdx == 4      \* the newest ApiVersionsRequest
NotProbing == -1
VersionChecks == 4       \* the requests to probe with when no broker answers it

BrokerConnection ==
    [here |-> TRUE, state |-> "disconnected", in_flight_requests |-> <<>>, unsent |-> <<>>, sent |-> <<>>, back |-> <<>>,
     eof |-> FALSE, write |-> FALSE, backoff |-> FALSE, throttled |-> FALSE,
     identified |-> FALSE, idx |-> ApiVersionsIdx, check |-> NotProbing]
NoConnection == [BrokerConnection EXCEPT !.here = FALSE]

connected(c) == c.here /\ c.state = "connected"
connecting(c) == c.state \in {"connecting", "api_versions_send", "api_versions_recv"}
disconnected(c) == c.state = "disconnected"
blacked_out(c) == disconnected(c) /\ c.backoff
can_send_recv(c) == c.state \in {"connected", "api_versions_send", "api_versions_recv"}

\* Mutant: throttling counts, the requests in flight do not.
can_always_send_more(c) == ~c.throttled
can_send_more(c) == ~c.throttled /\ Len(c.in_flight_requests) < MaxInFlight

_can_send_request(c) == connected(c) /\ can_send_more(c)
_can_connect(x, n) ==
    IF x.conn[n].here THEN disconnected(x.conn[n]) /\ ~blacked_out(x.conn[n]) ELSE n \in Bootstrap \/ x.cluster.known

\* KafkaProtocol.send_request.
queued(c, r) == [c EXCEPT !.in_flight_requests = Append(@, r), !.unsent = Append(@, r)]

-----------------------------------------------------------------------------
(* The metadata. *)

ClusterMetadata == [known |-> FALSE, need_update |-> TRUE, aged |-> FALSE, recent |-> FALSE, topics |-> 0]

request_update(x) == [x EXCEPT !.cluster.need_update = TRUE]
failed_update(x) == [x EXCEPT !.cluster.recent = TRUE]
update_metadata(x, topics) ==
    [x EXCEPT !.cluster = [known |-> TRUE, need_update |-> FALSE, aged |-> FALSE, recent |-> TRUE, topics |-> topics]]
ttl_is_0(x) == (x.cluster.need_update \/ x.cluster.aged) /\ ~x.cluster.recent

MetadataRequest(x) == [kind |-> "metadata", id |-> x.topics]
ApiVersionsRequest == [kind |-> "api", id |-> 0]
UserRequest(i) == [kind |-> "user", id |-> i]

\* A future fails, and with it what waits for it.
\* Mutant: a refresh that failed counts as one in progress.
failed_unless_metadata(x, n, r) ==
    CASE r.kind = "metadata" -> failed_update(x)
      [] OTHER -> x
failed(x, n, r) ==
    CASE r.kind = "metadata" -> [failed_update(x) EXCEPT !.refresh = FALSE]
      [] r.kind = "api" -> [x EXCEPT !.conn[n] =
            IF @.check = NotProbing /\ @.idx > 0 THEN [@ EXCEPT !.idx = 0] ELSE [@ EXCEPT !.check = @ + 1]]
      [] r.kind = "user" -> x

Users(q) == {q[k].id : k \in {j \in DOMAIN q : q[j].kind = "user"}}

-----------------------------------------------------------------------------
(* State changes of a connection. *)

\* BrokerConnection.close, with the state change and the failures it causes.
\* Mutant: what is in flight is left to the callers.
closed_quietly(x, n, error, idle) ==
    IF disconnected(x.conn[n]) THEN x
    ELSE [x EXCEPT !.conn[n] = [BrokerConnection EXCEPT !.here = x.conn[n].here, !.backoff = error,
                                                        !.in_flight_requests = x.conn[n].in_flight_requests],
                   !.connecting = @ \ {n}]
closed(x, n, error, idle) ==
    LET c    == x.conn[n]
        shut == [x EXCEPT !.conn[n] = [BrokerConnection EXCEPT !.here = c.here, !.backoff = error,
                                           !.identified = c.identified, !.idx = c.idx, !.check = c.check],
                          !.connecting = @ \ {n}]
        told == IF c.here /\ n \in Broker /\ ~x.closed /\ ~idle THEN request_update(shut) ELSE shut
    IN  IF disconnected(c) THEN x
        ELSE FoldLeft(LAMBDA y, r : failed(y, n, r), told, c.in_flight_requests)

popped(x, n) ==
    LET out == closed([x EXCEPT !.conn[n].here = FALSE], n, FALSE, TRUE)
    IN  [out EXCEPT !.conn[n] = NoConnection]

\* The results of the requests that fail with a connection.
lost(x, N) == UNION {Users(x.conn[n].in_flight_requests) : n \in N}
with_failed(F) == result' = [i \in DOMAIN result |-> IF i \in F THEN "failed" ELSE result[i]]

\* CONNECTED: on a broker, the bootstrap connections have served.
Served(x, n) == IF n \in Broker THEN {m \in Bootstrap : x.conn[m].here} ELSE {}
complete(x, n) ==
    LET up == [x EXCEPT !.conn[n].state = "connected", !.conn[n].write = FALSE, !.connecting = @ \ {n}]
    IN  FoldLeft(popped, up, SetToSeq(Served(x, n)))

\* BrokerConnection.connect on a socket that is being connected.
asking(c) ==
    [queued([c EXCEPT !.state = "api_versions_recv"], ApiVersionsRequest) EXCEPT !.unsent = <<>>, !.sent = <<ApiVersionsRequest>>]
\* Mutant: one probe too many.
established_past_the_end(x, n) ==
    CASE mode.version_known -> complete(x, n)
      [] ~mode.version_known /\ x.conn[n].check > VersionChecks -> closed(x, n, TRUE, FALSE)
      [] OTHER -> [x EXCEPT !.conn[n] = asking(@)]
established(x, n) ==
    CASE mode.version_known -> complete(x, n)
      [] ~mode.version_known /\ x.conn[n].check = VersionChecks -> closed(x, n, TRUE, FALSE)
      [] OTHER -> [x EXCEPT !.conn[n] = asking(@)]

at_fault == faults < mode.faults /\ faults' = faults + 1
no_fault == UNCHANGED faults

\* _init_connect: there is a connection, or one begins.
begun(x, n) ==
    [x EXCEPT !.conn[n] = [(IF @.here THEN @ ELSE BrokerConnection) EXCEPT !.state = "connecting"],
              !.connecting = @ \cup {n}]
refused(x, n) ==
    [closed(begun(x, n), n, TRUE, FALSE) EXCEPT !.connecting = @ \ {n}]

-----------------------------------------------------------------------------
(* Calls that do not hold the client's lock. *)

at(t) == thread[t].at
with(t, pc, n) == thread' = [thread EXCEPT ![t] = [at |-> pc, node |-> n]]
goes(t, pc) == with(t, pc, None)
back(t) == goes(t, "idle")
stays == UNCHANGED <<lock, mode, faults>>

\* send: queue the request, or ask for a connection and fail.
send(t, n) ==
    /\ at(t) = "idle" /\ mode.version_known /\ Len(result) < mode.sends
    /\ \/ _can_send_request(s.conn[n]) /\ with(t, "send", n)
       \/ ~_can_send_request(s.conn[n]) /\ _can_connect(s, n) /\ with(t, "connect", n)
    /\ UNCHANGED <<s, wake, result>> /\ stays

maybe_connect(t) ==
    /\ at(t) = "connect"
    /\ s' = [s EXCEPT !.connecting = @ \cup {thread[t].node}]
    /\ goes(t, "wake")
    /\ UNCHANGED <<wake, result>> /\ stays

conn_send(t) ==
    LET c == s.conn[thread[t].node] IN
    /\ at(t) = "send"
    /\ IF _can_send_request(c) THEN with(t, "queue", thread[t].node) ELSE back(t)
    /\ UNCHANGED <<s, wake, result>> /\ stays

_send(t) ==
    LET n == thread[t].node
        c == s.conn[n]
        i == Len(result) + 1
    IN  /\ at(t) = "queue"
        /\ IF can_send_recv(c) /\ i <= mode.sends
           THEN /\ s' = [s EXCEPT !.conn[n] = queued(c, UserRequest(i))]
                /\ result' = Append(result, None)
                /\ with(t, "register", n)
           ELSE back(t) /\ UNCHANGED <<s, result>>
        /\ UNCHANGED wake /\ stays

registers(t) ==
    /\ at(t) = "register"
    /\ s' = [s EXCEPT !.sending = @ \cup {thread[t].node}]
    /\ goes(t, "wake")
    /\ UNCHANGED <<wake, result>> /\ stays

wakeup(t) ==
    /\ \/ at(t) = "wake" /\ (IF s.closed \/ wake.waking THEN back(t) ELSE goes(t, "wakes")) /\ UNCHANGED wake
       \/ at(t) = "wakes" /\ wake' = [byte |-> TRUE, waking |-> TRUE] /\ back(t)
    /\ UNCHANGED <<s, result>> /\ stays

add_topic(t) ==
    /\ at(t) = "idle" /\ mode.version_known /\ s.topics < mode.topics
    /\ s' = request_update([s EXCEPT !.topics = @ + 1])
    /\ UNCHANGED <<wake, thread, result>> /\ stays

\* close waits for the lock.
close(t) ==
    /\ at(t) = "idle" /\ lock = None /\ ~s.closed /\ mode.version_known
    /\ with_failed(lost(s, {n \in Node : s.conn[n].here}))
    /\ s' = FoldLeft(popped, [s EXCEPT !.closed = TRUE], SetToSeq({n \in Node : s.conn[n].here}))
    /\ UNCHANGED <<wake, thread>> /\ stays

-----------------------------------------------------------------------------
(* poll, under the client's lock. *)

poll(t) ==
    /\ at(t) = "idle" /\ lock = None /\ ~s.closed
    /\ lock' = t
    /\ goes(t, "connects")
    /\ s' = [s EXCEPT !.todo = s.connecting]
    /\ UNCHANGED <<wake, result, mode, faults>>

\* Attempt to complete pending connections.
_init_connect(t, n) ==
    LET x == [s EXCEPT !.todo = @ \ {n}] IN
    /\ at(t) = "connects" /\ n \in s.todo
    /\ \/ s.conn[n].here /\ ~disconnected(s.conn[n]) /\ s' = x /\ no_fault
       \/ _can_connect(s, n) /\ s' = begun(x, n) /\ no_fault
       \/ _can_connect(s, n) /\ s' = refused(x, n) /\ at_fault
       \/ ~_can_connect(s, n) /\ disconnected(s.conn[n]) /\ s' = [x EXCEPT !.connecting = @ \ {n}] /\ no_fault
    /\ UNCHANGED <<wake, lock, thread, result, mode>>

brokers(x) == IF x.cluster.known THEN Broker ELSE Bootstrap
in_flight(x, n) == Len(x.conn[n].in_flight_requests)
unloaded(x) == {n \in brokers(x) : _can_send_request(x.conn[n]) /\ in_flight(x, n) = 0}
usable(x) == {n \in brokers(x) : ~(blacked_out(x.conn[n]) \/ (connected(x.conn[n]) /\ x.conn[n].throttled))}
least_loaded_node(x) ==
    IF unloaded(x) # {} THEN unloaded(x)
    ELSE {n \in usable(x) : \A m \in usable(x) : in_flight(x, n) <= in_flight(x, m)}

refresh_due(x) == ttl_is_0(x) /\ ~x.refresh

\* _register_send_sockets.
armed(x) ==
    [x EXCEPT !.conn = [n \in Node |-> IF n \in x.sending /\ ~disconnected(x.conn[n])
                                       THEN [x.conn[n] EXCEPT !.write = TRUE] ELSE x.conn[n]],
              !.sending = {}]

asks_metadata(x, n) ==
    [x EXCEPT !.conn[n] = queued(@, MetadataRequest(x)), !.sending = @ \cup {n}, !.refresh = TRUE]

_maybe_refresh_metadata(t) ==
    /\ at(t) = "connects" /\ s.todo = {}
    /\ goes(t, "select")
    /\ \/ ~refresh_due(s) /\ s' = armed(s) /\ no_fault
       \/ refresh_due(s) /\ least_loaded_node(s) = {} /\ s' = armed(s) /\ no_fault
       \/ /\ refresh_due(s)
          /\ \E n \in least_loaded_node(s) :
               LET tries == s.connecting = {} /\ _can_connect(s, n) IN
               \/ _can_send_request(s.conn[n]) /\ s' = armed(asks_metadata(s, n)) /\ no_fault
               \/ ~_can_send_request(s.conn[n]) /\ tries /\ s' = armed(begun(s, n)) /\ no_fault
               \/ ~_can_send_request(s.conn[n]) /\ tries /\ s' = armed(refused(s, n)) /\ at_fault
               \/ ~_can_send_request(s.conn[n]) /\ ~tries /\ s' = armed(s) /\ no_fault
    /\ UNCHANGED <<wake, lock, result, mode>>

\* Mutant: the flag stays, and nobody wakes the poll any more.
clears_socket == wake' = [wake EXCEPT !.byte = FALSE]
clears == wake' = [byte |-> FALSE, waking |-> FALSE]

_clear_wake_fd(t) ==
    /\ at(t) \in {"select", "events"} /\ wake.byte
    /\ clears
    /\ goes(t, "events")
    /\ UNCHANGED <<s, lock, result, mode, faults>>

\* A socket that is writable: the connection is made or refused, or what is
\* queued goes out, some of it at least.
WriteEvent(t, n) ==
    LET c == s.conn[n] IN
    /\ at(t) \in {"select", "events"} /\ goes(t, "events")
    /\ \/ c.state = "connecting" /\ s' = established(s, n) /\ with_failed(lost(s, Served(s, n))) /\ no_fault
       \/ c.state = "api_versions_send" /\ s' = established(s, n) /\ UNCHANGED result /\ no_fault
       \/ c.state = "connecting" /\ s' = closed(s, n, TRUE, FALSE) /\ UNCHANGED result /\ at_fault
       \/ /\ c.state = "connected" /\ c.write /\ no_fault /\ UNCHANGED result
          /\ \E k \in 0 .. Len(c.unsent) :
                /\ k > 0 \/ c.unsent = <<>>
                /\ s' = [s EXCEPT !.conn[n].unsent = SubSeq(@, k + 1, Len(@)), !.conn[n].sent = @ \o SubSeq(c.unsent, 1, k),
                                  !.conn[n].write = k < Len(c.unsent)]
    /\ UNCHANGED <<wake, lock, mode>>

\* KafkaProtocol.receive_bytes: the responses read answer the oldest requests in flight.
responses(x, n) ==
    [j \in 1 .. Len(x.conn[n].back) |-> [node |-> n, request |-> x.conn[n].in_flight_requests[j]]]

\* BrokerConnection.recv.
\* Mutant: the request stays in flight.
received_and_kept(x, n) ==
    [x EXCEPT !.pending = @ \o responses(x, n), !.conn[n].back = <<>>]
received(x, n) ==
    [x EXCEPT !.pending = @ \o responses(x, n), !.conn[n].back = <<>>,
              !.conn[n].in_flight_requests = SubSeq(@, Len(x.conn[n].back) + 1, Len(@))]

ReadEvent(t, n) ==
    LET c == s.conn[n] IN
    /\ at(t) \in {"select", "events"} /\ goes(t, "events")
    /\ c.state \in {"api_versions_recv", "connected"} /\ (c.back # <<>> \/ c.eof)
    /\ IF c.eof \/ c.in_flight_requests = <<>>
       THEN s' = closed(s, n, TRUE, FALSE) /\ with_failed(lost(s, {n}))
       ELSE s' = received(s, n) /\ UNCHANGED result
    /\ UNCHANGED <<wake, lock, mode, faults>>

\* The end of _poll: requests that take too long, then a connection idle too long.
_poll_ends(t) ==
    /\ at(t) \in {"select", "events"}
    /\ goes(t, "fire")
    /\ lock' = None
    /\ \/ s' = s /\ UNCHANGED <<result, faults>>
       \/ \E n \in Node :
            /\ s.conn[n].here /\ s.conn[n].in_flight_requests # <<>>
            /\ s' = closed(s, n, TRUE, FALSE) /\ with_failed(lost(s, {n})) /\ at_fault
       \/ \E n \in Node :
            /\ connected(s.conn[n])
            /\ s' = popped(s, n) /\ with_failed(lost(s, {n})) /\ at_fault
    /\ UNCHANGED <<wake, mode>>

\* _handle_api_versions_response, _handle_check_version_response, and connect after them.
identified(x, n) == complete([x EXCEPT !.conn[n].identified = TRUE], n)
asks_lower(x, n, idx) ==
    [x EXCEPT !.conn[n].idx = idx, !.conn[n].state = "api_versions_send", !.conn[n].write = TRUE]

_fire_pending_completed_requests(t) ==
    /\ at(t) = "fire"
    /\ IF s.pending = <<>> THEN back(t) /\ UNCHANGED <<s, result, faults>>
       ELSE LET p == Head(s.pending)
                r == p.request
                x == [s EXCEPT !.pending = Tail(@)]
            IN  /\ UNCHANGED thread
                /\ \/ /\ r.kind = "user" /\ s' = x /\ result' = [result EXCEPT ![r.id] = "answered"] /\ no_fault
                   \/ /\ r.kind = "metadata" /\ s' = [update_metadata(x, r.id) EXCEPT !.refresh = FALSE]
                      /\ UNCHANGED result /\ no_fault
                   \/ /\ r.kind = "metadata" /\ at_fault /\ UNCHANGED result     \* no broker in the response
                      /\ s' = [failed_update(x) EXCEPT !.refresh = FALSE]
                   \/ /\ r.kind = "api" /\ s' = identified(x, p.node) /\ UNCHANGED result /\ no_fault
                   \/ /\ r.kind = "api" /\ s.conn[p.node].check = NotProbing /\ at_fault /\ UNCHANGED result
                      /\ \/ s' = closed(x, p.node, TRUE, FALSE)
                         \/ \E idx \in 0 .. s.conn[p.node].idx - 1 : s' = asks_lower(x, p.node, idx)
    /\ UNCHANGED <<wake, lock, mode>>

\* check_version begins with a connection to the least loaded node.
check_version(t) ==
    /\ at(t) = "idle" /\ ~mode.version_known /\ \A n \in Node : ~connecting(s.conn[n]) /\ ~s.conn[n].identified
    /\ \E n \in least_loaded_node(s) : _can_connect(s, n) /\ s' = begun(s, n)
    /\ UNCHANGED <<wake, thread, result>> /\ stays

-----------------------------------------------------------------------------
(* Brokers, the network and time (external). *)

BrokerAnswers(n) ==
    /\ s.conn[n].sent # <<>>
    /\ s' = [s EXCEPT !.conn[n].sent = Tail(@), !.conn[n].back = Append(@, Head(s.conn[n].sent))]
    /\ no_fault

BrokerThrottles(n) ==
    /\ connected(s.conn[n]) /\ ~s.conn[n].throttled /\ at_fault
    /\ s' = [s EXCEPT !.conn[n].throttled = TRUE]

ConnectionLost(n) ==
    /\ can_send_recv(s.conn[n]) /\ ~s.conn[n].eof /\ at_fault
    /\ s' = [s EXCEPT !.conn[n].eof = TRUE, !.conn[n].sent = <<>>]

TimePasses ==
    /\ \/ \E n \in Node : s.conn[n].backoff /\ s' = [s EXCEPT !.conn[n].backoff = FALSE]
       \/ \E n \in Node : s.conn[n].throttled /\ s' = [s EXCEPT !.conn[n].throttled = FALSE]
       \/ s.cluster.recent /\ s' = [s EXCEPT !.cluster.recent = FALSE]
       \/ s.cluster.known /\ ~s.cluster.aged /\ s' = [s EXCEPT !.cluster.aged = TRUE]
    /\ no_fault

Environment ==
    /\ \/ \E n \in Node : BrokerAnswers(n) \/ BrokerThrottles(n) \/ ConnectionLost(n)
       \/ TimePasses
    /\ UNCHANGED <<wake, lock, thread, result, mode>>

-----------------------------------------------------------------------------

Init ==
    /\ mode \in Modes
    /\ s = [conn |-> [n \in Node |-> NoConnection], connecting |-> {}, sending |-> {}, pending |-> <<>>, todo |-> {},
            refresh |-> FALSE, topics |-> 0, closed |-> FALSE, cluster |-> ClusterMetadata]
    /\ wake = [byte |-> FALSE, waking |-> FALSE] /\ lock = None
    /\ thread = [t \in Thread |-> [at |-> "idle", node |-> None]]
    /\ result = <<>> /\ faults = 0

Polls(t) ==
    \/ poll(t) \/ _maybe_refresh_metadata(t) \/ _clear_wake_fd(t) \/ _poll_ends(t)
    \/ _fire_pending_completed_requests(t)
    \/ \E n \in Node : _init_connect(t, n) \/ WriteEvent(t, n) \/ ReadEvent(t, n)

Calls(t) ==
    \/ \E n \in Node : send(t, n)
    \/ maybe_connect(t) \/ conn_send(t) \/ _send(t) \/ registers(t) \/ wakeup(t)
    \/ add_topic(t) \/ close(t) \/ check_version(t)

Next == (\E t \in Threads : Polls(t) \/ Calls(t)) \/ Environment

Spec == Init /\ [][Next]_vars

-----------------------------------------------------------------------------
(* Properties. *)

Request == [kind : {"user", "metadata", "api"}, id : Nat]
Occurrences(P(_)) ==
    LET in(q) == Cardinality({k \in DOMAIN q : P(q[k])})
        flying == FoldLeft(LAMBDA a, n : a + (IF s.conn[n].here THEN in(s.conn[n].in_flight_requests) ELSE 0), 0, SetToSeq(Node))
    IN  flying + Cardinality({k \in DOMAIN s.pending : P(s.pending[k].request)})

\* Every part of the state has its type, and the lock is held by a thread that polls.
TypeOK ==
    /\ \A n \in Node : LET c == s.conn[n] IN
         /\ c.state \in {"disconnected", "connecting", "api_versions_send", "api_versions_recv", "connected"}
         /\ c.idx \in 0 .. ApiVersionsIdx /\ c.check \in NotProbing .. VersionChecks
         /\ {c.in_flight_requests, c.unsent, c.sent, c.back} \subseteq Seq(Request)
    /\ s.connecting \subseteq Node /\ s.sending \subseteq Node
    /\ s.topics \in 0 .. mode.topics /\ s.cluster.topics \in 0 .. s.topics
    /\ result \in Seq({None, "answered", "failed"})
    /\ \A t \in Thread : at(t) \in {"connects", "select", "events"} <=> lock = t

\* A request without a result is in one place: in flight on a connection the client
\* watches for timeouts, or answered and about to be handed out; one with a result in none.
NothingLost ==
    \A i \in DOMAIN result :
        Occurrences(LAMBDA r : r.kind = "user" /\ r.id = i) = IF result[i] = None THEN 1 ELSE 0

\* A refresh is in progress exactly as long as its one request is outstanding; were
\* the flag to stay, no request would be sent to any node again (is_ready).
RefreshTracked ==
    Occurrences(LAMBDA r : r.kind = "metadata") = IF s.refresh THEN 1 ELSE 0

\* Responses come back in the order of the requests in flight, also after a connection
\* was lost in the middle and made again.
ResponsesMatch ==
    \A n \in Node : LET c == s.conn[n] IN
        ~c.eof => c.back \o c.sent \o c.unsent = c.in_flight_requests

\* The limit on requests in flight is checked outside the lock: each further
\* thread may exceed it by one, a single thread never does.
InFlightBounded ==
    \A n \in Node : Len(s.conn[n].in_flight_requests) <= MaxInFlight + Cardinality(Threads) - 1

\* A thread that waits in select has been told, or is about to be told, of every
\* request queued and every connection asked for meanwhile.
NoLostWakeup ==
    \A t \in Thread :
        at(t) = "select" /\ ~s.closed /\ (s.sending # {} \/ \E n \in s.connecting : disconnected(s.conn[n]))
            => wake.byte \/ \E u \in Thread : at(u) \in {"wake", "wakes"}

\* KafkaClient and BrokerConnection: every request ends once, with its own response
\* or with an error, and the limit on those in flight is kept.
RequestsEndOnce == TypeOK /\ NothingLost /\ ResponsesMatch /\ InFlightBounded
=============================================================================
