----------------------------- MODULE KafkaGroup -----------------------------
(* The consumer group membership of the kafka-python layer: coordinator/base.py
   and coordinator/consumer.py, one record per consumer, its heartbeat thread
   and its application thread interleaving between the calls that hold the
   client and coordinator locks.  The group coordinator of the cluster is
   external and kept to what the client's handlers tell apart.

   Abstractions: one coordinator node; FindCoordinator is answered at once; a
   wait is a blocking program counter, its timeout an action; time is the
   nondeterminism of when a heartbeat is due or a timeout expires; dynamic
   members only (no group_instance_id); offsets are left out, a commit carries
   the partitions and the generation it is made under.                       *)
EXTENDS Naturals, Sequences, FiniteSets

CONSTANTS Consumer,      \* the consumers of the group
          Partition,     \* the partitions of the subscribed topics
          MaxFaults,     \* lost connections, expired sessions, stalls and unsubscribes
          MaxInFlight    \* requests one consumer may have outstanding

ASSUME FaultsAssumption == MaxFaults \in Nat
ASSUME InFlightAssumption == MaxInFlight \in Nat \ {0}

VARIABLES consumer,      \* state of each ConsumerCoordinator
          wire,          \* the FIFO of requests on its coordinator connection
          group,         \* the group as the cluster's coordinator keeps it
          faults

vars == <<consumer, wire, group, faults>>

NoId == 0                \* UNKNOWN_MEMBER_ID
NoGen == 0               \* DEFAULT_GENERATION_ID
FatalJoin == {"fatal"}
RetryJoin == {"unknown_member", "rebalance", "illegal_generation", "member_id_required"}
BackoffJoin == {"retriable"}
JoinResults == {"none", "pending", "success"} \cup RetryJoin \cup BackoffJoin \cup FatalJoin

-----------------------------------------------------------------------------
(* State changes shared by the handlers, as functions on one consumer. *)

NewConsumer ==
    [state |-> "UNJOINED", gen |-> NoGen, id |-> NoId, rejoin_needed |-> TRUE,
     rejoining |-> FALSE, join |-> "none", value |-> {}, assigned |-> {},
     coordinator |-> FALSE, enabled |-> FALSE, leaving |-> FALSE,
     subscribed |-> TRUE, closing |-> FALSE, pc |-> "idle"]

coordinator_unknown(c) == ~c.coordinator

coordinator_dead(c) == [c EXCEPT !.coordinator = FALSE]

request_rejoin(c) == [c EXCEPT !.rejoin_needed = TRUE]

reset_generation(c, id) ==
    [c EXCEPT !.gen = NoGen, !.id = id, !.rejoin_needed = TRUE, !.state = "UNJOINED"]

\* Mutant: the generation whatever the state.
generation_always(c) == TRUE

generation_if_stable(c) == c.state = "STABLE"

\* A future is completed once: a second completion trips the assertion of
\* Future, which the callback loop of the first future logs and drops.
JoinSucceeds(c, value) ==
    IF c.join = "pending"
    THEN [c EXCEPT !.join = "success", !.value = value, !.state = "STABLE", !.enabled = TRUE]
    ELSE c

JoinFails(c, kind) ==
    IF c.join = "pending" THEN [c EXCEPT !.join = kind, !.state = "UNJOINED"] ELSE c

-----------------------------------------------------------------------------
(* Requests and replies. *)

NoReply == [error |-> "none", gen |-> NoGen, id |-> NoId, ids |-> {}, leader |-> FALSE, parts |-> {}]
Parked == [NoReply EXCEPT !.error = "parked"]
Reply(error) == [NoReply EXCEPT !.error = error]

Request(type, c, parts, grant) ==
    [type |-> type, gen |-> c.gen, id |-> c.id, parts |-> parts, grant |-> grant, reply |-> NoReply]

\* The generation a request is made under is the one at the time it is sent.
send_join_group_request(c) == Request("join", c, {}, <<>>)
send_sync_group_request(c, grant) == Request("sync", c, {}, grant)
send_heartbeat_request(c) == Request("heartbeat", c, {}, <<>>)
send_offset_commit_request(c, type) == Request(type, c, c.assigned, <<>>)

Push(m, request) == wire' = [wire EXCEPT ![m] = Append(@, request)]
Answered(m) == wire[m] # <<>> /\ Head(wire[m]).reply.error \notin {"none", "parked"}
OldestReply(m) == IF wire[m] = <<>> THEN NoReply ELSE Head(wire[m]).reply
Unanswered(m, type) ==
    wire[m] # <<>> /\ Head(wire[m]).type = type /\ Head(wire[m]).reply.error = "none"
Answer(m, reply) == wire' = [wire EXCEPT ![m] = <<[Head(@) EXCEPT !.reply = reply]>> \o Tail(@)]

\* ConsumerPartitionAssignor.assign: every partition goes to one of the members.
Assign(ids) ==
    LET owner == CHOOSE f \in [Partition -> ids] :
                    \A i, j \in ids : Cardinality({p \in Partition : f[p] = i})
                                      <= Cardinality({p \in Partition : f[p] = j}) + 1
    IN  [i \in ids |-> {p \in Partition : owner[p] = i}]

-----------------------------------------------------------------------------
(* The application thread: KafkaConsumer.poll and the calls it makes. *)

\* Whether the thread may run: nobody holds the locks for a LeaveGroup.
Runs(m, pc) == consumer[m].pc = pc /\ ~consumer[m].leaving

handle_group_coordinator_response(c) == [c EXCEPT !.coordinator = TRUE]

lookup_coordinator(m) ==
    /\ coordinator_unknown(consumer[m]) /\ ~consumer[m].leaving /\ consumer[m].pc # "closed"
    /\ consumer' = [consumer EXCEPT ![m] = handle_group_coordinator_response(@)]
    /\ UNCHANGED <<wire, group, faults>>

\* poll -> ensure_active_group -> the head of join_group: the prepare hook runs
\* once per rebalance, the loop resumes behind it after a timeout.
poll(m) ==
    /\ Runs(m, "idle")
    /\ consumer[m].subscribed /\ consumer[m].rejoin_needed /\ consumer[m].coordinator
    /\ consumer' = [consumer EXCEPT ![m].pc = IF consumer[m].rejoining THEN "drain" ELSE "prepare"]
    /\ UNCHANGED <<wire, group, faults>>

\* The commit before a rebalance and before closing.
maybe_auto_commit_offsets_sync(m) ==
    LET c == consumer[m] IN
    /\ Runs(m, "prepare") /\ c.coordinator
    /\ IF c.assigned # {} /\ generation_if_stable(c)
       THEN /\ Push(m, send_offset_commit_request(c, "sync_commit"))
            /\ consumer' = [consumer EXCEPT ![m].pc = "commit"]
       ELSE /\ consumer' = [consumer EXCEPT ![m].pc = "prepared"]
            /\ UNCHANGED wire
    /\ UNCHANGED <<group, faults>>

commit_timeout(m) ==
    /\ \/ Runs(m, "commit")
       \/ Runs(m, "prepare") /\ coordinator_unknown(consumer[m])
    /\ consumer' = [consumer EXCEPT ![m].pc = "prepared"]
    /\ UNCHANGED <<wire, group, faults>>

\* Mutant: the flag that the preparation is done is not set.
prepare_without_flag(m) ==
    /\ Runs(m, "prepared") /\ ~consumer[m].closing
    /\ consumer' = [consumer EXCEPT ![m].enabled = FALSE, ![m].pc = "drain"]
    /\ UNCHANGED <<wire, group, faults>>

\* The rest of _on_join_prepare; the heartbeat thread is fenced off after it.
on_join_prepare(m) ==
    /\ Runs(m, "prepared") /\ ~consumer[m].closing
    /\ consumer' = [consumer EXCEPT ![m].rejoining = TRUE, ![m].enabled = FALSE, ![m].pc = "drain"]
    /\ UNCHANGED <<wire, group, faults>>

\* Mutant: the requests in flight are not waited for.
initiate_without_draining(m) ==
    LET c == consumer[m] IN
    /\ Runs(m, "drain") /\ c.coordinator /\ c.join = "none"
    /\ Push(m, send_join_group_request(c))
    /\ consumer' = [consumer EXCEPT ![m].state = "REBALANCING", ![m].join = "pending", ![m].pc = "await"]
    /\ UNCHANGED <<group, faults>>

\* With nothing in flight to the coordinator, JoinGroup is sent unless an
\* earlier one has been started and not yet been looked at.
initiate_join_group(m) ==
    LET c == consumer[m] IN
    /\ Runs(m, "drain") /\ c.coordinator /\ wire[m] = <<>>
    /\ IF c.join = "none"
       THEN /\ Push(m, send_join_group_request(c))
            /\ consumer' = [consumer EXCEPT ![m].state = "REBALANCING", ![m].join = "pending",
                                            ![m].pc = "await"]
       ELSE /\ consumer' = [consumer EXCEPT ![m].pc = "await"]
            /\ UNCHANGED wire
    /\ UNCHANGED <<group, faults>>

\* join_group gives up waiting; the pending future is kept for the next poll.
join_timeout(m) ==
    /\ \/ Runs(m, "drain") /\ (wire[m] # <<>> \/ coordinator_unknown(consumer[m]))
       \/ Runs(m, "await") /\ consumer[m].join = "pending"
    /\ consumer' = [consumer EXCEPT ![m].pc = "idle"]
    /\ UNCHANGED <<wire, group, faults>>

\* Mutant: the new partitions are added to the ones worked on.
complete_incrementally(m) ==
    LET c == consumer[m] IN
    /\ Runs(m, "await") /\ c.join = "success"
    /\ consumer' = [consumer EXCEPT ![m] =
           [c EXCEPT !.rejoining = FALSE, !.rejoin_needed = FALSE, !.join = "none", !.pc = "idle",
                     !.value = {}, !.assigned = @ \cup c.value]]
    /\ UNCHANGED <<wire, group, faults>>

\* A finished join.  The generation may have been reset since the future
\* succeeded: then the protocol is None and _on_join_complete trips its
\* assertion, after rejoin_needed has been cleared.
on_join_complete(m) ==
    LET c == consumer[m] IN
    /\ Runs(m, "await") /\ c.join = "success"
    /\ consumer' = [consumer EXCEPT ![m] =
           [c EXCEPT !.rejoining = FALSE, !.rejoin_needed = FALSE, !.join = "none", !.pc = "idle",
                     !.value = {}, !.assigned = IF c.gen = NoGen THEN @ ELSE c.value]]
    /\ UNCHANGED <<wire, group, faults>>

join_failed(m) ==
    LET c == consumer[m] IN
    /\ Runs(m, "await") /\ c.join \notin {"none", "pending", "success"}
    /\ consumer' = [consumer EXCEPT ![m].join = "none",
           ![m].pc = IF c.rejoin_needed /\ c.join \notin FatalJoin THEN "drain" ELSE "idle"]
    /\ UNCHANGED <<wire, group, faults>>

\* commit_async and the periodic auto commit at the end of poll.
commit_offsets_async(m) ==
    LET c == consumer[m] IN
    /\ Runs(m, "idle") /\ c.coordinator /\ Len(wire[m]) < MaxInFlight
    /\ c.assigned # {} /\ generation_if_stable(c)
    /\ Push(m, send_offset_commit_request(c, "commit"))
    /\ UNCHANGED <<consumer, group, faults>>

\* LeaveGroup, if there is a membership to leave; the locks are held until it
\* is answered and only then is the generation reset.
maybe_leave_group(m, c) ==
    IF c.coordinator /\ c.state # "UNJOINED" /\ c.id # NoId
    THEN /\ Push(m, Request("leave", c, {}, <<>>))
         /\ consumer' = [consumer EXCEPT ![m] = [c EXCEPT !.leaving = TRUE]]
    ELSE /\ consumer' = [consumer EXCEPT ![m] = reset_generation(c, NoId)]
         /\ UNCHANGED wire

unsubscribe(m) ==
    /\ Runs(m, "idle") /\ consumer[m].subscribed /\ faults < MaxFaults
    /\ maybe_leave_group(m, [consumer[m] EXCEPT !.subscribed = FALSE, !.assigned = {}])
    /\ faults' = faults + 1
    /\ UNCHANGED group

subscribe(m) ==
    /\ Runs(m, "idle") /\ ~consumer[m].subscribed
    /\ consumer' = [consumer EXCEPT ![m].subscribed = TRUE]
    /\ UNCHANGED <<wire, group, faults>>

\* close: commit, stop the heartbeat thread, leave.
close(m) ==
    \/ /\ Runs(m, "idle") /\ faults < MaxFaults
       /\ consumer' = [consumer EXCEPT ![m].closing = TRUE, ![m].pc = "prepare"]
       /\ faults' = faults + 1
       /\ UNCHANGED <<wire, group>>
    \/ /\ Runs(m, "prepared") /\ consumer[m].closing
       /\ maybe_leave_group(m, [consumer[m] EXCEPT !.enabled = FALSE, !.pc = "closed"])
       /\ UNCHANGED <<group, faults>>

-----------------------------------------------------------------------------
(* The heartbeat thread. *)

HeartbeatRuns(m) == consumer[m].enabled /\ ~consumer[m].leaving

run_once_disable(m) ==
    /\ HeartbeatRuns(m) /\ consumer[m].state # "STABLE"
    /\ consumer' = [consumer EXCEPT ![m].enabled = FALSE]
    /\ UNCHANGED <<wire, group, faults>>

run_once_heartbeat(m) ==
    /\ HeartbeatRuns(m) /\ consumer[m].state = "STABLE" /\ consumer[m].coordinator
    /\ Len(wire[m]) < MaxInFlight
    /\ Push(m, send_heartbeat_request(consumer[m]))
    /\ UNCHANGED <<consumer, group, faults>>

run_once_session_expired(m) ==
    /\ HeartbeatRuns(m) /\ consumer[m].state = "STABLE" /\ consumer[m].coordinator
    /\ faults < MaxFaults
    /\ consumer' = [consumer EXCEPT ![m] = coordinator_dead(@)]
    /\ faults' = faults + 1
    /\ UNCHANGED <<wire, group>>

\* max_poll_interval_ms is over: not while poll itself waits for a join, since
\* enabling the thread restarts the interval.
run_once_poll_expired(m) ==
    /\ HeartbeatRuns(m) /\ consumer[m].state = "STABLE" /\ consumer[m].coordinator
    /\ consumer[m].pc \notin {"drain", "await"}
    /\ faults < MaxFaults
    /\ maybe_leave_group(m, consumer[m])
    /\ faults' = faults + 1
    /\ UNCHANGED group

-----------------------------------------------------------------------------
(* Responses, delivered in the order of the requests by whichever thread polls
   the client. *)

\* The connection is read: the oldest request is answered and leaves the queue.
Deliver(m, type, c, sent) ==
    /\ Answered(m) /\ Head(wire[m]).type = type
    /\ consumer' = [consumer EXCEPT ![m] = c]
    /\ wire' = [wire EXCEPT ![m] = Tail(@) \o sent]
    /\ UNCHANGED <<group, faults>>

on_join_leader(c, r) == send_sync_group_request(c, Assign(r.ids))
on_join_follower(c) == send_sync_group_request(c, <<>>)

\* A success that finds the consumer no longer rebalancing fails the join
\* future, and then sends SyncGroup all the same.
handle_join_group_response(m) ==
    LET c == consumer[m]
        r == OldestReply(m)
        fresh == IF c.state = "REBALANCING" THEN [c EXCEPT !.gen = r.gen, !.id = r.id]
                 ELSE JoinFails(c, "retriable")
        sync == IF r.leader THEN on_join_leader(fresh, r) ELSE on_join_follower(fresh)
    IN  \/ /\ r.error = "ok"
           /\ IF c.coordinator THEN Deliver(m, "join", fresh, <<sync>>)
              ELSE Deliver(m, "join", JoinFails(fresh, "retriable"), <<>>)
        \/ r.error = "unknown_member"
           /\ Deliver(m, "join", JoinFails(reset_generation(c, NoId), r.error), <<>>)
        \/ r.error = "member_id_required"
           /\ Deliver(m, "join", JoinFails(reset_generation(c, r.id), r.error), <<>>)
        \/ r.error = "not_coordinator"
           /\ Deliver(m, "join", JoinFails(coordinator_dead(c), "retriable"), <<>>)
        \/ r.error = "fatal"
           /\ Deliver(m, "join", JoinFails(c, "fatal"), <<>>)

handle_sync_group_response(m) ==
    LET c == consumer[m]
        r == OldestReply(m)
    IN  \/ r.error = "ok" /\ Deliver(m, "sync", JoinSucceeds(c, r.parts), <<>>)
        \/ r.error = "rebalance"
           /\ Deliver(m, "sync", JoinFails(request_rejoin(c), r.error), <<>>)
        \/ r.error \in {"unknown_member", "illegal_generation"}
           /\ Deliver(m, "sync", JoinFails(reset_generation(c, NoId), r.error), <<>>)
        \/ r.error = "not_coordinator"
           /\ Deliver(m, "sync", JoinFails(coordinator_dead(request_rejoin(c)), "retriable"), <<>>)

\* Mutant: a rebalance is taken for a successful heartbeat and nothing more.
handle_heartbeat_ignoring_rebalance(m) ==
    LET c == consumer[m]
        r == OldestReply(m)
    IN  \/ r.error \in {"ok", "rebalance"} /\ Deliver(m, "heartbeat", c, <<>>)
        \/ r.error \in {"unknown_member", "illegal_generation"}
           /\ Deliver(m, "heartbeat", reset_generation(c, NoId), <<>>)
        \/ r.error = "not_coordinator" /\ Deliver(m, "heartbeat", coordinator_dead(c), <<>>)

handle_heartbeat_response(m) ==
    LET c == consumer[m]
        r == OldestReply(m)
    IN  \/ r.error = "ok" /\ Deliver(m, "heartbeat", c, <<>>)
        \/ r.error = "rebalance" /\ Deliver(m, "heartbeat", request_rejoin(c), <<>>)
        \/ r.error \in {"unknown_member", "illegal_generation"}
           /\ Deliver(m, "heartbeat", reset_generation(c, NoId), <<>>)
        \/ r.error = "not_coordinator" /\ Deliver(m, "heartbeat", coordinator_dead(c), <<>>)

\* The synchronous caller goes on, except after a retriable error.
handle_offset_commit_response(m) ==
    LET r == OldestReply(m)
        after == CASE r.error = "ok" -> consumer[m]
                   [] r.error = "rebalance" -> request_rejoin(consumer[m])
                   [] r.error = "not_coordinator" -> coordinator_dead(consumer[m])
                   [] OTHER -> reset_generation(consumer[m], NoId)
        waiting == consumer[m].pc = "commit"
        next == IF r.error = "not_coordinator" THEN "prepare" ELSE "prepared"
    IN  \/ Deliver(m, "commit", after, <<>>)
        \/ Deliver(m, "sync_commit", IF waiting THEN [after EXCEPT !.pc = next] ELSE after, <<>>)

handle_leave_group_response(m) ==
    Deliver(m, "leave", [reset_generation(consumer[m], NoId) EXCEPT !.leaving = FALSE], <<>>)

\* The connection is lost: every request in flight fails and with it the
\* coordinator; a LeaveGroup that failed is not retried.
failed_request(m) ==
    LET c == consumer[m]
        types == {wire[m][i].type : i \in DOMAIN wire[m]}
        dead == IF types \cap {"join", "sync"} # {} THEN JoinFails(coordinator_dead(c), "retriable")
                ELSE coordinator_dead(c)
        back == IF c.pc = "commit" /\ "sync_commit" \in types THEN [dead EXCEPT !.pc = "prepare"]
                ELSE dead
    IN  /\ wire[m] # <<>> /\ faults < MaxFaults
        /\ consumer' = [consumer EXCEPT ![m] =
               IF c.leaving THEN [reset_generation(back, NoId) EXCEPT !.leaving = FALSE] ELSE back]
        /\ wire' = [wire EXCEPT ![m] = <<>>]
        /\ faults' = faults + 1
        /\ UNCHANGED group

-----------------------------------------------------------------------------
(* The group coordinator of the cluster (external). *)

EmptyGroup == [phase |-> "Empty", gen |-> NoGen, members |-> {}, pending |-> {}, joined |-> {},
               leader |-> NoId, last |-> NoId, assignment |-> <<>>]

\* A rebalance answers the SyncGroup requests parked by the one before it, and
\* the requests parked for a member that is removed.
Rebalance(i, removed, w) ==
    LET head == Head(w)
        error == IF removed /\ head.id = i THEN "unknown_member" ELSE "rebalance"
    IN  IF w # <<>> /\ head.reply = Parked /\ (head.type = "sync" \/ (removed /\ head.id = i))
        THEN <<[head EXCEPT !.reply = Reply(error)]>> \o Tail(w)
        ELSE w

BrokerJoin(m) ==
    LET q == Head(wire[m])
        fresh == group.last + 1
        known == group.members \cup group.pending
        Enter(i, last) ==
            /\ group' = [group EXCEPT !.phase = "Preparing", !.members = @ \cup {i}, !.last = last,
                                      !.joined = @ \cup {i}, !.pending = @ \ {i}]
            /\ wire' = [n \in Consumer |-> IF n = m THEN <<[q EXCEPT !.reply = Parked, !.id = i]>> \o Tail(wire[m])
                                            ELSE Rebalance(i, FALSE, wire[n])]
    IN  /\ Unanswered(m, "join")
        /\ \/ /\ q.id = NoId
              /\ group' = [group EXCEPT !.last = fresh, !.pending = @ \cup {fresh}]
              /\ Answer(m, [Reply("member_id_required") EXCEPT !.id = fresh])
           \/ q.id = NoId /\ Enter(fresh, fresh)
           \/ q.id \in known /\ Enter(q.id, group.last)
           \/ q.id \notin known \cup {NoId} /\ Answer(m, Reply("unknown_member")) /\ UNCHANGED group
        /\ UNCHANGED <<consumer, faults>>

\* Everybody has joined: the next generation starts.
BrokerCompleteJoin ==
    LET leader == CHOOSE i \in group.members : \A j \in group.members : i <= j
        gen == group.gen + 1
        Done(w) == IF w # <<>> /\ Head(w).type = "join" /\ Head(w).reply = Parked
                      /\ Head(w).id \in group.members
                   THEN <<[Head(w) EXCEPT !.reply =
                            [Reply("ok") EXCEPT !.gen = gen, !.id = Head(w).id,
                                !.leader = Head(w).id = leader,
                                !.ids = IF Head(w).id = leader THEN group.members ELSE {}]]>> \o Tail(w)
                   ELSE w
    IN  /\ group.phase = "Preparing" /\ group.members # {} /\ group.members \subseteq group.joined
        /\ group' = [group EXCEPT !.phase = "Completing", !.gen = gen, !.joined = {},
                                  !.leader = leader, !.assignment = <<>>]
        /\ wire' = [m \in Consumer |-> Done(wire[m])]
        /\ UNCHANGED <<consumer, faults>>

\* What the coordinator answers to a request of a generation.
Fence(q) ==
    CASE q.id \notin group.members -> "unknown_member"
      [] q.id \in group.members /\ q.gen # group.gen -> "illegal_generation"
      [] OTHER -> "ok"

BrokerSync(m) ==
    LET q == Head(wire[m])
        Share(i) == [Reply("ok") EXCEPT !.parts = q.grant[i]]
        Finish(w) == IF w # <<>> /\ Head(w).type = "sync" /\ Head(w).reply = Parked
                        /\ Head(w).id \in group.members
                     THEN <<[Head(w) EXCEPT !.reply = Share(Head(w).id)]>> \o Tail(w)
                     ELSE w
    IN  /\ Unanswered(m, "sync")
        /\ \/ Fence(q) # "ok" /\ Answer(m, Reply(Fence(q))) /\ UNCHANGED group
           \/ Fence(q) = "ok" /\ group.phase = "Preparing"
              /\ Answer(m, Reply("rebalance")) /\ UNCHANGED group
           \/ Fence(q) = "ok" /\ group.phase = "Completing" /\ q.id # group.leader
              /\ Answer(m, Parked) /\ UNCHANGED group
           \/ Fence(q) = "ok" /\ group.phase = "Completing" /\ q.id = group.leader
              /\ group' = [group EXCEPT !.phase = "Stable", !.assignment = q.grant]
              /\ wire' = [n \in Consumer |-> IF n = m
                            THEN <<[q EXCEPT !.reply = Share(q.id)]>> \o Tail(wire[m])
                            ELSE Finish(wire[n])]
           \/ Fence(q) = "ok" /\ group.phase = "Stable"
              /\ Answer(m, [Reply("ok") EXCEPT !.parts = group.assignment[q.id]]) /\ UNCHANGED group
        /\ UNCHANGED <<consumer, faults>>

BrokerHeartbeat(m) ==
    /\ Unanswered(m, "heartbeat")
    /\ Answer(m, Reply(IF Fence(Head(wire[m])) = "ok" /\ group.phase = "Preparing" THEN "rebalance"
                       ELSE Fence(Head(wire[m]))))
    /\ UNCHANGED <<consumer, group, faults>>

BrokerCommit(m) ==
    /\ Unanswered(m, "commit") \/ Unanswered(m, "sync_commit")
    /\ Answer(m, Reply(IF Fence(Head(wire[m])) = "ok" /\ group.phase = "Completing" THEN "rebalance"
                       ELSE Fence(Head(wire[m]))))
    /\ UNCHANGED <<consumer, group, faults>>

\* A member leaves or its session expires; the others have to join again.
Remove(i) ==
    [group EXCEPT !.members = @ \ {i}, !.joined = @ \ {i}, !.pending = @ \ {i},
        !.phase = IF i \notin group.members THEN @
                  ELSE IF group.members = {i} THEN "Empty" ELSE "Preparing"]

Unpark(i, w) == IF i \in group.members THEN Rebalance(i, TRUE, w) ELSE w

BrokerLeave(m) ==
    LET i == Head(wire[m]).id IN
    /\ Unanswered(m, "leave")
    /\ group' = Remove(i)
    /\ wire' = [n \in Consumer |-> IF n = m THEN <<[Head(wire[m]) EXCEPT !.reply = Reply("ok")]>> \o Tail(wire[m])
                                   ELSE Unpark(i, wire[n])]
    /\ UNCHANGED <<consumer, faults>>

BrokerExpire(i) ==
    /\ faults < MaxFaults
    /\ group' = Remove(i)
    /\ wire' = [n \in Consumer |-> Unpark(i, wire[n])]
    /\ faults' = faults + 1
    /\ UNCHANGED consumer

\* A member nobody speaks for any more is expired without counting as a fault.
Orphan(i) == \A m \in Consumer : /\ consumer[m].id # i
                                /\ \A k \in DOMAIN wire[m] : i \notin {wire[m][k].id, wire[m][k].reply.id}

BrokerExpireOrphan(i) ==
    /\ Orphan(i)
    /\ group' = Remove(i)
    /\ wire' = [n \in Consumer |-> Unpark(i, wire[n])]
    /\ UNCHANGED <<consumer, faults>>

\* The coordinator answers without acting: it is moved or is loading, or it does
\* not let a consumer join, for its authorisation or its protocols.
BrokerRefuses(m) ==
    /\ wire[m] # <<>> /\ Head(wire[m]).reply.error = "none" /\ Head(wire[m]).type # "leave"
    /\ faults < MaxFaults
    /\ \E error \in {"not_coordinator"} \cup (IF Head(wire[m]).type = "join" THEN FatalJoin ELSE {}) : Answer(m, Reply(error))
    /\ faults' = faults + 1
    /\ UNCHANGED <<consumer, group>>

-----------------------------------------------------------------------------
Init ==
    /\ consumer = [m \in Consumer |-> NewConsumer]
    /\ wire = [m \in Consumer |-> <<>>]
    /\ group = EmptyGroup
    /\ faults = 0

Main(m) ==
    \/ poll(m) \/ maybe_auto_commit_offsets_sync(m) \/ on_join_prepare(m) \/ initiate_join_group(m)
    \/ on_join_complete(m) \/ join_failed(m) \/ subscribe(m)

Application(m) == commit_timeout(m) \/ join_timeout(m) \/ commit_offsets_async(m) \/ unsubscribe(m) \/ close(m)

HeartbeatThread(m) ==
    \/ run_once_disable(m) \/ run_once_heartbeat(m)
    \/ run_once_session_expired(m) \/ run_once_poll_expired(m)

Responses(m) ==
    \/ handle_join_group_response(m) \/ handle_sync_group_response(m)
    \/ handle_heartbeat_response(m) \/ handle_offset_commit_response(m)
    \/ handle_leave_group_response(m)

Broker(m) ==
    BrokerJoin(m) \/ BrokerSync(m) \/ BrokerHeartbeat(m) \/ BrokerCommit(m) \/ BrokerLeave(m)

Expiry == \E i \in group.members \cup group.pending : BrokerExpireOrphan(i)

Next ==
    \/ \E m \in Consumer :
          \/ lookup_coordinator(m) \/ Main(m) \/ Application(m) \/ HeartbeatThread(m)
          \/ Responses(m) \/ failed_request(m) \/ Broker(m) \/ BrokerRefuses(m)
    \/ BrokerCompleteJoin \/ Expiry
    \/ \E i \in group.members \cup group.pending : BrokerExpire(i)

Spec == Init /\ [][Next]_vars

\* Both threads keep running, the application keeps polling, the cluster
\* answers.  Seconds pass between two heartbeats, so the application also gets
\* to poll, and a drained join to be sent, while the connection is quiet.
Fairness ==
    /\ \A m \in Consumer :
          /\ WF_vars(lookup_coordinator(m) \/ Main(m) \/ close(m) \/ run_once_disable(m))
          /\ WF_vars(Responses(m) \/ Broker(m))
          /\ SF_vars(initiate_join_group(m)) /\ SF_vars(poll(m) /\ wire[m] = <<>>)
          /\ SF_vars(run_once_heartbeat(m))
    /\ WF_vars(BrokerCompleteJoin \/ Expiry)

FairSpec == Spec /\ Fairness

-----------------------------------------------------------------------------
RequestTypes == {"join", "sync", "heartbeat", "commit", "sync_commit", "leave"}

\* The shape of the state, and the program counter of each application thread.
TypeOK ==
    /\ faults \in 0..MaxFaults
    /\ \A m \in Consumer :
          /\ consumer[m].state \in {"UNJOINED", "REBALANCING", "STABLE"}
          /\ consumer[m].pc \in {"idle", "prepare", "commit", "prepared", "drain", "await", "closed"}
          /\ consumer[m].pc \in {"drain", "await"} => consumer[m].rejoining
          /\ consumer[m].gen \in 0..group.gen /\ consumer[m].id \in 0..group.last
          /\ consumer[m].join \in JoinResults
          /\ consumer[m].assigned \subseteq Partition
          /\ \A k \in DOMAIN wire[m] : wire[m][k].type \in RequestTypes
    /\ group.members \cup group.pending \subseteq 1..group.last

\* A consumer that is a settled member of the current generation works on
\* exactly the partitions the leader gave to it in that generation.
Settled(m) ==
    /\ consumer[m].state = "STABLE" /\ consumer[m].join = "none" /\ consumer[m].subscribed
    /\ consumer[m].gen = group.gen /\ consumer[m].id \in group.members

AssignmentInstalled ==
    \A m \in Consumer : Settled(m) /\ group.phase = "Stable" /\ ~consumer[m].leaving
                          => consumer[m].assigned = group.assignment[consumer[m].id]

\* No partition is worked on by two consumers that hold the same generation.
Exclusive ==
    \A m, n \in Consumer :
        /\ m # n /\ consumer[m].gen = consumer[n].gen
        /\ \A k \in {m, n} : consumer[k].state = "STABLE" /\ consumer[k].join = "none"
        => consumer[m].assigned \cap consumer[n].assigned = {}

\* JoinGroup is sent on a drained connection and only a LeaveGroup follows it:
\* no heartbeat or commit of the old generation is under way with it.
JoinTravelsAlone ==
    \A m \in Consumer : \A k \in DOMAIN wire[m] :
        wire[m][k].type = "join" => k = 1 /\ \A l \in 2..Len(wire[m]) : wire[m][l].type = "leave"

\* A response never takes away a generation newer than the one its request was
\* made under.
NoStaleReset ==
    [][\A m \in Consumer :
         (consumer[m].gen # NoGen /\ consumer'[m].gen = NoGen /\ wire[m] # <<>> /\ wire'[m] = Tail(wire[m])
          /\ Head(wire[m]).type # "leave")
         => Head(wire[m]).gen = consumer[m].gen]_vars

\* Once the faults are over every subscribed consumer settles in the current
\* generation, unless it is in the state LostRejoin describes.
LostRejoin(m) == consumer[m].state = "UNJOINED" /\ ~consumer[m].rejoin_needed

Converges ==
    <>[](\A m \in Consumer :
            Settled(m) \/ LostRejoin(m) \/ consumer[m].pc = "closed" )

\* What the coordinator and the consumers make of a rebalance, whatever is late or
\* lost: each settled member works on what the leader gave to it (on_join_complete),
\* and no partition is worked on twice in one generation.
MembershipSound == TypeOK /\ AssignmentInstalled /\ Exclusive
=============================================================================
