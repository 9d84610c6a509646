------------------------------ MODULE KafkaAdmin ------------------------------
(* KafkaAdminClient (admin/client.py): commands to the controller, with
   one more try where it has moved, requests to the coordinators of groups, to
   the leaders of partitions and to any broker, while controller, coordinators
   and leaders move and brokers go.

   Abstractions: a topic stands for its only partition where one is meant;
   configurations, ACLs and versions of the protocol are left out; brokers answer
   with what is so when they do.                                             *)
EXTENDS Integers, SequencesExt

CONSTANTS Brokers,       \* numbers
          Topics, ConsumerGroups,
          Foreign,       \* groups of another protocol than consumers'
          Calls,         \* [op, names : sequence, node : a broker or AnyNode]
          Starts,        \* pairs of a cluster and a client that may have known another one
          MaxCalls, MaxMoves

VARIABLES cluster,       \* what the brokers agree on
          c,             \* the client: controller_id, and the brokers of its metadata
          call,          \* what the application has called, and what came of it
          round,         \* requests sent together
          later,         \* requests to send one after another behind them
          abandoned,     \* requests of a call that has raised
          h              \* history, of the call: moves, commands handled, what was done, where things were

vars == <<cluster, c, call, round, later, abandoned, h>>

AnyNode == 0
NoBroker == -1
Commands == {"create_topics", "delete_topics", "create_partitions", "perform_leader_election"}
GroupOps == {"describe_consumer_groups", "delete_consumer_groups", "list_consumer_group_offsets"}

Operations == Commands \cup GroupOps \cup
    {"list_consumer_groups", "delete_records", "describe_topics", "describe_configs", "alter_configs"}
Names == Brokers \cup Topics \cup ConsumerGroups
Places == Brokers \cup {NoBroker}

\* What the application asks for: every name once, and one at least.
IsCall(x) ==
    /\ x.op \in Operations /\ x.node \in Brokers \cup {AnyNode}
    /\ x.names \in Seq(CASE x.op \in GroupOps -> ConsumerGroups
                         [] x.op \in {"describe_configs", "alter_configs"} -> Names
                         [] OTHER -> Topics)
    /\ x.op = "list_consumer_groups" \/ x.names # <<>>
    /\ \A i, k \in 1 .. Len(x.names) : x.names[i] = x.names[k] => i = k

AdminAssumption ==
    /\ IsFiniteSet(Brokers) /\ Brokers \subseteq Nat \ {AnyNode} /\ Topics \cap ConsumerGroups = {}
    /\ \A x \in Calls : IsCall(x)
    /\ \A start \in Starts :
          /\ start[1] \in [up : SUBSET Brokers, controller : Places, partitions : [Topics -> 0 .. 2],
                           leader : [Topics -> Places], coordinator : [ConsumerGroups -> Brokers],
                           groups : SUBSET ConsumerGroups]
          /\ start[2] \in [controller_id : Brokers, brokers : (SUBSET Brokers) \ {{}}]

-----------------------------------------------------------------------------
(* Brokers: what one answers, and what then is so. *)

NoAnswer == [errors |-> <<>>, nodes |-> <<>>, controller |-> NoBroker, groups |-> {}]
preferred == CHOOSE b \in Brokers : TRUE
Busy == call.state = "busy"

command_error(api, t) ==
    CASE api = "create_topics" -> IF cluster.partitions[t] > 0 THEN "topic_already_exists" ELSE "none"
      [] api = "delete_topics" -> IF cluster.partitions[t] = 0 THEN "unknown_topic" ELSE "none"
      [] api = "create_partitions" -> IF cluster.partitions[t] = 1 THEN "none" ELSE "invalid_partitions"
      [] api = "perform_leader_election" ->
           IF cluster.partitions[t] = 0 THEN "unknown_topic"
           ELSE IF cluster.leader[t] = preferred THEN "election_not_needed" ELSE "none"

name_error(r, n) ==
    CASE r.api \in Commands -> IF cluster.controller = r.at THEN command_error(r.api, n) ELSE "not_controller"
      [] r.api \in GroupOps ->
           IF cluster.coordinator[n] # r.at THEN "not_coordinator"
           ELSE IF r.api = "delete_consumer_groups" /\ n \notin cluster.groups THEN "group_id_not_found" ELSE "none"
      [] r.api = "delete_records" ->
           IF cluster.partitions[n] = 0 \/ cluster.leader[n] # r.at THEN "not_leader" ELSE "none"
      [] r.api = "metadata" -> IF cluster.partitions[n] = 0 THEN "unknown_topic" ELSE "none"
      [] r.api \in {"describe_configs", "alter_configs"} -> IF n \in Brokers \ {r.at} THEN "invalid_request" ELSE "none"
      [] OTHER -> "none"

answer(r) ==
    [errors     |-> [n \in r.names |-> name_error(r, n)],
     nodes      |-> [n \in r.names |-> CASE r.api = "find_coordinator" -> cluster.coordinator[n]
                                         [] r.api = "metadata" -> cluster.leader[n]
                                         [] OTHER -> NoBroker],
     controller |-> cluster.controller,
     groups     |-> {g \in cluster.groups : cluster.coordinator[g] = r.at}]

ok(error) == error \in {"none", "election_not_needed"}
applied(r) ==
    LET done == {n \in r.names : name_error(r, n) = "none"}
        to(f, v) == [n \in DOMAIN f |-> IF n \in done THEN v ELSE f[n]]
    IN  CASE r.api = "create_topics" -> [cluster EXCEPT !.partitions = to(@, 1)]
          [] r.api = "delete_topics" -> [cluster EXCEPT !.partitions = to(@, 0)]
          [] r.api = "create_partitions" -> [cluster EXCEPT !.partitions = to(@, 2)]
          [] r.api = "perform_leader_election" -> [cluster EXCEPT !.leader = to(@, preferred)]
          [] r.api = "delete_consumer_groups" -> [cluster EXCEPT !.groups = @ \ done]
          [] OTHER -> cluster

handled(r) ==
    [h EXCEPT !.handled = @ + (IF r.api \in Commands /\ cluster.controller = r.at THEN 1 ELSE 0),
              !.done = @ \cup {n \in r.names : r.api = call.op /\ ok(name_error(r, n))}]

\* A request is handled and answered; or the connection is lost, before or behind that.
Serve ==
    /\ \E i \in DOMAIN round :
          /\ round[i].state = "sent" /\ round[i].at \in cluster.up
          /\ cluster' = applied(round[i]) /\ h' = handled(round[i])
          /\ \/ round' = [round EXCEPT ![i].state = "succeeded", ![i].answer = answer(round[i])]
             \/ round' = [round EXCEPT ![i].state = "failed"]
    /\ UNCHANGED <<c, call, later, abandoned>>
Lose ==
    /\ \E i \in DOMAIN round : round[i].state = "sent" /\ round' = [round EXCEPT ![i].state = "failed"]
    /\ UNCHANGED <<cluster, c, call, later, abandoned, h>>
ServeAbandoned ==
    /\ \E r \in abandoned :
          /\ cluster' = IF r.at \in cluster.up THEN applied(r) ELSE cluster
          /\ abandoned' = abandoned \ {r}
    /\ UNCHANGED <<c, call, round, later, h>>

Moved(what, to) == h' = [h EXCEPT !.moves = @ + 1, !.were[what] = @ \cup {to}]
Move ==
    /\ Busy /\ h.moves < MaxMoves          \* between calls only the first and last places count
    /\ \/ \E b \in (cluster.up \cup {NoBroker}) \ {cluster.controller} :
             cluster' = [cluster EXCEPT !.controller = b] /\ h' = [h EXCEPT !.moves = @ + 1, !.controllers = @ \cup {b}]
       \/ \E g \in ConsumerGroups, b \in cluster.up : cluster.coordinator[g] # b
             /\ cluster' = [cluster EXCEPT !.coordinator[g] = b] /\ Moved(g, b)
       \/ \E t \in Topics, b \in cluster.up \cup {NoBroker} : cluster.leader[t] # b
             /\ cluster' = [cluster EXCEPT !.leader[t] = b] /\ Moved(t, b)
       \/ \E b \in cluster.up : cluster' = [cluster EXCEPT !.up = @ \ {b}] /\ h' = [h EXCEPT !.moves = @ + 1]
    /\ UNCHANGED <<c, call, round, later, abandoned>>

-----------------------------------------------------------------------------
(* Sending and waiting. *)

one_try == 0
tries_left == 1          \* behind the first
NoCall == [op |-> "none", names |-> <<>>, node |-> AnyNode, state |-> "none", tries |-> tries_left, error |-> "none",
           errors |-> <<>>, listed |-> {}, described |-> <<>>]

Request(api, names, node) ==
    [api |-> api, names |-> names, node |-> node, at |-> NoBroker, state |-> "new", answer |-> NoAnswer]

raises_and_keeps(error) ==
    call' = [call EXCEPT !.state = "raised", !.error = error] /\ UNCHANGED <<abandoned, round, later>>
raises(error) ==
    /\ call' = [call EXCEPT !.state = "raised", !.error = error]
    /\ abandoned' = abandoned \cup {round[i] : i \in {k \in DOMAIN round : round[k].state = "sent"}}
    /\ round' = <<>> /\ later' = <<>>
returns(made) ==
    /\ call' = [made EXCEPT !.state = "returned"]
    /\ round' = <<>> /\ later' = <<>>
    /\ UNCHANGED abandoned
sends(requests) == round' = requests /\ UNCHANGED <<abandoned, later>>

\* await_ready and send, one request after another: a node that is not there raises, and one that is not
\* in the client's metadata (a leader -1, too), unless that is refreshed while it waits.
send ==
    /\ Busy
    /\ \E i \in DOMAIN round :
          /\ round[i].state = "new" /\ \A k \in 1 .. i - 1 : round[k].state # "new"
          /\ \E at \in IF round[i].node = AnyNode THEN Brokers ELSE {round[i].node} :
                \/ /\ at \in cluster.up
                   /\ round' = [round EXCEPT ![i].state = "sent", ![i].at = at]
                   /\ UNCHANGED <<call, abandoned, later>>
                \/ at \in Brokers \ cluster.up /\ raises("connection")
                \/ at = round[i].node /\ at \notin c.brokers /\ raises("node_not_ready")
    /\ UNCHANGED <<cluster, c, h>>

AllSent == \A i \in DOMAIN round : round[i].state # "new"
\* The futures in their order: the first to have failed behind those that have succeeded.
_wait_for_futures ==
    /\ Busy /\ AllSent
    /\ \E i \in DOMAIN round : round[i].state = "failed" /\ \A k \in 1 .. i - 1 : round[k].state = "succeeded"
    /\ raises("connection")
    /\ UNCHANGED <<cluster, c, h>>

Answered(api) ==
    /\ Busy /\ round # <<>>
    /\ \A i \in DOMAIN round : round[i].state = "succeeded" /\ round[i].api = api

\* In the order of the requests.
first_error(errors, e) == ~ok(errors[e]) /\ \A k \in 1 .. e - 1 : ok(errors[k])
errors_in_order == [i \in DOMAIN round |-> LET es == Range(round[i].answer.errors) IN
                       IF es \subseteq {"none", "election_not_needed"} THEN "none" ELSE CHOOSE e \in es : ~ok(e)]

errors_of_all ==
    [n \in UNION {DOMAIN round[i].answer.errors : i \in DOMAIN round} |->
        round[CHOOSE i \in DOMAIN round : n \in DOMAIN round[i].answer.errors].answer.errors[n]]

-----------------------------------------------------------------------------
(* Commands, by way of the controller. *)

refresh_on_any(error) == call.tries # 0 /\ error # "none"
is_outdated(error) == call.tries # 0 /\ error = "not_controller"

_send_request_to_controller ==
    /\ \E op \in Commands : Answered(op)
    /\ LET error == errors_in_order[1] IN
       IF error = "none" THEN returns(call)
       ELSE IF is_outdated(error) THEN sends(<<Request("controller", {}, AnyNode)>>) /\ UNCHANGED call
       ELSE raises(error)
    /\ UNCHANGED <<cluster, c, h>>

\* None known: asked again, until its time is over; one that is known is connected to, for its version.
_refresh_controller_id ==
    /\ Answered("controller")
    /\ LET id == round[1].answer.controller IN
       IF id = NoBroker
       THEN /\ \/ sends(<<Request("controller", {}, AnyNode)>>) /\ UNCHANGED call
               \/ raises("node_not_ready")
            /\ UNCHANGED c
       ELSE IF id \in cluster.up
       THEN /\ c' = [c EXCEPT !.controller_id = id]
            /\ call' = [call EXCEPT !.tries = @ - 1]
            /\ sends(<<Request(call.op, ToSet(call.names), id)>>)
       ELSE raises("connection") /\ UNCHANGED c
    /\ UNCHANGED <<cluster, h>>

-----------------------------------------------------------------------------
(* Groups, by way of their coordinators. *)

find(x) == [i \in DOMAIN x.names |-> Request("find_coordinator", {x.names[i]}, AnyNode)]
coordinator_in(r) == r.answer.nodes[CHOOSE n \in r.names : TRUE]
coordinators_in_reverse == [i \in DOMAIN round |-> coordinator_in(round[Len(round) + 1 - i])]
coordinators == [i \in DOMAIN round |-> coordinator_in(round[i])]

\* One request for each node, in any order.
by_node(api, nodes) ==
    {[i \in DOMAIN o |-> Request(api, {n \in DOMAIN nodes : nodes[n] = o[i]}, o[i])] : o \in SetToSeqs(Range(nodes))}

\* One request for each group; to delete them, one for each coordinator.
of_groups(x, nodes) ==
    IF x.op # "delete_consumer_groups"
    THEN {[i \in DOMAIN x.names |-> Request(x.op, {x.names[i]}, nodes[i])]}
    ELSE by_node(x.op, [g \in ToSet(x.names) |-> nodes[CHOOSE i \in DOMAIN x.names : x.names[i] = g]])

_find_coordinator_ids ==
    /\ Answered("find_coordinator")
    /\ \E requests \in of_groups(call, coordinators) : sends(requests)
    /\ UNCHANGED <<cluster, c, call, h>>

\* Errors raise, but those of a deletion, which are its result. A member of another protocol is not understood.
groups_answered ==
    /\ \E op \in GroupOps : Answered(op)
    /\ IF call.op = "delete_consumer_groups" THEN returns([call EXCEPT !.errors = errors_of_all])
       ELSE IF \E i \in DOMAIN round : ~ok(errors_in_order[i])
       THEN \E e \in DOMAIN round : first_error(errors_in_order, e) /\ raises(errors_in_order[e])
       ELSE IF call.op = "describe_consumer_groups" /\ ToSet(call.names) \cap Foreign # {} THEN raises("type_error")
       ELSE returns([call EXCEPT !.described = [i \in DOMAIN round |-> CHOOSE n \in round[i].names : TRUE]])
    /\ UNCHANGED <<cluster, c, h>>

groups_of_the_first == round[1].answer.groups
groups_of_all == UNION {round[i].answer.groups : i \in DOMAIN round}
list_consumer_groups ==
    /\ Answered("list_groups")
    /\ returns([call EXCEPT !.listed = groups_of_all])
    /\ UNCHANGED <<cluster, c, h>>

-----------------------------------------------------------------------------
(* Records, by way of their leaders, one request after another. *)

leader_requests(nodes) == by_node("delete_records", nodes)

_get_leader_for_partitions ==
    /\ Answered("metadata")
    /\ UNCHANGED <<cluster, c, h>>
    /\ IF call.op = "describe_topics" THEN returns(call)
       ELSE IF errors_in_order[1] # "none" THEN raises("unknown_topic")
       ELSE \E requests \in leader_requests(round[1].answer.nodes) :
               round' = <<Head(requests)>> /\ later' = Tail(requests) /\ UNCHANGED <<call, abandoned>>

failed_last(errors) == {n \in DOMAIN errors : ~ok(errors[n]) /\ n \in round[1].names}
failed(errors) == {n \in DOMAIN errors : ~ok(errors[n])}
joined(more, errors) == [n \in DOMAIN more \cup DOMAIN errors |-> IF n \in DOMAIN more THEN more[n] ELSE errors[n]]
delete_records ==
    /\ Answered("delete_records")
    /\ LET errors == joined(round[1].answer.errors, call.errors)
           bad == failed(errors)
       IN  IF later # <<>>
           THEN /\ round' = <<Head(later)>> /\ later' = Tail(later) /\ UNCHANGED abandoned
                /\ call' = [call EXCEPT !.errors = errors]
           ELSE IF bad = {} THEN returns([call EXCEPT !.errors = errors])
           ELSE raises(IF Cardinality(bad) = 1 THEN errors[CHOOSE n \in bad : TRUE] ELSE "broker_response")
    /\ UNCHANGED <<cluster, c, h>>

-----------------------------------------------------------------------------
(* Configurations: a broker's from itself, all others' from any one, in any order; what they answer is the result. *)

of_brokers(x) == ToSet(x.names) \cap Brokers
of_others(x) == ToSet(x.names) \ Brokers
describe_configs(x) ==
    {[i \in DOMAIN bs |-> Request(x.op, {bs[i]}, bs[i])]
        \o IF of_others(x) = {} THEN <<>> ELSE <<Request(x.op, of_others(x), AnyNode)>> : bs \in SetToSeqs(of_brokers(x))}
alter_configs(x) == <<Request(x.op, ToSet(x.names), AnyNode)>>

configs_answered ==
    /\ \E op \in {"describe_configs", "alter_configs"} : Answered(op)
    /\ returns([call EXCEPT !.errors = errors_of_all])
    /\ UNCHANGED <<cluster, c, h>>

-----------------------------------------------------------------------------

first_round(x) ==
    CASE x.op \in Commands -> {<<Request(x.op, ToSet(x.names), c.controller_id)>>}
      [] x.op \in GroupOps -> IF x.node = AnyNode THEN {find(x)} ELSE of_groups(x, [i \in DOMAIN x.names |-> x.node])
      [] x.op = "list_consumer_groups" -> {[i \in DOMAIN bs |-> Request("list_groups", {}, bs[i])] : bs \in SetToSeqs(c.brokers)}
      [] x.op = "delete_records" ->
           {<<IF x.node = AnyNode THEN Request("metadata", ToSet(x.names), AnyNode)
              ELSE Request(x.op, ToSet(x.names), x.node)>>}
      [] x.op = "describe_topics" -> {<<Request("metadata", ToSet(x.names), AnyNode)>>}
      [] x.op = "describe_configs" -> describe_configs(x)
      [] x.op = "alter_configs" -> {alter_configs(x)}

\* The application calls, and again what has raised; where a controller, coordinator or leader was begins anew.
Call ==
    /\ ~Busy /\ h.calls < MaxCalls
    /\ \E x \in Calls :
          /\ call.state = "none" \/ (call.state = "raised" /\ call.op = x.op /\ call.names = x.names)
          /\ call' = [NoCall EXCEPT !.op = x.op, !.names = x.names, !.node = x.node, !.state = "busy"]
          /\ round' \in first_round(x)
    /\ h' = [h EXCEPT !.calls = @ + 1, !.handled = 0, !.done = {}, !.controllers = {cluster.controller},
                      !.were = [n \in DOMAIN h.were |-> {IF n \in ConsumerGroups THEN cluster.coordinator[n] ELSE cluster.leader[n]}]]
    /\ UNCHANGED <<cluster, c, later, abandoned>>

Init ==
    /\ \E start \in Starts : cluster = start[1] /\ c = start[2]
    /\ call = NoCall /\ round = <<>> /\ later = <<>> /\ abandoned = {}
    /\ h = [calls |-> 0, moves |-> 0, handled |-> 0, done |-> {}, controllers |-> {}, were |-> [n \in ConsumerGroups \cup Topics |-> {}]]

Next ==
    \/ Call \/ send \/ _wait_for_futures \/ _send_request_to_controller \/ _refresh_controller_id
    \/ _find_coordinator_ids \/ groups_answered \/ list_consumer_groups
    \/ _get_leader_for_partitions \/ delete_records \/ configs_answered
    \/ Serve \/ Lose \/ ServeAbandoned \/ Move
Spec == Init /\ [][Next]_vars

-----------------------------------------------------------------------------
(* Properties. *)

Returned(op) == call.state = "returned" /\ call.op = op

\* A call is at work exactly while it has requests, and waits for no more than it has sent.
AdminTypeOK ==
    /\ call.state \in {"none", "busy", "returned", "raised"} /\ (Busy <=> round # <<>>)
    /\ \A i \in DOMAIN round :
          /\ round[i].state \in {"new", "sent", "succeeded", "failed"} /\ round[i].names \subseteq Names
          /\ round[i].state # "new" => round[i].at \in Brokers
    /\ c.controller_id \in Brokers /\ call.tries \in 0 .. tries_left

\* A command has been handled by a controller at most once, whatever is tried again.
HandledOnce == h.handled <= 1

\* A call that returns has done all it was to do: every topic is created, deleted, grown or led anew,
\* every partition's records are deleted; and every group is deleted of which it says so, or described.
ReturnedIsDone ==
    /\ \A op \in Commands \cup {"delete_records"} : Returned(op) => h.done = ToSet(call.names)
    /\ Returned("delete_consumer_groups") =>
          DOMAIN call.errors = ToSet(call.names) /\ {g \in DOMAIN call.errors : call.errors[g] = "none"} = h.done
    /\ Returned("describe_consumer_groups") => call.described = call.names

\* A command fails for not having reached the controller only if that has moved while it was called.
OutdatedIsRefreshed == call.state = "raised" /\ call.error = "not_controller" => Cardinality(h.controllers) > 1

\* What a group's coordinator or a partition's leader is to do is asked of one that it had during the call.
AskedRightly ==
    Busy /\ call.node = AnyNode => \A i \in DOMAIN round :
        /\ round[i].api \in GroupOps \cup {"delete_records"} => \A n \in round[i].names : round[i].node \in h.were[n]
        /\ round[i].api = "describe_configs" => round[i].names \cap Brokers \subseteq {round[i].node}

\* The list has every group that has stayed with a broker the client knows.
ListComplete ==
    Returned("list_consumer_groups") =>
        \A g \in cluster.groups : (\E b \in c.brokers : h.were[g] = {b}) => g \in call.listed
=============================================================================
