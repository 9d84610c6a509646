--------------------------- MODULE KafkaAssignors ---------------------------
(* How the consumers of the kafka-python layer divide the partitions of a group
   (coordinator/assignors): the sticky assignor over successive rebalances, with
   what its members report of earlier ones, and the range and roundrobin ones.

   Abstractions: a partition is a pair of its topic and its number, a consumer
   its rank among the member ids; user data is decoded; a partition list is the
   set of its members, in ascending order.  Between two rebalances one thing
   changes: a subscription (none: the consumer has left) or the partitions of a
   topic.                                                                    *)
EXTENDS Integers, Sequences, FiniteSets, SequencesExt

CONSTANTS Consumer, Topic,
          Clusters,       \* the numbers of partitions the topics may have
          MaxGeneration,  \* rebalances
          Modes           \* the assignor, the process each consumer runs in, who may be a member, the static
                          \* ones, how many an assignment may fail to reach, states to start from (none: afresh)

Histories == [cluster : [Topic -> Nat], subscription : [Consumer -> SUBSET Topic], generation : 0 .. MaxGeneration,
              state : [Consumer -> [partitions : SUBSET (Topic \X Nat), generation : {-1} \cup (1 .. MaxGeneration)]]]

AssignorsAssumption ==
    /\ Consumer \subseteq Nat /\ Topic \subseteq Nat /\ IsFiniteSet(Consumer) /\ IsFiniteSet(Topic)
    /\ Clusters \subseteq [Topic -> Nat] /\ MaxGeneration \in Nat
    /\ Modes \subseteq [assignor : {"sticky", "range", "roundrobin"}, process : [Consumer -> Consumer],
                        members : SUBSET Consumer, static : SUBSET Consumer, missed : Nat,
                        histories : SUBSET Histories]

VARIABLES cluster,       \* the partitions of every topic the leader knows
          subscription,  \* the topics of every consumer; a member has some
          generation,
          state,         \* member_assignment and generation of each process (class attributes)
          assignment,    \* the assignment of the current generation
          x,             \* the StickyAssignmentExecutor at work
          mode

vars == <<cluster, subscription, generation, state, assignment, x, mode>>

process == mode.process
Member == {c \in Consumer : subscription[c] # {}}
Partitions(k) == UNION {{<<t, i>> : i \in 0 .. k[t] - 1} : t \in Topic}
Partition == Partitions(cluster)

Before(p, q) == p[1] < q[1] \/ (p[1] = q[1] /\ p[2] < q[2])
Sorted(S) == SetToSortSeq(S, Before)

-----------------------------------------------------------------------------
(* The executor. *)

consumers_of(p) == {c \in Member : p[1] \in subscription[c]}
partitions_of(c) == {p \in Partition : p[1] \in subscription[c]}

DEFAULT_GENERATION_ID == -1
NoAssignment == [partitions |-> {}, generation |-> DEFAULT_GENERATION_ID]
metadata(c) == state[process[c]]

\* _init_current_assignments: who claims a partition, latest generation first;
\* of two claims of one generation, that of the member that comes first.
claims(p) == {metadata(c).generation : c \in {d \in Member : p \in metadata(d).partitions}}
latest(p) == CHOOSE g \in claims(p) : \A h \in claims(p) : h <= g
one_before(p) == CHOOSE g \in claims(p) \ {latest(p)} : \A h \in claims(p) \ {latest(p)} : h <= g
claimant(p, g, order) ==
    LET claiming == SelectSeq(order, LAMBDA c : p \in metadata(c).partitions /\ metadata(c).generation = g)
    IN  Head(claiming)
reported == UNION {metadata(c).partitions : c \in Member}
init_current_assignments(order) == [c \in Member |-> {p \in reported : claimant(p, latest(p), order) = c}]
kept_of_any_topic(current) == [c \in Member |-> current[c] \cap Partition]
kept_if_gone(current) == [c \in Member |-> {p \in current[c] : p[1] \in subscription[c]}]
kept_never(current) == [c \in Member |-> {}]
\* _populate_sorted_partitions and _populate_partitions_to_reassign drop the rest.
kept(current) == [c \in Member |-> {p \in current[c] : p \in Partition /\ p[1] \in subscription[c]}]
previous_assignment(order) ==
    [p \in {q \in reported : Cardinality(claims(q)) > 1} |-> claimant(p, one_before(p), order)]

load(y, c) == IF c \in y.fixed THEN 0 ELSE Cardinality(y.current[c])
owner(y, p) == CHOOSE c \in DOMAIN y.current : p \in y.current[c]
\* sorted_current_subscriptions.
by_load(y) ==
    SetToSortSeq(Member \ y.fixed, LAMBDA c, d : load(y, c) < load(y, d) \/ (load(y, c) = load(y, d) /\ c < d))

\* _populate_sorted_partitions, when subscriptions differ or nothing was assigned.
by_consumers ==
    SetToSortSeq(Partition, LAMBDA p, q :
        LET m == Cardinality(consumers_of(p))
            n == Cardinality(consumers_of(q))
        IN  m < n \/ (m = n /\ Before(p, q)))

are_subscriptions_identical ==
    /\ \A p, q \in Partition : consumers_of(p) = consumers_of(q)
    /\ \A c, d \in Member : partitions_of(c) = partitions_of(d)

-----------------------------------------------------------------------------

Keeps == UNCHANGED <<cluster, subscription, generation, state, assignment, mode>>

Orders(S) == {f \in [1 .. Cardinality(S) -> S] : \A i, j \in DOMAIN f : f[i] = f[j] => i = j}

\* What changes between two rebalances.
Changed ==
    \/ \E c \in mode.members, T \in SUBSET Topic : subscription' = [subscription EXCEPT ![c] = T] /\ UNCHANGED cluster
    \/ \E k \in Clusters : cluster' = k /\ UNCHANGED subscription

Change ==
    /\ x.pc = "idle" /\ generation < MaxGeneration
    /\ Changed
    /\ {c \in Consumer : subscription'[c] # {}} # {}
    /\ x' = [pc |-> "assign"]
    /\ UNCHANGED <<generation, state, assignment, mode>>

\* perform_initial_assignment: what is kept of the assignments reported, and the
\* order in which partitions will be moved.
Begin ==
    /\ x.pc = "assign" /\ mode.assignor = "sticky"
    /\ \E order \in Orders(Member), same_order \in BOOLEAN :
        LET current == init_current_assignments(order)
            fresh == reported = {}
            robin == ~fresh /\ are_subscriptions_identical /\ same_order
        IN  /\ same_order \/ \E c \in Member : Cardinality(subscription[c]) > 1
            /\ x' = [pc |-> "sort", current |-> kept(current), fixed |-> {}, previous |-> previous_assignment(order),
                     revocation_required |-> \E c \in Member : \E p \in current[c] : p \in Partition /\ p[1] \notin subscription[c],
                     reported |-> [c \in Member |-> current[c] \cap Partition],
                     sorted |-> IF robin THEN <<>> ELSE by_consumers,
                     remaining |-> IF robin THEN [c \in Member |-> current[c] \cap Partition] ELSE [c \in Member |-> {}]]
    /\ Keeps

\* _populate_sorted_partitions of a reassignment with identical subscriptions: in turn, from the
\* consumer with the most partitions, one that had another consumer before, or its last.
Sort ==
    /\ x.pc = "sort" /\ \E c \in Member : x.remaining[c] # {}
    /\ LET most == CHOOSE c \in Member : \A d \in Member \ {c} :
               Cardinality(x.remaining[d]) < Cardinality(x.remaining[c])
                 \/ (Cardinality(x.remaining[d]) = Cardinality(x.remaining[c]) /\ d < c)
           moved == x.remaining[most] \cap DOMAIN x.previous
           candidates == IF moved # {} THEN moved ELSE {Last(Sorted(x.remaining[most]))}
       IN  \E p \in candidates :
              x' = [x EXCEPT !.remaining[most] = @ \ {p}, !.sorted = Append(@, p)]
    /\ Keeps

-----------------------------------------------------------------------------
(* balance *)

assign_partition(y, p) ==
    LET able == SelectSeq(by_load(y), LAMBDA c : p \in partitions_of(c))
    IN  IF able = <<>> THEN y ELSE [y EXCEPT !.current[Head(able)] = @ \cup {p}]

can_partition_participate(p) == Cardinality(consumers_of(p)) >= 2
can_consumer_participate(y, c) ==
    Cardinality(y.current[c]) < Cardinality(partitions_of(c)) \/ \E p \in y.current[c] : can_partition_participate(p)

is_balanced_enough(y) == load(y, Head(by_load(y))) >= load(y, Last(by_load(y))) - 2
is_balanced(y) ==
    LET order == by_load(y)
        takes_more(c) == \E p \in partitions_of(c) \ y.current[c] : load(y, c) < load(y, owner(y, p))
    IN  \/ load(y, Head(order)) >= load(y, Last(order)) - 1
        \/ \A c \in Range(order) : ~takes_more(c)

Distance(m, n) == IF m < n THEN n - m ELSE m - n
balance_score(current, C) ==
    FoldSet(LAMBDA P, a : a + Distance(Cardinality(current[Min(P)]), Cardinality(current[Max(P)])), 0, {P \in SUBSET C : Cardinality(P) = 2})

\* balance, up to the reassignments: all unassigned partitions go to the least loaded, then the scope narrows.
Balance ==
    /\ x.pc = "sort" /\ \A c \in Member : x.remaining[c] = {}
    /\ LET sorted     == x.sorted \o SelectSeq(by_consumers, LAMBDA p : p \notin Range(x.sorted))
           owned      == UNION {x.current[c] : c \in Member}
           unassigned == SelectSeq(sorted, LAMBDA p : p \notin owned)
           initial    == [pc |-> "reassign", current |-> x.current, fixed |-> {}, previous |-> x.previous]
           assigned   == FoldLeft(assign_partition, initial, unassigned)
           movable(q) == SelectSeq(q, can_partition_participate)
           most       == Last(by_load(initial))
       IN  x' = [pc |-> "reassign", current |-> assigned.current, previous |-> x.previous,
                 fixed |-> {c \in Member : ~can_consumer_participate(assigned, c)},
                 prebalance |-> assigned.current, initializing |-> x.current[most] = {}, reported |-> x.reported,
                 touched |-> {},
                 lists |-> IF x.revocation_required THEN <<movable(sorted)>> ELSE <<movable(unassigned), movable(sorted)>>,
                 i |-> 1, modified |-> FALSE, performed |-> FALSE,
                 movements |-> <<>>]
    /\ Keeps

\* PartitionMovements: the partition that is moved instead, were the move to reverse another of its topic.
that_partition(y, p, old, new) == {p}
get_partition_to_be_moved(y, p, old, new) ==
    LET src == IF p \in DOMAIN y.movements THEN y.movements[p].src ELSE old
        reverse == {q \in DOMAIN y.movements : q[1] = p[1] /\ y.movements[q] = [src |-> new, dst |-> src]}
    IN  IF reverse = {} THEN {p} ELSE reverse
move_partition_again(m, p, old, new) == (p :> [src |-> old, dst |-> new]) @@ m
move_partition(m, p, old, new) ==
    LET src  == IF p \in DOMAIN m THEN m[p].src ELSE old
        rest == [q \in DOMAIN m \ {p} |-> m[q]]
    IN  IF src = new THEN rest ELSE (p :> [src |-> src, dst |-> new]) @@ rest

_move_partition(y, p, new) ==
    LET old == owner(y, p) IN
    [y EXCEPT !.current = [@ EXCEPT ![old] = @ \ {p}, ![new] = @ \cup {p}],
              !.movements = move_partition(@, p, old, new),
              !.modified = TRUE, !.performed = TRUE]

\* A partition had a consumer before that subscribes to its topic no more.
stale(y) == \E p \in DOMAIN y.previous : y.previous[p] \notin consumers_of(p)

todo == Head(x.lists)
Considered == todo[x.i]
list_ends == IF x.i > Len(todo) THEN TRUE ELSE is_balanced(x)

\* The consumer it had before has fewer by two.
goes_back_at_once == Considered \in DOMAIN x.previous
               /\ load(x, owner(x, Considered)) > load(x, x.previous[Considered])
goes_back == Considered \in DOMAIN x.previous
               /\ load(x, owner(x, Considered)) > load(x, x.previous[Considered]) + 1
next_partition ==
    [x EXCEPT !.i = @ + 1,
              !.touched = IF Considered \in DOMAIN x.previous THEN @ \cup ({x.previous[Considered]} \cap x.fixed) ELSE @]

Reassign ==
    /\ x.pc = "reassign" /\ x.lists # <<>> /\ ~list_ends
    /\ LET p      == Considered
           c      == owner(x, p)
           able   == SelectSeq(by_load(x), LAMBDA d : p \in partitions_of(d))
           better == \E d \in consumers_of(p) : load(x, c) > load(x, d) + 1
       IN  \/ /\ goes_back /\ x.previous[p] \in x.fixed        \* KeyError: it is not among the sorted consumers
              /\ x' = [pc |-> "raised", stale |-> stale(x)]
           \/ /\ goes_back /\ x.previous[p] \notin x.fixed
              /\ \E q \in get_partition_to_be_moved(x, p, c, x.previous[p]) :
                    x' = _move_partition(next_partition, q, x.previous[p])
           \/ /\ ~goes_back /\ better
              /\ \E q \in get_partition_to_be_moved(x, p, c, Head(able)) :
                    x' = _move_partition(next_partition, q, Head(able))
           \/ ~goes_back /\ ~better /\ x' = next_partition
    /\ Keeps

\* The end of the list, or balance: once more if anything moved, else the next list. Only what the last
\* list has moved counts for the revert.
EndOfList ==
    /\ x.pc = "reassign" /\ x.lists # <<>> /\ list_ends
    /\ x' = [x EXCEPT !.i = 1, !.modified = FALSE, !.lists = IF x.modified THEN @ ELSE Tail(@),
                      !.performed = @ /\ (x.modified \/ Len(x.lists) = 1)]
    /\ Keeps

\* The rest of balance, and on_assignment of the members that the assignment reaches.
Final ==
    LET scored(current, C) == balance_score([c \in C |-> IF c \in x.fixed THEN {} ELSE current[c]], C)
        reverts == /\ ~x.initializing /\ x.performed
                   /\ scored(x.current, (Member \ x.fixed) \cup x.touched) >= scored(x.prebalance, Member \ x.fixed)
    IN  IF reverts THEN x.prebalance ELSE x.current

Finish ==
    /\ x.pc = "reassign" /\ x.lists = <<>>
    /\ generation' = generation + 1
    /\ assignment' = Final
    /\ \E missed \in SUBSET Member :
          /\ Cardinality(missed) <= mode.missed
          /\ LET got(r)  == {c \in Member \ missed : process[c] = r}
                 left(r) == IF got(r) = {} THEN {state[r]}
                            ELSE {[partitions |-> Final[c], generation |-> generation + 1] : c \in got(r)}
             IN  state' \in {s \in [Consumer -> UNION {left(r) : r \in Consumer}] : \A r \in Consumer : s[r] \in left(r)}
    /\ x' = [pc |-> "idle", reported |-> x.reported, movements |-> x.movements, stale |-> stale(x),
              disputed |-> DOMAIN x.previous # {}]
    /\ UNCHANGED <<cluster, subscription, mode>>

-----------------------------------------------------------------------------
(* The range and the roundrobin assignor. *)

\* itertools.groupby makes a group of each run of static members; the dictionary keeps the last.
LastRun(order, S) ==
    LET at == {i \in DOMAIN order : order[i] \in S}
        from == {j \in 1 .. Max(at) : \A i \in j .. Max(at) : i \in at}
    IN  IF at = {} THEN <<>> ELSE SortSeq(SubSeq(order, Min(from), Max(at)), <)
members_in_turn(order) == LastRun(order, mode.static) \o LastRun(order, Consumer \ mode.static)

RangeOf(t, order) ==
    LET consumers == members_in_turn(SelectSeq(order, LAMBDA c : t \in subscription[c]))
        each == cluster[t] \div Len(consumers)
        extra == cluster[t] % Len(consumers)
        start(i) == each * (i - 1) + Min({i - 1, extra})
    IN  [c \in Member |-> {<<t, k>> : k \in UNION {start(i) .. start(i + 1) - 1 : i \in {j \in DOMAIN consumers : consumers[j] = c}}}]
Subscribed == UNION {subscription[c] : c \in Member}

all_partitions == Sorted(Partition)
all_topic_partitions == Sorted({p \in Partition : p[1] \in Subscribed})
RoundRobinNext(consumers, y, p) ==
    LET c == consumers[(y.turn % Len(consumers)) + 1]
    IN  IF y.raised \/ p[1] \notin subscription[c] THEN [y EXCEPT !.raised = TRUE]
        ELSE [y EXCEPT !.turn = @ + 1, !.assignment[c] = @ \cup {p}]
RoundRobin(order) ==
    FoldLeft(LAMBDA y, p : RoundRobinNext(members_in_turn(order), y, p),
             [turn |-> 0, raised |-> FALSE, assignment |-> [c \in Member |-> {}]],
             all_topic_partitions)

Assigned(a) ==
    /\ assignment' = a /\ generation' = generation + 1
    /\ x' = [pc |-> "idle"]
    /\ UNCHANGED <<cluster, subscription, state, mode>>

Assign ==
    /\ x.pc = "assign"
    /\ \E order \in Orders(Member) :
        \/ mode.assignor = "range" /\ Assigned([c \in Member |-> UNION {RangeOf(t, order)[c] : t \in Subscribed}])
        \/ mode.assignor = "roundrobin" /\ ~RoundRobin(order).raised /\ Assigned(RoundRobin(order).assignment)
        \/ mode.assignor = "roundrobin" /\ RoundRobin(order).raised /\ x' = [pc |-> "raised"] /\ Keeps

-----------------------------------------------------------------------------

Init ==
    /\ mode \in Modes
    /\ \/ /\ mode.histories = {} /\ cluster \in Clusters
          /\ subscription \in {f \in [Consumer -> SUBSET Topic] : \A c \in Consumer \ mode.members : f[c] = {}}
          /\ generation = 0 /\ state = [r \in Consumer |-> NoAssignment]
       \/ \E h \in mode.histories :
             cluster = h.cluster /\ subscription = h.subscription /\ generation = h.generation /\ state = h.state
    /\ Member # {}
    /\ assignment = [c \in {} |-> {}]
    /\ x = [pc |-> "assign"]

Step == Begin \/ Sort \/ Balance \/ Reassign \/ EndOfList \/ Finish
Next == Change \/ Step \/ Assign
Spec == Init /\ [][Next]_vars

-----------------------------------------------------------------------------
(* Properties. *)

\* A generation's assignment and its executor's have the form the leader sends: of partitions that exist.
TypeOK ==
    /\ cluster \in [Topic -> Nat] /\ subscription \in [Consumer -> SUBSET Topic] /\ generation \in 0 .. MaxGeneration + 1
    /\ \A r \in Consumer : state[r].generation \in DEFAULT_GENERATION_ID .. generation
    /\ x.pc \in {"idle", "assign", "sort", "reassign", "raised"}
    /\ x.pc \in {"sort", "reassign"} => x.current \in [Member -> SUBSET Partition]

Done == x.pc = "idle"
Stale == "stale" \in DOMAIN x /\ x.stale

OneEach ==
    \A p \in Partition :
        LET takers == {c \in Member : p \in assignment[c]}
        IN  takers \subseteq consumers_of(p) /\ Cardinality(takers) = IF consumers_of(p) = {} THEN 0 ELSE 1

\* Every partition that someone subscribes to has one consumer, which subscribes to it, however stale
\* what members report - unless a report names a topic that its member has left.
Complete == Done /\ ~Stale => OneEach

\* An assignor raises (and the leader's join fails) only for such a report, and roundrobin where
\* subscriptions differ: its generator yields tuples where the code expects a member id.
RaisesRarely ==
    x.pc = "raised" => Stale \/ (mode.assignor = "roundrobin" /\ \E c, d \in Member : subscription[c] # subscription[d])

\* Where all subscribe to the same topics and no two report a partition, no more partitions move than
\* balance asks for.
Sticky ==
    Done /\ mode.assignor = "sticky" /\ ~x.disputed /\ (\A c, d \in Member : subscription[c] = subscription[d]) =>
        LET all == {p \in Partition : consumers_of(p) # {}}
            had(c) == Cardinality(x.reported[c] \cap all)
            share == Cardinality(all) \div Cardinality(Member)
            more == {c \in Member : had(c) > share}
            excess == FoldSet(LAMBDA c, a : a + had(c) - share, 0, more) - Min({Cardinality(more), Cardinality(all) % Cardinality(Member)})
        IN  FoldSet(LAMBDA c, a : a + Cardinality((x.reported[c] \cap all) \ assignment[c]), 0, Member) = excess

\* "the numbers of topic partitions assigned to consumers differ by at most one; or each consumer
\* that has 2+ fewer topic partitions than some other consumer cannot get any of those".
Balanced ==
    Done /\ mode.assignor = "sticky" => \A c, d \in Member :
        Cardinality(assignment[c]) >= Cardinality(assignment[d]) + 2 => \A p \in assignment[c] : d \notin consumers_of(p)

\* are_sticky: no two partitions of a topic swap their consumers.
NoSwap ==
    "movements" \in DOMAIN x => \A p, q \in DOMAIN x.movements :
        p[1] = q[1] => ~(x.movements[p].src = x.movements[q].dst /\ x.movements[p].dst = x.movements[q].src)

\* A movement's record leads from the consumer that had the partition when balancing began to the one
\* that has it now, however often it was moved, and a partition that came back has none.
MovementsTrack ==
    x.pc = "reassign" => \A p \in DOMAIN x.movements :
        /\ x.movements[p].dst = owner(x, p) /\ x.movements[p].src # x.movements[p].dst
        /\ p \in x.prebalance[x.movements[p].src]

\* Balancing ends: every move narrows the spread of the loads, so partitions do not move around forever.
Spread(current) == FoldSet(LAMBDA c, a : a + Cardinality(current[c]) * Cardinality(current[c]), 0, DOMAIN current)
Narrows == x.pc = "reassign" /\ x'.pc = "reassign" => x'.current = x.current \/ Spread(x'.current) < Spread(x.current)
MovesNarrow == [][Narrows]_vars
=============================================================================
