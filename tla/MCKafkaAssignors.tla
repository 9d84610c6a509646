-------------------------- MODULE MCKafkaAssignors --------------------------
(* Instances of KafkaAssignors: the sticky assignor among three consumers that
   have been started again, in a process each or two in one, and among more from a
   history in which assignments of two generations did not reach all members;
   the range and the roundrobin assignor.                                    *)
EXTENDS KafkaAssignors

TwoTopics == {<<2, 2>>, <<1, 3>>}

Apart == [c \in Consumer |-> c]
Together == [c \in Consumer |-> IF c = 2 THEN 1 ELSE c]
Three == {1, 2, 3}

Mode == [assignor |-> "sticky", process |-> Apart, members |-> Three, static |-> {}, missed |-> 0, histories |-> {}]

Claims(g, partitions) == [partitions |-> partitions, generation |-> g]
\* Balancing moves a partition twice.
Disputed ==
    [cluster |-> <<2, 2>>, subscription |-> <<{2}, {2}, {1, 2}, {}>>, generation |-> 2,
     state |-> <<Claims(1, Partitions(<<2, 2>>)), Claims(2, {}), Claims(2, Partitions(<<2, 2>>)), NoAssignment>>]
\* A move would reverse another.
Scattered ==
    [cluster |-> <<2, 4>>, subscription |-> [c \in Consumer |-> {1, 2}], generation |-> 3,
     state |-> <<Claims(1, {<<2, 0>>, <<2, 2>>, <<2, 3>>}),
                 Claims(2, {<<1, 0>>, <<1, 1>>, <<2, 1>>, <<2, 2>>, <<2, 3>>}),
                 Claims(1, {<<1, 0>>, <<1, 1>>, <<2, 1>>}),
                 NoAssignment>>]

\* Members that have all been started again, with two rebalances to come.
Restarted ==
    {[cluster |-> k, subscription |-> <<S[1], S[2], S[3], {}>>, generation |-> 1, state |-> [c \in Consumer |-> NoAssignment]] :
        k \in TwoTopics, S \in [Three -> SUBSET {1, 2}] \ {[c \in Three |-> {}]}}

AllModes ==
    {[Mode EXCEPT !.missed = 1, !.histories = Restarted], [Mode EXCEPT !.process = Together, !.histories = Restarted],
     [Mode EXCEPT !.histories = {Disputed, Scattered}],
     [Mode EXCEPT !.assignor = "range", !.static = {1, 3}], [Mode EXCEPT !.assignor = "roundrobin", !.static = {2}]}
=============================================================================
