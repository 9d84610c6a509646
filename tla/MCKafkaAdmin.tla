----------------------------- MODULE MCKafkaAdmin -----------------------------
(* Two brokers, two topics, two groups; every operation, and a second call.    *)
EXTENDS KafkaAdmin

CONSTANTS t1, t2, g1, g2

TwoBrokers == {1, 2}
TwoTopics == {t1, t2}
TwoGroups == {g1, g2}
OneForeign == {g2}

Cluster(b, ts, f) ==
    [up |-> TwoBrokers, controller |-> b, partitions |-> [t \in TwoTopics |-> IF t \in ts THEN 1 ELSE 0],
     leader |-> [t \in TwoTopics |-> IF t = t1 THEN 1 ELSE 2], coordinator |-> f, groups |-> TwoGroups]
Both == [g \in TwoGroups |-> 1]
Each == [g \in TwoGroups |-> IF g = g1 THEN 1 ELSE 2]
AllStarts ==
    {<<Cluster(1, ts, Both), [controller_id |-> b, brokers |-> TwoBrokers]>> : b \in TwoBrokers, ts \in SUBSET TwoTopics}
    \cup {<<Cluster(2, TwoTopics, Each), [controller_id |-> 2, brokers |-> bs]>> : bs \in {TwoBrokers, {2}}}

Op(op, names, node) == [op |-> op, names |-> names, node |-> node]
AllCalls ==
    {Op(op, <<t1, t2>>, AnyNode) : op \in Commands} \cup {Op("create_topics", <<t1>>, AnyNode)}
    \cup {Op(op, <<g1, g2>>, AnyNode) : op \in GroupOps \ {"list_consumer_group_offsets"}}
    \cup {Op("list_consumer_group_offsets", <<g1>>, AnyNode), Op("describe_consumer_groups", <<g1>>, 1),
          Op("list_consumer_groups", <<>>, AnyNode), Op("delete_records", <<t1, t2>>, AnyNode), Op("delete_records", <<t1>>, 2),
          Op("describe_topics", <<t1>>, AnyNode), Op("describe_configs", <<2, t1, 1>>, AnyNode), Op("alter_configs", <<1, t1>>, AnyNode)}
=============================================================================
