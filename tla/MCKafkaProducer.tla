-------------------------- MODULE MCKafkaProducer --------------------------
(* Instances of KafkaProducer for TLC: producers without a transaction manager,
   idempotent and transactional ones, with the partitions on one broker or two. *)
EXTENDS KafkaProducer

CONSTANTS p1, p2

OneNode == [p \in {p1, p2} |-> 1]
TwoNodes == [p \in {p1, p2} |-> IF p = p1 THEN 1 ELSE 2]

Plain(inflight, leader, sends, ages) ==
    [manager |-> "none", retries |-> 1, inflight |-> inflight, leader |-> leader,
     sends |-> sends, txns |-> 0, ages |-> ages]
Idempotent(leader, sends, ages) ==
    [manager |-> "idempotent", retries |-> 1, inflight |-> 1, leader |-> leader,
     sends |-> sends, txns |-> 0, ages |-> ages]
Transactional(leader, sends, txns, ages) ==
    [manager |-> "transactional", retries |-> 1, inflight |-> 1, leader |-> leader,
     sends |-> sends, txns |-> txns, ages |-> ages]

AllModes ==
    {Plain(1, OneNode, 3, 1), Plain(2, OneNode, 2, 1), Idempotent(OneNode, 3, 0), Idempotent(OneNode, 2, 1),
     Transactional(OneNode, 2, 1, 0), Transactional(TwoNodes, 2, 1, 0), Transactional(OneNode, 1, 2, 0)}
=============================================================================
