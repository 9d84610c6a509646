---------------------------- MODULE MCKafkaGroup ----------------------------
(* Instances of KafkaGroup.  The safety run starts two consumers at once.  The
   liveness run starts either both, undisturbed, or one with the whole budget of
   faults, the other already closed.                                         *)
EXTENDS KafkaGroup, TLC

Symmetry == Permutations(Consumer) \cup Permutations(Partition)

Alone == {m \in SUBSET Consumer : Cardinality(m) = 1}

LiveInit ==
    \E active \in Alone \cup {Consumer} :
        /\ consumer = [m \in Consumer |-> IF m \in active THEN NewConsumer
                                          ELSE [NewConsumer EXCEPT !.pc = "closed"]]
        /\ wire = [m \in Consumer |-> <<>>]
        /\ group = EmptyGroup
        /\ faults = IF active = Consumer THEN MaxFaults ELSE 0

LiveSpec == LiveInit /\ [][Next]_vars /\ Fairness
=============================================================================
