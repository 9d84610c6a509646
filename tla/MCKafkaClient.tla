---------------------------- MODULE MCKafkaClient ----------------------------
(* Instances of KafkaClient for TLC: a thread that looks for the version of the
   brokers, a thread that sends, and two that do, between which there is no
   difference.                                                               *)
EXTENDS KafkaClient

CONSTANTS t0, t1, t2

Looking(f) == [threads |-> {t0}, sends |-> 0, topics |-> 0, faults |-> f, version_known |-> FALSE]
Sending(threads, sends, topics, f) ==
    [threads |-> threads, sends |-> sends, topics |-> topics, faults |-> f, version_known |-> TRUE]

AllModes == {Looking(7), Sending({t0}, 2, 1, 1), Sending({t1, t2}, 1, 0, 1), Sending({t1, t2}, 2, 0, 0)}

Alike == Permutations({t1, t2})
=============================================================================
