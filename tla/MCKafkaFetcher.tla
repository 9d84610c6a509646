--------------------------- MODULE MCKafkaFetcher ---------------------------
(* A log whose first batch is compacted and belongs to a transaction that the
   second one aborts; the last may hold a record that cannot be unpacked.     *)
EXTENDS KafkaFetcher

CONSTANTS Corrupt, p1, p2

Log == <<[base |-> 0, next |-> 2, records |-> {0}, kind |-> "txn", producer |-> 1, bad |-> {}],
         [base |-> 2, next |-> 3, records |-> {}, kind |-> "abort", producer |-> 1, bad |-> {}],
         [base |-> 3, next |-> 5, records |-> {3, 4}, kind |-> "plain", producer |-> 0, bad |-> Corrupt]>>

Mode == [group |-> FALSE, iterates |-> FALSE, parts |-> {p1}, calls |-> 1, logged |-> Len(Log)]
\* The last finds the transaction open, and the rest is produced meanwhile.
AllModes == {[Mode EXCEPT !.group = TRUE], [Mode EXCEPT !.iterates = TRUE, !.calls = 2],
             [Mode EXCEPT !.parts = {p1, p2}], [Mode EXCEPT !.logged = 1, !.calls = 0]}
=============================================================================
