-------------------------------- MODULE DbPool --------------------------------
(* The connection pool of the psycopg2 layer (psycopg2/pool.py), shared by the
   threads of an application: getconn, putconn and closeall, each under the
   pool's lock, and what becomes of a connection between them.

   Abstractions: of a connection its state as the client sees it, and whether the
   server still has it; a thread keys its connections by itself or not at all.  *)
EXTENDS Integers, SequencesExt

CONSTANTS Threads, minconn, maxconn,
          Connections,   \* numbers: a bound on connections ever made
          MaxKeys        \* a bound on the connections taken without a key

VARIABLES pool,          \* _pool, from which the last is taken
          used,          \* _used, key to connection
          rused,         \* _rused, connection to key
          keys,          \* _keys
          closed,
          conn,          \* of each connection made: its transaction status, or closed; and whether the server has it
          held           \* of each thread: pairs of a connection and the key it gave, or NoKey

\* A thread's own key is no number, as the pool's are.
PoolAssumption ==
    /\ minconn \in Nat /\ Connections \subseteq Nat \ {0} /\ 1 .. minconn \subseteq Connections
    /\ MaxKeys \in Nat /\ \A t \in Threads : t \notin Nat /\ t # "none"

vars == <<pool, used, rused, keys, closed, conn, held>>

NoKey == "none"
Made == {i \in Connections : conn[i].status # "new"}
without_none(f, k) == f
without(f, k) == [x \in DOMAIN f \ {k} |-> f[x]]
with(f, k, v) == [x \in DOMAIN f \cup {k} |-> IF x = k THEN v ELSE f[x]]
UsedNow == {used[k] : k \in DOMAIN used}

-----------------------------------------------------------------------------

_connect == [status |-> "idle", there |-> TRUE]
Assign(key, i) == used' = with(used, key, i) /\ rused' = with(rused, i, key)

not_exhausted_by_one == Cardinality(DOMAIN used) <= maxconn
not_exhausted == Cardinality(DOMAIN used) # maxconn

rest_with_last == pool
rest == Front(pool)

\* The one it has by its key, else the one put away last, else a new one.
getconn(t) ==
    /\ ~closed
    /\ \E given \in {NoKey, t} :
          LET key == IF given = NoKey THEN keys + 1 ELSE given IN
          /\ given = NoKey => keys < MaxKeys
          /\ keys' = IF given = NoKey THEN keys + 1 ELSE keys
          /\ IF key \in DOMAIN used
             THEN /\ held' = [held EXCEPT ![t] = @ \cup {<<used[key], given>>}]
                  /\ UNCHANGED <<pool, used, rused, conn>>
             ELSE IF pool # <<>>
             THEN /\ Assign(key, Last(pool)) /\ pool' = rest
                  /\ held' = [held EXCEPT ![t] = @ \cup {<<Last(pool), given>>}]
                  /\ UNCHANGED conn
             ELSE /\ not_exhausted /\ Made # Connections
                  /\ LET i == CHOOSE j \in Connections : j \notin Made IN
                     /\ conn' = [conn EXCEPT ![i] = _connect] /\ Assign(key, i)
                     /\ held' = [held EXCEPT ![t] = @ \cup {<<i, given>>}]
                  /\ UNCHANGED pool
    /\ UNCHANGED closed

\* What a connection is left as: closed where the server is known to be lost, rolled back in a transaction.
as_it_is(status) == status
put_away(status) == IF status = "unknown" THEN "closed" ELSE IF status = "closed" THEN "closed" ELSE "idle"

\* A rollback that fails is raised, with the connection still in use.
putconn(t) ==
    /\ ~closed
    /\ \E x \in held[t], close \in BOOLEAN :
          LET i == x[1]
              key == IF x[2] = NoKey THEN rused[i] ELSE x[2]
              keep == Len(pool) < minconn /\ ~close
              status == IF keep THEN put_away(conn[i].status) ELSE "closed"
          IN
              /\ x[2] = NoKey => i \in DOMAIN rused
              /\ IF keep /\ conn[i].status \in {"intrans", "inerror"} /\ ~conn[i].there
                 THEN conn' = [conn EXCEPT ![i].status = "closed"] /\ UNCHANGED <<pool, used, rused, held>>
                 ELSE /\ conn' = [conn EXCEPT ![i].status = status]
                      /\ pool' = IF status = "closed" THEN pool ELSE Append(pool, i)
                      /\ used' = without(used, key) /\ rused' = without(rused, i)
                      /\ held' = [held EXCEPT ![t] = @ \ {x}]
    /\ UNCHANGED <<keys, closed>>

to_close_of_pool == ToSet(pool)
to_close == ToSet(pool) \cup UsedNow

closeall ==
    /\ ~closed /\ closed' = TRUE
    /\ conn' = [i \in Connections |-> IF i \in to_close THEN [conn[i] EXCEPT !.status = "closed"] ELSE conn[i]]
    /\ UNCHANGED <<pool, used, rused, keys, held>>

-----------------------------------------------------------------------------
(* The application and the server. *)

\* A statement begins a transaction, fails in it, ends it, or finds the server gone.
execute(t) ==
    /\ \E x \in held[t] :
          /\ conn[x[1]].status \notin {"closed", "unknown"}
          /\ \E s \in IF conn[x[1]].there THEN {"intrans", "inerror", "idle"} ELSE {"unknown", "closed"} :
                conn' = [conn EXCEPT ![x[1]].status = s]
    /\ UNCHANGED <<pool, used, rused, keys, closed, held>>
ServerGoes ==
    /\ \E i \in Made : conn[i].there /\ conn' = [conn EXCEPT ![i].there = FALSE]
    /\ UNCHANGED <<pool, used, rused, keys, closed, held>>

Init ==
    /\ conn = [i \in Connections |-> IF i <= minconn THEN _connect ELSE [status |-> "new", there |-> FALSE]]
    /\ pool = [i \in 1 .. minconn |-> i]
    /\ used = <<>> /\ rused = <<>> /\ keys = 0 /\ closed = FALSE /\ held = [t \in Threads |-> {}]

Next == closeall \/ ServerGoes \/ \E t \in Threads : getconn(t) \/ putconn(t) \/ execute(t)
Spec == Init /\ [][Next]_vars

-----------------------------------------------------------------------------
(* Properties. *)

\* The two maps are inverse to one another, and what is in use is not in the pool.
PoolTypeOK ==
    /\ DOMAIN rused = UsedNow /\ \A k \in DOMAIN used : rused[used[k]] = k
    /\ ToSet(pool) \cap UsedNow = {} /\ Len(pool) <= minconn

\* There are never more connections open than maxconn, those put away included.
WithinMaxconn == Cardinality({i \in Made : conn[i].status # "closed"}) <= maxconn

\* No connection is two threads', nor one's that the pool may give away.
NotShared ==
    \A t \in Threads : \A x \in held[t] :
        /\ x[1] \notin ToSet(pool)
        /\ \A s \in Threads \ {t} : \A y \in held[s] : y[1] # x[1]

\* A connection is put away outside any transaction: nobody begins within another one's.
PutAwayIdle == \A i \in ToSet(pool) : closed \/ conn[i].status = "idle"

\* None is lost: whatever is not put away is in use by a thread that has it, and closeall closes all.
NoneLost ==
    /\ \A i \in UsedNow : \E t \in Threads : \E x \in held[t] : x[1] = i
    /\ \A i \in Made : conn[i].status # "closed" => ~closed /\ i \in ToSet(pool) \cup UsedNow
=============================================================================
