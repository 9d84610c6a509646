---------------------------- MODULE Layers_proofs -----------------------------
(* Proofs about the parts of Layers, for any values of their constants. The pool:
   what a thread has been given by it is its own, none is lost, and what is put
   away is idle. The admin client: no command is handled twice, and a call that
   returns has done what it says.                                            *)
EXTENDS Layers, SequencesExt, FiniteSetTheorems, FunctionTheorems, SequenceTheorems, TLAPS

ConnTypeOK ==
    conn \in [Connections -> [status : {"new", "idle", "intrans", "inerror", "unknown", "closed"}, there : BOOLEAN]]

PoolOK ==
    /\ pool \in Seq(Connections) /\ Pool!ToSet(pool) \subseteq Pool!Made
    /\ \A j, k \in 1 .. Len(pool) : pool[j] = pool[k] => j = k
    /\ \A i \in Pool!ToSet(pool) : i \notin DOMAIN rused

\* The two maps are inverse to one another; keys are threads or were counted.
MapsOK ==
    /\ keys \in Nat
    /\ \A k \in DOMAIN used : used[k] \in DOMAIN rused /\ rused[used[k]] = k
    /\ \A i \in DOMAIN rused : /\ i \in Pool!Made /\ rused[i] \in DOMAIN used /\ used[rused[i]] = i
                              /\ rused[i] \in Threads \cup 1 .. keys

\* What a thread has is in use, under its own key or one the pool made.
HeldOK ==
    /\ held \in [Threads -> SUBSET (Connections \X (Threads \cup {Pool!NoKey}))]
    /\ \A t \in Threads : \A e \in held[t] :
          /\ e[1] \in DOMAIN rused
          /\ IF e[2] = Pool!NoKey THEN rused[e[1]] \in Nat ELSE e[2] = t /\ rused[e[1]] = t

\* Of one connection there is one holder, and it holds it once.
OneHolder ==
    \A t, s \in Threads : \A e \in held[t], y \in held[s] : e[1] = y[1] => t = s /\ e = y

IInv == ConnTypeOK /\ closed \in BOOLEAN /\ PoolOK /\ MapsOK /\ HeldOK /\ OneHolder /\ Pool!PutAwayIdle

-----------------------------------------------------------------------------

LEMMA InPool == ASSUME NEW S, NEW s \in Seq(S) PROVE Pool!ToSet(s) = {s[k] : k \in 1 .. Len(s)} /\ Pool!ToSet(s) \subseteq S
BY DEF Pool!ToSet

\* The one put away last, and those that stay.
LEMMA LastAndRest ==
    ASSUME PoolOK, pool # <<>>
    PROVE  /\ Pool!rest \in Seq(Connections) /\ Pool!Last(pool) \in Pool!ToSet(pool)
           /\ Pool!ToSet(Pool!rest) \subseteq Pool!ToSet(pool) \ {Pool!Last(pool)} /\ Pool!ToSet(pool) \subseteq Pool!ToSet(Pool!rest) \cup {Pool!Last(pool)}
           /\ Pool!Last(pool) \in Connections /\ Len(Pool!rest) = Len(pool) - 1 /\ Len(pool) \in Nat
           /\ \A j, k \in 1 .. Len(Pool!rest) : Pool!rest[j] = Pool!rest[k] => j = k
<1> DEFINE n == Len(pool)
<1>1. n \in Nat \ {0} /\ DOMAIN pool = 1 .. n
  BY DEF PoolOK
<1>2. /\ Len(Pool!rest) = n - 1 /\ Pool!rest \in Seq(Connections)
      /\ \A k \in 1 .. n - 1 : Pool!rest[k] = pool[k]
  BY <1>1 DEF PoolOK, Pool!rest, Pool!Front
<1>3. Pool!ToSet(Pool!rest) = {Pool!rest[k] : k \in 1 .. n - 1}
  BY <1>1, <1>2, InPool
<1>4. Pool!ToSet(pool) = {pool[k] : k \in 1 .. n}
  BY <1>1, InPool DEF PoolOK
<1>5. Pool!Last(pool) = pool[n]
  BY DEF Pool!Last
<1>6. Pool!ToSet(Pool!rest) \subseteq Pool!ToSet(pool) \ {Pool!Last(pool)}
  BY <1>1, <1>2, <1>3, <1>4, <1>5 DEF PoolOK
<1>7. Pool!ToSet(pool) \subseteq Pool!ToSet(Pool!rest) \cup {Pool!Last(pool)} /\ Pool!Last(pool) \in Connections
  BY <1>1, <1>2, <1>3, <1>4, <1>5 DEF PoolOK
<1>8. QED
  BY <1>1, <1>2, <1>4, <1>5, <1>6, <1>7 DEF PoolOK

\* One more put away.
LEMMA OneMore ==
    ASSUME pool \in Seq(Connections), NEW i \in Connections, i \notin Pool!ToSet(pool),
           \A j, k \in 1 .. Len(pool) : pool[j] = pool[k] => j = k
    PROVE  /\ Append(pool, i) \in Seq(Connections) /\ Pool!ToSet(Append(pool, i)) = Pool!ToSet(pool) \cup {i}
           /\ \A j, k \in 1 .. Len(Append(pool, i)) : Append(pool, i)[j] = Append(pool, i)[k] => j = k
<1> DEFINE n == Len(pool)
           more == Append(pool, i)
<1>1. n \in Nat
  OBVIOUS
<1>2. /\ more \in Seq(Connections) /\ Len(more) = n + 1 /\ more[n + 1] = i
      /\ \A k \in 1 .. n : more[k] = pool[k]
  BY <1>1
<1>3. Pool!ToSet(pool) = {pool[k] : k \in 1 .. n}
  BY InPool
<1> HIDE DEF more
<1>4. Pool!ToSet(more) = {more[k] : k \in 1 .. n + 1}
  BY <1>2, InPool
<1>5. Pool!ToSet(more) = Pool!ToSet(pool) \cup {i}
  BY <1>1, <1>2, <1>3, <1>4
<1>6. \A j, k \in 1 .. n + 1 : more[j] = more[k] => j = k
  BY <1>1, <1>2, <1>3
<1>7. QED
  BY <1>2, <1>5, <1>6 DEF more

-----------------------------------------------------------------------------

LEMMA DomainsAlike == ASSUME NEW m \in Nat, NEW n \in Nat, 1 .. m = 1 .. n PROVE m = n
<1>1. CASE m < n
  <2>1. n \in 1 .. n /\ n \notin 1 .. m
    BY <1>1
  <2>2. QED
    BY <2>1
<1>2. CASE n < m
  <2>1. m \in 1 .. m /\ m \notin 1 .. n
    BY <1>2
  <2>2. QED
    BY <2>1
<1>3. QED
  BY <1>1, <1>2

(* The operations. *)

\* A connection out of the pool, or a new one, under a key that is not in use.
LEMMA Given ==
    ASSUME Pool!PoolAssumption, IInv, NEW t \in Threads, NEW given \in {Pool!NoKey, t}, NEW i \in Connections, NEW key,
           given = Pool!NoKey => key = keys + 1 /\ keys' = keys + 1,
           given = t => key = t /\ keys' = keys,
           key \notin DOMAIN used, i \notin DOMAIN rused, Pool!Assign(key, i), held' = [held EXCEPT ![t] = @ \cup {<<i, given>>}],
           Pool!Made \subseteq Pool!Made', i \in Pool!Made'
    PROVE  MapsOK' /\ HeldOK' /\ OneHolder' /\ DOMAIN rused' = DOMAIN rused \cup {i}
<1> USE DEF IInv
<1>1. /\ keys \in Nat /\ keys' \in Nat /\ keys <= keys' /\ key \in Threads \cup 1 .. keys'
      /\ given = Pool!NoKey => key \in Nat
      /\ given # Pool!NoKey => given = t /\ key = t
      /\ Pool!NoKey \notin Threads
  BY DEF MapsOK, Pool!PoolAssumption, Pool!NoKey
<1>2. /\ DOMAIN used' = DOMAIN used \cup {key} /\ used'[key] = i
      /\ \A k \in DOMAIN used : used'[k] = used[k]
  BY DEF Pool!Assign, Pool!with
<1>3. /\ DOMAIN rused' = DOMAIN rused \cup {i} /\ rused'[i] = key
      /\ \A j \in DOMAIN rused : rused'[j] = rused[j]
  BY DEF Pool!Assign, Pool!with
<1>4. MapsOK'
  <2>1. \A k \in DOMAIN used' : used'[k] \in DOMAIN rused' /\ rused'[used'[k]] = k
    BY <1>2, <1>3 DEF MapsOK
  <2>2. \A j \in DOMAIN rused' : j \in Pool!Made' /\ rused'[j] \in DOMAIN used' /\ used'[rused'[j]] = j
    BY <1>2, <1>3 DEF MapsOK
  <2>3. \A j \in DOMAIN rused' : rused'[j] \in Threads \cup 1 .. keys'
    BY <1>1, <1>3 DEF MapsOK
  <2>4. QED
    BY <1>1, <2>1, <2>2, <2>3 DEF MapsOK
<1>5. /\ held'[t] = held[t] \cup {<<i, given>>}
      /\ \A s \in Threads \ {t} : held'[s] = held[s]
      /\ held' \in [Threads -> SUBSET (Connections \X (Threads \cup {Pool!NoKey}))]
  BY DEF HeldOK
<1>6. HeldOK'
  <2>1. \A s \in Threads : \A e \in held[s] :
          /\ e[1] \in DOMAIN rused'
          /\ IF e[2] = Pool!NoKey THEN rused'[e[1]] \in Nat ELSE e[2] = s /\ rused'[e[1]] = s
    BY <1>3 DEF HeldOK
  <2>2. i \in DOMAIN rused' /\ IF given = Pool!NoKey THEN rused'[i] \in Nat ELSE given = t /\ rused'[i] = t
    BY <1>1, <1>3
  <2>3. QED
    BY <1>5, <2>1, <2>2 DEF HeldOK
<1>7. OneHolder'
  <2>1. \A s \in Threads : \A e \in held[s] : e[1] # i
    BY DEF HeldOK
  <2>2. QED
    BY <1>5, <2>1 DEF OneHolder
<1>8. QED
  BY <1>3, <1>4, <1>6, <1>7

LEMMA GetPreserves == ASSUME Pool!PoolAssumption, IInv, NEW t \in Threads, Pool!getconn(t) PROVE IInv'
<1> USE DEF IInv
<1> PICK given \in {Pool!NoKey, t} :
       LET key == IF given = Pool!NoKey THEN keys + 1 ELSE given IN
          /\ keys' = IF given = Pool!NoKey THEN keys + 1 ELSE keys
          /\ IF key \in DOMAIN used
             THEN /\ held' = [held EXCEPT ![t] = @ \cup {<<used[key], given>>}]
                  /\ UNCHANGED <<pool, used, rused, conn>>
             ELSE IF pool # <<>>
             THEN /\ Pool!Assign(key, Pool!Last(pool)) /\ pool' = Pool!rest
                  /\ held' = [held EXCEPT ![t] = @ \cup {<<Pool!Last(pool), given>>}]
                  /\ UNCHANGED conn
             ELSE /\ Pool!Made # Connections
                  /\ LET i == CHOOSE j \in Connections : j \notin Pool!Made IN
                     /\ conn' = [conn EXCEPT ![i] = Pool!_connect] /\ Pool!Assign(key, i)
                     /\ held' = [held EXCEPT ![t] = @ \cup {<<i, given>>}]
                  /\ UNCHANGED pool
  BY DEF Pool!getconn
<1> DEFINE key == IF given = Pool!NoKey THEN keys + 1 ELSE given
<1>0. UNCHANGED closed /\ ~closed
  BY DEF Pool!getconn
<1>1. /\ given = Pool!NoKey => key = keys + 1 /\ keys' = keys + 1
      /\ given = t => key = t /\ keys' = keys
      /\ given # Pool!NoKey => given = t
      /\ Pool!NoKey \notin Threads
  BY DEF Pool!PoolAssumption, Pool!NoKey
<1>2. CASE key \in DOMAIN used
  <2>1. held' = [held EXCEPT ![t] = @ \cup {<<used[key], given>>}] /\ UNCHANGED <<pool, used, rused, conn>>
    BY <1>2
  <2>2. given = t
    <3>1. keys + 1 \notin DOMAIN used
      BY DEF MapsOK, Pool!PoolAssumption
    <3>2. QED
      BY <1>1, <1>2, <3>1
  <2>3. key = t /\ keys' = keys
    BY <1>1, <2>2
  <2> HIDE DEF key
  <2>4. used[t] \in DOMAIN rused /\ rused[used[t]] = t /\ used[t] \in Connections
    BY <1>2, <2>3 DEF MapsOK, Pool!Made
  <2>5. /\ held'[t] = held[t] \cup {<<used[t], t>>}
        /\ \A s \in Threads \ {t} : held'[s] = held[s]
        /\ held' \in [Threads -> SUBSET (Connections \X (Threads \cup {Pool!NoKey}))]
    BY <2>1, <2>2, <2>3, <2>4 DEF HeldOK
  <2>6. HeldOK'
    BY <1>1, <2>1, <2>4, <2>5 DEF HeldOK
  <2>7. \A s \in Threads : \A e \in held[s] : e[1] = used[t] => s = t /\ e = <<used[t], t>>
    <3> TAKE s \in Threads
    <3> TAKE e \in held[s]
    <3> HAVE e[1] = used[t]
    <3>1. e = <<e[1], e[2]>>
      BY DEF HeldOK
    <3>2. t \notin Nat
      BY DEF Pool!PoolAssumption
    <3>3. e[2] # Pool!NoKey /\ e[2] = s /\ s = t
      BY <2>4, <3>2 DEF HeldOK
    <3>4. QED
      BY <3>1, <3>3
  <2>8. OneHolder'
    BY <2>5, <2>7 DEF OneHolder
  <2>9. ConnTypeOK' /\ PoolOK' /\ MapsOK' /\ Pool!PutAwayIdle'
    BY <1>0, <2>1, <2>3 DEF ConnTypeOK, PoolOK, MapsOK, Pool!PutAwayIdle, Pool!Made
  <2>10. QED
    BY <1>0, <2>6, <2>8, <2>9
<1>3. CASE key \notin DOMAIN used /\ pool # <<>>
  <2>1. Pool!Assign(key, Pool!Last(pool)) /\ pool' = Pool!rest /\ UNCHANGED conn /\ held' = [held EXCEPT ![t] = @ \cup {<<Pool!Last(pool), given>>}]
    BY <1>3
  <2> HIDE DEF key
  <2>2. /\ Pool!rest \in Seq(Connections) /\ Pool!Last(pool) \in Pool!ToSet(pool) /\ Pool!ToSet(Pool!rest) \subseteq Pool!ToSet(pool) \ {Pool!Last(pool)}
        /\ \A j, k \in 1 .. Len(Pool!rest) : Pool!rest[j] = Pool!rest[k] => j = k
    BY <1>3, LastAndRest
  <2>3. Pool!Last(pool) \in Pool!Made /\ Pool!Last(pool) \notin DOMAIN rused /\ Pool!Last(pool) \in Connections /\ Pool!Made' = Pool!Made
    BY <2>1, <2>2 DEF PoolOK, Pool!Made
  <2>4. MapsOK' /\ HeldOK' /\ OneHolder' /\ DOMAIN rused' = DOMAIN rused \cup {Pool!Last(pool)}
    BY <1>1, <1>3, <2>1, <2>3, Given
  <2>5. Pool!ToSet(pool)' = Pool!ToSet(Pool!rest)
    BY <2>1
  <2>6. PoolOK'
    BY <2>1, <2>2, <2>3, <2>4, <2>5 DEF PoolOK
  <2>7. Pool!PutAwayIdle'
    BY <1>0, <2>1, <2>2, <2>5 DEF Pool!PutAwayIdle
  <2>8. QED
    BY <1>0, <2>1, <2>4, <2>6, <2>7 DEF ConnTypeOK
<1>4. CASE key \notin DOMAIN used /\ pool = <<>>
  <2> DEFINE i == CHOOSE j \in Connections : j \notin Pool!Made
  <2>1. /\ Pool!Made # Connections /\ conn' = [conn EXCEPT ![i] = Pool!_connect] /\ Pool!Assign(key, i) /\ UNCHANGED pool
        /\ held' = [held EXCEPT ![t] = @ \cup {<<i, given>>}]
    BY <1>4
  <2>2. i \in Connections /\ i \notin Pool!Made
    BY <2>1 DEF Pool!Made
  <2> HIDE DEF i, key
  <2>3. /\ conn' \in [Connections -> [status : {"new", "idle", "intrans", "inerror", "unknown", "closed"}, there : BOOLEAN]]
        /\ conn'[i].status # "new" /\ \A j \in Connections \ {i} : conn'[j] = conn[j]
    BY <2>1, <2>2 DEF ConnTypeOK, Pool!_connect
  <2>4. Pool!Made' = Pool!Made \cup {i}
    BY <2>2, <2>3 DEF Pool!Made
  <2>5. i \notin DOMAIN rused
    BY <2>2 DEF MapsOK
  <2>6. MapsOK' /\ HeldOK' /\ OneHolder' /\ DOMAIN rused' = DOMAIN rused \cup {i}
    BY <1>1, <1>4, <2>1, <2>2, <2>4, <2>5, Given
  <2>7. Pool!ToSet(pool) = {} /\ Pool!ToSet(pool)' = {}
    BY <1>4, <2>1 DEF Pool!ToSet
  <2>8. PoolOK' /\ Pool!PutAwayIdle'
    BY <2>1, <2>7 DEF PoolOK, Pool!PutAwayIdle
  <2>9. QED
    BY <1>0, <2>3, <2>6, <2>8 DEF ConnTypeOK
<1>5. QED
  BY <1>2, <1>3, <1>4

-----------------------------------------------------------------------------

LEMMA Initially == ASSUME Pool!PoolAssumption, Pool!Init PROVE IInv
<1>1. ConnTypeOK
  BY DEF Pool!PoolAssumption, Pool!Init, ConnTypeOK, Pool!_connect
<1>2. /\ pool \in Seq(Connections) /\ Len(pool) = minconn
      /\ \A k \in 1 .. minconn : pool[k] = k
  <2>1. pool \in [1 .. minconn -> Connections]
    BY DEF Pool!PoolAssumption, Pool!Init
  <2>2. minconn \in Nat
    BY DEF Pool!PoolAssumption
  <2>3. pool \in Seq(Connections)
    BY <2>1, <2>2, SeqDef
  <2>4. DOMAIN pool = 1 .. Len(pool) /\ Len(pool) \in Nat
    BY <2>3
  <2>5. DOMAIN pool = 1 .. minconn
    BY <2>1
  <2>6. Len(pool) = minconn
    BY <2>2, <2>4, <2>5, DomainsAlike
  <2>7. \A k \in 1 .. minconn : pool[k] = k
    BY DEF Pool!Init
  <2>8. QED
    BY <2>3, <2>6, <2>7
<1>3. Pool!ToSet(pool) = 1 .. minconn
  <2>1. Pool!ToSet(pool) = {pool[k] : k \in 1 .. minconn}
    BY <1>2, InPool
  <2>2. QED
    BY <1>2, <2>1
<1>4. \A i \in 1 .. minconn : i \in Connections /\ conn[i] = Pool!_connect
  BY DEF Pool!PoolAssumption, Pool!Init
<1>5. PoolOK
  BY <1>2, <1>3, <1>4 DEF PoolOK, Pool!Made, Pool!Init, Pool!_connect, Pool!PoolAssumption
<1>6. MapsOK /\ HeldOK /\ OneHolder
  BY DEF Pool!Init, MapsOK, HeldOK, OneHolder
<1>7. Pool!PutAwayIdle
  BY <1>3, <1>4 DEF Pool!PutAwayIdle, Pool!_connect
<1>8. QED
  BY <1>1, <1>5, <1>6, <1>7 DEF IInv, Pool!Init

\* A connection's state changes that is not free: the rest of the invariant is not about it.
LEMMA StateChanges ==
    ASSUME Pool!PoolAssumption, IInv, NEW i \in Pool!Made, i \notin Pool!ToSet(pool) \/ closed',
           NEW r \in [status : {"idle", "intrans", "inerror", "unknown", "closed"}, there : BOOLEAN],
           conn' = [conn EXCEPT ![i] = r], closed' \in BOOLEAN, closed => closed', UNCHANGED <<pool, used, rused, keys, held>>
    PROVE  IInv'
<1> USE DEF IInv
<1>1. /\ ConnTypeOK' /\ Pool!Made' = Pool!Made /\ \A j \in Connections \ {i} : conn'[j] = conn[j]
  BY DEF ConnTypeOK, Pool!Made
<1>2. PoolOK' /\ MapsOK' /\ HeldOK' /\ OneHolder'
  BY <1>1 DEF PoolOK, MapsOK, HeldOK, OneHolder
<1>3. Pool!PutAwayIdle'
  <2>1. Pool!ToSet(pool)' = Pool!ToSet(pool) /\ Pool!ToSet(pool) \subseteq Connections
    BY DEF PoolOK, Pool!Made
  <2>2. QED
    BY <1>1, <2>1 DEF Pool!PutAwayIdle
<1>4. QED
  BY <1>1, <1>2, <1>3

LEMMA PutPreserves == ASSUME Pool!PoolAssumption, IInv, NEW t \in Threads, Pool!putconn(t) PROVE IInv'
<1> USE DEF IInv
<1> PICK e \in held[t], close \in BOOLEAN :
       LET i == e[1]
           key == IF e[2] = Pool!NoKey THEN rused[i] ELSE e[2]
           keep == Len(pool) < minconn /\ ~close
           status == IF keep THEN Pool!put_away(conn[i].status) ELSE "closed"
       IN  IF keep /\ conn[i].status \in {"intrans", "inerror"} /\ ~conn[i].there
           THEN conn' = [conn EXCEPT ![i].status = "closed"] /\ UNCHANGED <<pool, used, rused, held>>
           ELSE /\ conn' = [conn EXCEPT ![i].status = status]
                /\ pool' = IF status = "closed" THEN pool ELSE Append(pool, i)
                /\ used' = Pool!without(used, key) /\ rused' = Pool!without(rused, i)
                /\ held' = [held EXCEPT ![t] = @ \ {e}]
  BY DEF Pool!putconn
<1> DEFINE i == e[1]
           key == IF e[2] = Pool!NoKey THEN rused[i] ELSE e[2]
           status == IF Len(pool) < minconn /\ ~close THEN Pool!put_away(conn[i].status) ELSE "closed"
<1>0. UNCHANGED <<keys, closed>> /\ ~closed
  BY DEF Pool!putconn
<1>1. /\ i \in DOMAIN rused /\ i \in Pool!Made /\ i \in Connections /\ i \notin Pool!ToSet(pool)
      /\ key = rused[i] /\ key \in DOMAIN used /\ used[key] = i
  BY DEF HeldOK, MapsOK, PoolOK, Pool!Made
<1>2. CASE conn' = [conn EXCEPT ![i].status = "closed"] /\ UNCHANGED <<pool, used, rused, held>>
  <2> HIDE DEF i
  <2>1. conn[i] \in [status : {"idle", "intrans", "inerror", "unknown", "closed"}, there : BOOLEAN]
    BY <1>1 DEF ConnTypeOK, Pool!Made
  <2> DEFINE r == [conn[i] EXCEPT !.status = "closed"]
  <2>2. r \in [status : {"idle", "intrans", "inerror", "unknown", "closed"}, there : BOOLEAN] /\ conn' = [conn EXCEPT ![i] = r]
    BY <1>2, <2>1
  <2> HIDE DEF r
  <2>3. QED
    BY <1>0, <1>1, <1>2, <2>2, StateChanges
<1>3. CASE /\ conn' = [conn EXCEPT ![i].status = status]
           /\ pool' = IF status = "closed" THEN pool ELSE Append(pool, i)
           /\ used' = Pool!without(used, key) /\ rused' = Pool!without(rused, i)
           /\ held' = [held EXCEPT ![t] = @ \ {e}]
  <2>1. status \in {"idle", "closed"}
    BY DEF Pool!put_away
  <2> HIDE DEF i, key, status
  <2>2. /\ DOMAIN used' = DOMAIN used \ {key} /\ \A k \in DOMAIN used' : used'[k] = used[k]
        /\ DOMAIN rused' = DOMAIN rused \ {i} /\ \A j \in DOMAIN rused' : rused'[j] = rused[j]
    BY <1>3 DEF Pool!without
  <2>3. ConnTypeOK' /\ Pool!Made' = Pool!Made /\ conn'[i].status = status /\ \A j \in Connections \ {i} : conn'[j] = conn[j]
    BY <1>1, <1>3, <2>1 DEF ConnTypeOK, Pool!Made
  <2>4. MapsOK'
    <3>1. \A k \in DOMAIN used' : used'[k] \in DOMAIN rused' /\ rused'[used'[k]] = k
      BY <1>1, <2>2 DEF MapsOK
    <3>2. \A j \in DOMAIN rused' : j \in Pool!Made' /\ rused'[j] \in DOMAIN used' /\ used'[rused'[j]] = j
      BY <1>1, <2>2, <2>3 DEF MapsOK
    <3>3. QED
      BY <1>0, <2>2, <3>1, <3>2 DEF MapsOK
  <2>5. /\ held'[t] = held[t] \ {e} /\ \A s \in Threads \ {t} : held'[s] = held[s]
        /\ held' \in [Threads -> SUBSET (Connections \X (Threads \cup {Pool!NoKey}))]
    BY <1>3 DEF HeldOK
  <2>6. \A s \in Threads : \A y \in held'[s] : y \in held[s] /\ y[1] # i
    BY <2>5 DEF OneHolder, i
  <2>7. HeldOK' /\ OneHolder'
    BY <2>2, <2>5, <2>6 DEF HeldOK, OneHolder
  <2>8. PoolOK' /\ Pool!PutAwayIdle'
    <3>1. CASE status = "closed"
      <4>1. pool' = pool /\ Pool!ToSet(pool)' = Pool!ToSet(pool) /\ Pool!ToSet(pool) \subseteq Connections
        BY <1>3, <3>1 DEF PoolOK, Pool!Made
      <4>2. QED
        BY <1>0, <1>1, <2>2, <2>3, <4>1 DEF PoolOK, Pool!PutAwayIdle
    <3>2. CASE status = "idle"
      <4>1. pool' = Append(pool, i)
        BY <1>3, <3>2
      <4>2. /\ Append(pool, i) \in Seq(Connections) /\ Pool!ToSet(Append(pool, i)) = Pool!ToSet(pool) \cup {i}
            /\ \A j, k \in 1 .. Len(Append(pool, i)) : Append(pool, i)[j] = Append(pool, i)[k] => j = k
        BY <1>1, OneMore DEF PoolOK
      <4>3. Pool!ToSet(pool)' = Pool!ToSet(pool) \cup {i} /\ Pool!ToSet(pool) \subseteq Connections
        BY <4>1, <4>2 DEF PoolOK, Pool!Made
      <4>4. QED
        BY <1>0, <1>1, <2>2, <2>3, <3>2, <4>1, <4>2, <4>3 DEF PoolOK, Pool!PutAwayIdle
    <3>3. QED
      BY <2>1, <3>1, <3>2
  <2>9. QED
    BY <1>0, <2>3, <2>4, <2>7, <2>8
<1>4. QED
  BY <1>2, <1>3

LEMMA ExecutePreserves == ASSUME Pool!PoolAssumption, IInv, NEW t \in Threads, Pool!execute(t) PROVE IInv'
<1> USE DEF IInv
<1> PICK e \in held[t], s \in {"intrans", "inerror", "idle", "unknown", "closed"} : conn' = [conn EXCEPT ![e[1]].status = s]
  BY DEF Pool!execute
<1> DEFINE i == e[1]
<1>1. i \in Pool!Made /\ i \notin Pool!ToSet(pool) /\ i \in Connections
  BY DEF HeldOK, MapsOK, PoolOK, Pool!Made
<1>2. UNCHANGED <<pool, used, rused, keys, closed, held>>
  BY DEF Pool!execute
<1>3. conn' = [conn EXCEPT ![i].status = s]
  OBVIOUS
<1> HIDE DEF i
<1> DEFINE r == [conn[i] EXCEPT !.status = s]
<1>4. conn[i] \in [status : {"idle", "intrans", "inerror", "unknown", "closed"}, there : BOOLEAN]
  BY <1>1 DEF ConnTypeOK, Pool!Made
<1>5. r \in [status : {"idle", "intrans", "inerror", "unknown", "closed"}, there : BOOLEAN] /\ conn' = [conn EXCEPT ![i] = r]
  BY <1>3, <1>4
<1> HIDE DEF r
<1>6. QED
  BY <1>1, <1>2, <1>5, StateChanges

\* Only whether the server still has it changes, or everything is closed.
LEMMA OtherStepsPreserve == ASSUME Pool!PoolAssumption, IInv, Pool!ServerGoes \/ Pool!closeall PROVE IInv'
<1> USE DEF IInv
<1>1. UNCHANGED <<pool, used, rused, keys, held>> /\ closed' \in BOOLEAN
  BY DEF Pool!ServerGoes, Pool!closeall
<1>2. ConnTypeOK' /\ Pool!Made' = Pool!Made /\ (closed' \/ (closed' = closed /\ \A i \in Connections : conn'[i].status = conn[i].status))
  <2>1. CASE Pool!ServerGoes
    BY ZenonT(60), <2>1 DEF Pool!ServerGoes, ConnTypeOK, Pool!Made
  <2>2. CASE Pool!closeall
    <3>1. Pool!to_close \subseteq Pool!Made
      BY DEF Pool!to_close, Pool!UsedNow, PoolOK, MapsOK
    <3>2. /\ closed'
          /\ conn' = [i \in Connections |-> IF i \in Pool!to_close THEN [conn[i] EXCEPT !.status = "closed"] ELSE conn[i]]
      BY <2>2 DEF Pool!closeall
    <3>3. ConnTypeOK'
      BY <3>2 DEF ConnTypeOK
    <3>4. Pool!Made' = Pool!Made
      BY <3>1, <3>2 DEF ConnTypeOK, Pool!Made
    <3>5. QED
      BY <3>2, <3>3, <3>4
  <2>3. QED
    BY <2>1, <2>2
<1>3. PoolOK' /\ MapsOK' /\ HeldOK' /\ OneHolder'
  BY <1>1, <1>2 DEF PoolOK, MapsOK, HeldOK, OneHolder
<1>4. Pool!PutAwayIdle'
  <2>1. Pool!ToSet(pool)' = Pool!ToSet(pool) /\ Pool!ToSet(pool) \subseteq Connections
    BY <1>1 DEF PoolOK, Pool!Made
  <2>2. QED
    BY <1>2, <2>1 DEF Pool!PutAwayIdle
<1>5. QED
  BY <1>1, <1>2, <1>3, <1>4

LEMMA StepPreserves == ASSUME Pool!PoolAssumption, IInv, [Pool!Next]_(Pool!vars) PROVE IInv'
<1>1. CASE UNCHANGED Pool!vars
  BY <1>1 DEF Pool!vars, IInv, ConnTypeOK, PoolOK, MapsOK, HeldOK, OneHolder, Pool!PutAwayIdle, Pool!Made
<1>2. CASE Pool!ServerGoes \/ Pool!closeall
  BY <1>2, OtherStepsPreserve
<1>3. ASSUME NEW t \in Threads, Pool!getconn(t) \/ Pool!putconn(t) \/ Pool!execute(t) PROVE IInv'
  BY <1>3, GetPreserves, PutPreserves, ExecutePreserves
<1>4. QED
  BY <1>1, <1>2, <1>3 DEF Pool!Next

-----------------------------------------------------------------------------

(* The numbers of connections. *)

\* __init__ makes minconn connections, however many maxconn allows.
SizesFit == maxconn \in Nat /\ minconn <= maxconn

InUse == DOMAIN rused
There == Pool!ToSet(pool) \cup InUse

\* What is open is in the pool or in use by a thread, and that is no more than maxconn.
CountInv ==
    /\ Len(pool) <= minconn
    /\ IsFiniteSet(There) /\ Cardinality(There) <= maxconn
    /\ \A i \in InUse : \E t \in Threads : \E y \in held[t] : y[1] = i
    /\ \A i \in Pool!Made : conn[i].status # "closed" => ~closed /\ i \in There

LEMMA SameCardinality == \A S : Pool!Cardinality(S) = Cardinality(S)
BY DEF Pool!Cardinality, Cardinality

\* Keys and connections in use are one to one.
LEMMA AsManyKeys ==
    ASSUME MapsOK, IsFiniteSet(InUse)
    PROVE  Cardinality(DOMAIN used) = Cardinality(InUse)
<1> DEFINE f == [i \in InUse |-> rused[i]]
<1>1. f \in Bijection(InUse, DOMAIN used)
  <2>1. f \in [InUse -> DOMAIN used]
    BY DEF MapsOK, InUse
  <2>2. \A i, j \in InUse : f[i] = f[j] => i = j
    BY DEF MapsOK, InUse
  <2>3. \A k \in DOMAIN used : \E i \in InUse : f[i] = k
    BY DEF MapsOK, InUse
  <2> HIDE DEF f
  <2>4. QED
    BY <2>1, <2>2, <2>3, Fun_IsBij
<1>2. QED
  BY <1>1, FS_Bijection DEF ExistsBijection

LEMMA CountsInitially == ASSUME Pool!PoolAssumption, SizesFit, Pool!Init PROVE CountInv
<1>1. IInv
  BY Initially
<1>2. minconn \in Nat /\ \A i \in 1 .. minconn : i \in Connections
  BY DEF Pool!PoolAssumption
<1>3. pool \in Seq(Connections) /\ DOMAIN pool = 1 .. minconn /\ \A k \in 1 .. minconn : pool[k] = k
  BY <1>1 DEF Pool!Init, IInv, PoolOK
<1>4. Len(pool) = minconn
  BY <1>2, <1>3, DomainsAlike
<1>5. Pool!ToSet(pool) = 1 .. minconn
  <2>1. Pool!ToSet(pool) = {pool[k] : k \in 1 .. minconn}
    BY <1>3, <1>4, InPool
  <2>2. QED
    BY <1>3, <2>1
<1>6. InUse = {} /\ There = 1 .. minconn
  BY <1>5 DEF Pool!Init, InUse, There
<1>7. IsFiniteSet(There) /\ Cardinality(There) <= maxconn
  <2>1. IsFiniteSet(1 .. minconn) /\ Cardinality(1 .. minconn) = IF 1 > minconn THEN 0 ELSE minconn - 1 + 1
    BY <1>2, FS_Interval
  <2>2. QED
    BY <1>2, <1>6, <2>1 DEF SizesFit
<1>8. \A i \in Pool!Made : conn[i].status # "closed" => ~closed /\ i \in There
  BY <1>2, <1>6 DEF Pool!Init, Pool!Made, Pool!PoolAssumption
<1>9. QED
  BY <1>2, <1>4, <1>6, <1>7, <1>8 DEF CountInv, SizesFit

\* A connection that was there, or that is there instead of none, is in use.
LEMMA CountsGet == ASSUME Pool!PoolAssumption, SizesFit, IInv, IInv', CountInv, NEW t \in Threads, Pool!getconn(t) PROVE CountInv'
<1> PICK given \in {Pool!NoKey, t} :
       LET key == IF given = Pool!NoKey THEN keys + 1 ELSE given IN
             IF key \in DOMAIN used
             THEN /\ held' = [held EXCEPT ![t] = @ \cup {<<used[key], given>>}]
                  /\ UNCHANGED <<pool, used, rused, conn>>
             ELSE IF pool # <<>>
             THEN /\ Pool!Assign(key, Pool!Last(pool)) /\ pool' = Pool!rest
                  /\ held' = [held EXCEPT ![t] = @ \cup {<<Pool!Last(pool), given>>}]
                  /\ UNCHANGED conn
             ELSE /\ Pool!not_exhausted /\ Pool!Made # Connections
                  /\ LET i == CHOOSE j \in Connections : j \notin Pool!Made IN
                     /\ conn' = [conn EXCEPT ![i] = Pool!_connect] /\ Pool!Assign(key, i)
                     /\ held' = [held EXCEPT ![t] = @ \cup {<<i, given>>}]
                  /\ UNCHANGED pool
  BY DEF Pool!getconn
<1> DEFINE key == IF given = Pool!NoKey THEN keys + 1 ELSE given
<1>0. UNCHANGED closed /\ ~closed
  BY DEF Pool!getconn
<1>1. \A i \in InUse : \E s \in Threads : \E y \in held'[s] : y[1] = i
  <2>1. \A s \in Threads : held[s] \subseteq held'[s]
    BY DEF IInv, HeldOK
  <2>2. QED
    BY <2>1 DEF CountInv
<1>2. CASE key \in DOMAIN used
  <2>1. UNCHANGED <<pool, used, rused, conn>>
    BY <1>2
  <2>2. There' = There /\ InUse' = InUse /\ Pool!Made' = Pool!Made
    BY <2>1 DEF There, InUse, Pool!Made
  <2>3. QED
    BY <1>0, <1>1, <2>1, <2>2 DEF CountInv
<1>3. ASSUME NEW i \in Connections, Pool!Assign(key, i), held' = [held EXCEPT ![t] = @ \cup {<<i, given>>}]
      PROVE  InUse' = InUse \cup {i} /\ \A j \in InUse' : \E s \in Threads : \E y \in held'[s] : y[1] = j
  <2>1. InUse' = InUse \cup {i}
    BY <1>3 DEF Pool!Assign, Pool!with, InUse
  <2>2. <<i, given>> \in held'[t]
    BY <1>3 DEF IInv, HeldOK
  <2>3. QED
    BY <1>1, <2>1, <2>2
<1>4. CASE key \notin DOMAIN used /\ pool # <<>>
  <2>1. Pool!Assign(key, Pool!Last(pool)) /\ pool' = Pool!rest /\ UNCHANGED conn /\ held' = [held EXCEPT ![t] = @ \cup {<<Pool!Last(pool), given>>}]
    BY <1>4
  <2> HIDE DEF key
  <2>2. /\ Pool!Last(pool) \in Pool!ToSet(pool) /\ Pool!ToSet(Pool!rest) \subseteq Pool!ToSet(pool) \ {Pool!Last(pool)} /\ Pool!Last(pool) \in Connections
        /\ Len(Pool!rest) <= Len(pool) /\ Pool!ToSet(pool) \subseteq Pool!ToSet(Pool!rest) \cup {Pool!Last(pool)}
    BY <1>4, LastAndRest DEF IInv
  <2>3. InUse' = InUse \cup {Pool!Last(pool)} /\ \A j \in InUse' : \E s \in Threads : \E y \in held'[s] : y[1] = j
    BY <1>3, <2>1, <2>2
  <2>4. Pool!ToSet(pool)' = Pool!ToSet(Pool!rest) /\ Pool!Made' = Pool!Made
    BY <2>1 DEF Pool!Made
  <2>5. There' = There
    BY <2>2, <2>3, <2>4 DEF There
  <2>6. Len(pool') <= minconn
    <3>1. pool \in Seq(Connections) /\ Pool!rest \in Seq(Connections) /\ minconn \in Nat
      BY <1>4, LastAndRest DEF IInv, PoolOK, Pool!PoolAssumption
    <3>2. QED
      BY <2>1, <2>2, <3>1 DEF CountInv
  <2>7. QED
    BY <1>0, <2>1, <2>3, <2>4, <2>5, <2>6 DEF CountInv
<1>5. CASE key \notin DOMAIN used /\ pool = <<>>
  <2> DEFINE i == CHOOSE j \in Connections : j \notin Pool!Made
  <2>1. /\ Pool!not_exhausted /\ Pool!Made # Connections /\ conn' = [conn EXCEPT ![i] = Pool!_connect] /\ Pool!Assign(key, i) /\ UNCHANGED pool
        /\ held' = [held EXCEPT ![t] = @ \cup {<<i, given>>}]
    BY <1>5
  <2>2. i \in Connections /\ i \notin Pool!Made
    BY <2>1 DEF Pool!Made
  <2> HIDE DEF i, key
  <2>3. InUse' = InUse \cup {i} /\ \A j \in InUse' : \E s \in Threads : \E y \in held'[s] : y[1] = j
    BY <1>3, <2>1, <2>2
  <2>4. Pool!ToSet(pool) = {} /\ Pool!ToSet(pool)' = {}
    BY <1>5, <2>1 DEF Pool!ToSet
  <2>5. There = InUse /\ There' = InUse \cup {i}
    BY <2>3, <2>4 DEF There
  <2>6. IsFiniteSet(InUse) /\ Cardinality(InUse) <= maxconn
    BY <2>5 DEF CountInv
  <2>7. Cardinality(InUse) # maxconn
    BY <2>1, <2>6, AsManyKeys, SameCardinality DEF IInv, Pool!not_exhausted
  <2>8. IsFiniteSet(There') /\ Cardinality(There') <= maxconn
    <3>1. /\ IsFiniteSet(InUse \cup {i})
          /\ Cardinality(InUse \cup {i}) = IF i \in InUse THEN Cardinality(InUse) ELSE Cardinality(InUse) + 1
      BY <2>6, FS_AddElement
    <3>2. Cardinality(InUse) \in Nat
      BY <2>6, FS_CardinalityType
    <3>3. QED
      BY <2>5, <2>6, <2>7, <3>1, <3>2 DEF SizesFit
  <2>9. Pool!Made' \subseteq Pool!Made \cup {i} /\ \A j \in Pool!Made : conn'[j] = conn[j]
    BY <2>1, <2>2 DEF Pool!Made, IInv, ConnTypeOK
  <2>10. \A j \in Pool!Made' : conn'[j].status # "closed" => ~closed' /\ j \in There'
    BY <1>0, <2>5, <2>9 DEF CountInv
  <2>11. QED
    BY <2>1, <2>3, <2>8, <2>10 DEF CountInv
<1>6. QED
  BY <1>2, <1>4, <1>5

\* What is put back stays or is closed.
LEMMA CountsPut == ASSUME Pool!PoolAssumption, SizesFit, IInv, IInv', CountInv, NEW t \in Threads, Pool!putconn(t) PROVE CountInv'
<1> PICK e \in held[t], close \in BOOLEAN :
       LET i == e[1]
           key == IF e[2] = Pool!NoKey THEN rused[i] ELSE e[2]
           keep == Len(pool) < minconn /\ ~close
           status == IF keep THEN Pool!put_away(conn[i].status) ELSE "closed"
       IN  IF keep /\ conn[i].status \in {"intrans", "inerror"} /\ ~conn[i].there
           THEN conn' = [conn EXCEPT ![i].status = "closed"] /\ UNCHANGED <<pool, used, rused, held>>
           ELSE /\ conn' = [conn EXCEPT ![i].status = status]
                /\ pool' = IF status = "closed" THEN pool ELSE Append(pool, i)
                /\ used' = Pool!without(used, key) /\ rused' = Pool!without(rused, i)
                /\ held' = [held EXCEPT ![t] = @ \ {e}]
  BY DEF Pool!putconn
<1> DEFINE i == e[1]
           keep == Len(pool) < minconn /\ ~close
           status == IF keep THEN Pool!put_away(conn[i].status) ELSE "closed"
<1>0. UNCHANGED <<keys, closed>> /\ ~closed
  BY DEF Pool!putconn
<1>1. i \in InUse /\ i \in Pool!Made /\ i \in Connections /\ e \in Connections \X (Threads \cup {Pool!NoKey})
  BY DEF IInv, HeldOK, MapsOK, Pool!Made, InUse
<1>2. CASE conn' = [conn EXCEPT ![i].status = "closed"] /\ UNCHANGED <<pool, used, rused, held>>
  <2> HIDE DEF i
  <2>1. There' = There /\ InUse' = InUse
    BY <1>2 DEF There, InUse
  <2>2. Pool!Made' \subseteq Pool!Made /\ \A j \in Pool!Made' : conn'[j].status # "closed" => conn[j].status # "closed"
    BY <1>1, <1>2 DEF Pool!Made, IInv, ConnTypeOK
  <2>3. QED
    BY <1>0, <1>2, <2>1, <2>2 DEF CountInv
<1>3. CASE /\ conn' = [conn EXCEPT ![i].status = status]
           /\ pool' = IF status = "closed" THEN pool ELSE Append(pool, i)
           /\ rused' = Pool!without(rused, i) /\ held' = [held EXCEPT ![t] = @ \ {e}]
  <2>1. status \in {"idle", "closed"} /\ (status = "idle" => Len(pool) < minconn)
    BY DEF Pool!put_away
  <2> HIDE DEF i, status
  <2>2. InUse' = InUse \ {i}
    BY <1>3 DEF Pool!without, InUse
  <2>3. \A j \in InUse' : \E s \in Threads : \E y \in held'[s] : y[1] = j
    <3>1. \A s \in Threads : \A y \in held[s] : y[1] # i => y \in held'[s]
      BY <1>3 DEF IInv, HeldOK, i
    <3>2. QED
      BY <2>2, <3>1 DEF CountInv
  <2>4. /\ \A j \in Pool!Made' : j \in Pool!Made /\ (j # i => conn'[j] = conn[j])
        /\ conn'[i].status = status
    BY <1>1, <1>3, <2>1 DEF Pool!Made, IInv, ConnTypeOK
  <2>5. /\ Len(pool') <= minconn
        /\ Pool!ToSet(pool)' = IF status = "closed" THEN Pool!ToSet(pool) ELSE Pool!ToSet(pool) \cup {i}
    <3>1. pool \in Seq(Connections) /\ minconn \in Nat
      BY DEF IInv, PoolOK, Pool!PoolAssumption
    <3>2. CASE status = "closed"
      <4>1. pool' = pool
        BY <1>3, <3>2
      <4>2. QED
        BY <3>2, <4>1 DEF CountInv
    <3>3. CASE status = "idle"
      <4>1. pool' = Append(pool, i) /\ Len(Append(pool, i)) = Len(pool) + 1 /\ Len(pool) \in Nat
        BY <1>1, <1>3, <3>1, <3>3
      <4>2. i \notin Pool!ToSet(pool)
        BY <1>1 DEF IInv, PoolOK, InUse
      <4>3. Pool!ToSet(Append(pool, i)) = Pool!ToSet(pool) \cup {i}
        BY <1>1, <3>1, <4>2, OneMore DEF IInv, PoolOK
      <4>4. QED
        BY <2>1, <3>1, <3>3, <4>1, <4>3
    <3>4. QED
      BY <2>1, <3>2, <3>3
  <2>6. There' \subseteq There /\ (status = "idle" => There' = There) /\ There \subseteq There' \cup {i}
    BY <1>1, <2>1, <2>2, <2>5 DEF There
  <2>7. IsFiniteSet(There') /\ Cardinality(There') <= maxconn
    <3>1. IsFiniteSet(There) /\ Cardinality(There) <= maxconn /\ There' \in SUBSET There
      BY <2>6 DEF CountInv
    <3>2. IsFiniteSet(There') /\ Cardinality(There') <= Cardinality(There)
      BY <3>1, FS_Subset
    <3>3. Cardinality(There) \in Nat /\ Cardinality(There') \in Nat
      BY <3>1, <3>2, FS_CardinalityType
    <3>4. QED
      BY <3>1, <3>2, <3>3 DEF SizesFit
  <2>8. \A j \in Pool!Made' : conn'[j].status # "closed" => ~closed' /\ j \in There'
    BY <1>0, <1>1, <2>1, <2>4, <2>6 DEF CountInv, There
  <2>9. QED
    BY <2>3, <2>5, <2>7, <2>8 DEF CountInv
<1>4. QED
  BY <1>2, <1>3

\* Connections change where they are.
LEMMA CountsOther ==
    ASSUME Pool!PoolAssumption, IInv, IInv', CountInv, Pool!closeall \/ Pool!ServerGoes \/ \E t \in Threads : Pool!execute(t)
    PROVE  CountInv'
<1>1. UNCHANGED <<pool, used, rused, held>>
  BY DEF Pool!closeall, Pool!ServerGoes, Pool!execute
<1>2. There' = There /\ InUse' = InUse
  BY <1>1 DEF There, InUse
<1>3. \A i \in Pool!Made' : conn'[i].status # "closed" => ~closed' /\ i \in There
  <2>1. CASE Pool!closeall
    <3>1. Pool!to_close = There
      BY DEF Pool!to_close, Pool!UsedNow, There, InUse, IInv, MapsOK
    <3>2. conn' = [i \in Connections |-> IF i \in There THEN [conn[i] EXCEPT !.status = "closed"] ELSE conn[i]]
      BY <2>1, <3>1 DEF Pool!closeall
    <3>3. QED
      BY <3>2 DEF IInv, ConnTypeOK, Pool!Made, CountInv
  <2>2. CASE Pool!ServerGoes
    <3>1. UNCHANGED closed /\ \A i \in Connections : conn'[i].status = conn[i].status
      BY <2>2 DEF Pool!ServerGoes, IInv, ConnTypeOK, Pool!Made
    <3>2. QED
      BY <3>1 DEF CountInv, Pool!Made
  <2>3. ASSUME NEW t \in Threads, Pool!execute(t) PROVE \A i \in Pool!Made' : conn'[i].status # "closed" => ~closed' /\ i \in There
    <3>1. PICK y \in held[t] : /\ conn[y[1]].status \notin {"closed", "unknown"} /\ UNCHANGED closed
                               /\ \E s \in {"intrans", "inerror", "idle", "unknown", "closed"} : conn' = [conn EXCEPT ![y[1]].status = s]
      BY <2>3 DEF Pool!execute
    <3>2. y[1] \in Pool!Made
      BY DEF IInv, HeldOK, MapsOK
    <3>3. \A i \in Pool!Made' : i \in Pool!Made /\ (i # y[1] => conn'[i] = conn[i])
      BY <3>1, <3>2 DEF IInv, ConnTypeOK, Pool!Made
    <3>4. QED
      BY <3>1, <3>2, <3>3 DEF CountInv
  <2>4. QED
    BY <2>1, <2>2, <2>3
<1>4. QED
  BY <1>1, <1>2, <1>3 DEF CountInv

LEMMA CountsStep == ASSUME Pool!PoolAssumption, SizesFit, IInv, CountInv, [Pool!Next]_(Pool!vars) PROVE CountInv'
<1>0. IInv'
  BY StepPreserves
<1>1. CASE UNCHANGED Pool!vars
  BY <1>1 DEF Pool!vars, CountInv, There, InUse, Pool!Made
<1>2. CASE Pool!Next
  BY <1>0, <1>2, CountsGet, CountsPut, CountsOther DEF Pool!Next
<1>3. QED
  BY <1>1, <1>2

LEMMA Counted == ASSUME Pool!PoolAssumption, IInv, CountInv, SizesFit PROVE Pool!PoolTypeOK /\ Pool!WithinMaxconn /\ Pool!NoneLost
<1>1. Pool!UsedNow = InUse
  BY DEF IInv, MapsOK, Pool!UsedNow, InUse
<1>2. Pool!PoolTypeOK
  BY <1>1 DEF Pool!PoolTypeOK, IInv, MapsOK, PoolOK, CountInv, InUse
<1>3. Pool!WithinMaxconn
  <2> DEFINE Open == {i \in Pool!Made : conn[i].status # "closed"}
  <2>1. Open \subseteq There /\ IsFiniteSet(There) /\ Cardinality(There) <= maxconn
    BY DEF CountInv
  <2> HIDE DEF Open
  <2>2. IsFiniteSet(Open) /\ Cardinality(Open) <= Cardinality(There)
    BY <2>1, FS_Subset
  <2>3. Cardinality(Open) \in Nat /\ Cardinality(There) \in Nat
    BY <2>1, <2>2, FS_CardinalityType
  <2>4. QED
    BY <2>1, <2>2, <2>3, SameCardinality DEF SizesFit, Pool!WithinMaxconn, Open
<1>4. Pool!NoneLost
  BY <1>1 DEF Pool!NoneLost, CountInv, There
<1>5. QED
  BY <1>2, <1>3, <1>4

\* What is shown of the pool in a behaviour of the layers.
PoolInv == part = "pool" => IInv /\ CountInv

\* AbstractConnectionPool: whatever keys the threads use, and wherever a rollback fails
\* or the server goes, a connection a thread has been given is its own and not in the
\* pool, what is in the pool is idle, none is lost and no more are open than maxconn.
THEOREM PoolAlwaysSound ==
    ASSUME Pool!PoolAssumption, SizesFit
    PROVE  LayersSpec => []PoolSound
<1>1. LayersInit => PoolInv
  BY Initially, CountsInitially DEF LayersInit, PoolInv
<1>2. PoolInv /\ [LayersNext]_<<part, assignorsVars, recordsVars, wireVars, adminVars, poolVars>> => PoolInv'
  <2> SUFFICES ASSUME PoolInv, [LayersNext]_<<part, assignorsVars, recordsVars, wireVars, adminVars, poolVars>>, part' = "pool"
               PROVE  (IInv /\ CountInv)'
    BY DEF PoolInv
  <2>1. part = "pool" /\ [Pool!Next]_(Pool!vars)
    BY DEF LayersNext, poolVars, Pool!vars
  <2>2. QED
    BY <2>1, StepPreserves, CountsStep DEF PoolInv
<1>3. PoolInv => PoolSound
  <2> SUFFICES ASSUME part = "pool", IInv, CountInv PROVE PoolSound
    BY DEF PoolInv, PoolSound
  <2>1. Pool!PoolTypeOK /\ Pool!WithinMaxconn /\ Pool!NoneLost
    BY Counted
  <2>2. Pool!PutAwayIdle
    BY DEF IInv
  <2>3. \A t \in Threads : \A y \in held[t] : y[1] \notin Pool!ToSet(pool)
    BY DEF IInv, HeldOK, PoolOK
  <2>4. \A t \in Threads : \A y \in held[t] : \A s \in Threads \ {t} : \A z \in held[s] : z[1] # y[1]
    BY DEF IInv, OneHolder
  <2>5. QED
    BY <2>1, <2>2, <2>3, <2>4 DEF PoolSound, Pool!NotShared
<1>4. QED
  BY <1>1, <1>2, <1>3, PTL DEF LayersSpec

-----------------------------------------------------------------------------

(* The admin client. *)

Apis == Admin!Operations \cup {"controller", "find_coordinator", "metadata", "list_groups"}
Errors == {"none", "topic_already_exists", "unknown_topic", "invalid_partitions", "election_not_needed", "not_controller",
           "not_coordinator", "group_id_not_found", "not_leader", "invalid_request"}
Raised == Errors \cup {"connection", "node_not_ready", "type_error", "broker_response"}
Results == UNION {[S -> Errors] : S \in SUBSET Admin!Names}
Found == UNION {[S -> Admin!Places] : S \in SUBSET Admin!Names}
Answers == [errors : Results, nodes : Found, controller : Admin!Places, groups : SUBSET ConsumerGroups]
Requests == [api : Apis, names : SUBSET Admin!Names, node : Admin!Places \cup {Admin!AnyNode}, at : Admin!Places,
             state : {"new", "sent", "succeeded", "failed"}, answer : Answers]

CallRecords ==
    [op : Admin!Operations \cup {"none"}, names : Seq(Admin!Names), node : Brokers \cup {Admin!AnyNode},
     state : {"none", "busy", "returned", "raised"}, tries : 0 .. Admin!tries_left, error : Raised, errors : Results,
     listed : SUBSET ConsumerGroups, described : Seq(Admin!Names)]

BrokersOK ==
    /\ brokers \in [up : SUBSET Brokers, controller : Admin!Places, partitions : [Topics -> 0 .. 2],
                    leader : [Topics -> Admin!Places], coordinator : [ConsumerGroups -> Brokers], groups : SUBSET ConsumerGroups]
    /\ c \in [controller_id : Brokers, brokers : (SUBSET Brokers) \ {{}}]
    /\ h \in [calls : Nat, moves : Nat, handled : Nat, done : SUBSET Admin!Names, controllers : SUBSET Admin!Places,
              were : [ConsumerGroups \cup Topics -> SUBSET Admin!Places]]
CallOK ==
    /\ call \in CallRecords
    /\ IF call.state = "none" THEN abandoned = {} ELSE Admin!IsCall(call)
    /\ round \in Seq(Requests) /\ later \in Seq(Requests) /\ abandoned \subseteq Requests
    /\ ~Admin!Busy => round = <<>> /\ later = <<>>
    /\ \A r \in abandoned : r.api = "perform_leader_election" => call.op = r.api

\* Which requests a call makes.
Belongs(api, op) ==
    \/ op \in Admin!Commands /\ api \in {op, "controller"}
    \/ op \in Admin!GroupOps /\ api \in {op, "find_coordinator"}
    \/ op = "delete_records" /\ api \in {op, "metadata"}
    \/ op = "list_consumer_groups" /\ api = "list_groups"
    \/ op = "describe_topics" /\ api = "metadata"
    \/ op \in {"describe_configs", "alter_configs"} /\ api = op

\* What the requests of a round ask of whom, for a call y: of the nodes were was told of, or of those known.
Asks(rs, y, were, known) ==
    /\ rs # <<>>
    /\ \A i, k \in DOMAIN rs : rs[i].api = rs[k].api
    /\ \A i \in DOMAIN rs : Belongs(rs[i].api, y.op) /\ rs[i].names \subseteq Admin!ToSet(y.names)
    /\ y.op \in Admin!Commands \cup {"delete_records"} => Len(rs) = 1
    /\ \A i \in DOMAIN rs : rs[i].api \in Admin!Commands => rs[i].names = Admin!ToSet(y.names) /\ rs[i].node \in Brokers
    /\ \A i \in DOMAIN rs : rs[i].api = "metadata" => rs[i].names = Admin!ToSet(y.names)
    /\ \A i \in DOMAIN rs : rs[i].api = "describe_configs" => rs[i].names \cap Brokers \subseteq {rs[i].node}
    /\ \A i \in DOMAIN rs : rs[i].api = "list_groups" => rs[i].node \in Brokers
    /\ y.op = "list_consumer_groups" => \A a \in known : \E i \in DOMAIN rs : rs[i].node = a
    /\ \A i \in DOMAIN rs : rs[i].api \in Admin!GroupOps \cup {"delete_records"} /\ y.node = Admin!AnyNode =>
          \A n \in rs[i].names : rs[i].node \in were[n]
    /\ \A i \in DOMAIN rs : rs[i].api \in (Admin!GroupOps \ {"delete_consumer_groups"}) \cup {"find_coordinator"} =>
          Len(rs) = Len(y.names) /\ rs[i].names = {y.names[i]}
    /\ \A i \in DOMAIN rs : rs[i].api = "find_coordinator" => y.node = Admin!AnyNode
    /\ rs[1].api = "delete_consumer_groups" =>
          /\ Admin!ToSet(y.names) = UNION {rs[i].names : i \in DOMAIN rs}
          /\ \A i, k \in DOMAIN rs : rs[i].names \cap rs[k].names # {} => i = k
RoundOK ==
    Admin!Busy =>
    /\ Asks(round, call, h.were, c.brokers)
    /\ \A i \in DOMAIN round : round[i].state # "new" => round[i].at \in Brokers /\ round[i].node \in {Admin!AnyNode, round[i].at}

CommandsOK ==
    Admin!Busy => \A i \in DOMAIN round :
        /\ round[i].api \in Admin!Commands /\ call.tries = 0 => round[i].node \in h.controllers
        /\ round[i].api = "controller" => call.tries = Admin!tries_left
        /\ round[i].api \notin Admin!Commands \/ round[i].state \in {"new", "sent"} => h.handled = 0

\* A group is deleted by a request that has been answered, or whose answer was lost.
DeletedOK ==
    Admin!Busy /\ call.op = "delete_consumer_groups" => \A n \in h.done : \E i \in DOMAIN round :
        /\ round[i].api = call.op /\ n \in round[i].names /\ round[i].state \in {"succeeded", "failed"}
        /\ round[i].state = "succeeded" => Admin!ok(round[i].answer.errors[n])

RecordsOK ==
    Admin!Busy =>
    /\ call.op # "delete_records" => later = <<>>
    /\ round[1].api = "metadata" => later = <<>> /\ DOMAIN call.errors = {}
    /\ round[1].api = "delete_records" =>
          /\ Admin!ToSet(call.names) = round[1].names \cup DOMAIN call.errors \cup UNION {later[k].names : k \in DOMAIN later}
          /\ \A n \in DOMAIN call.errors : call.errors[n] # "not_controller" /\ (Admin!ok(call.errors[n]) => n \in h.done)
    /\ \A k \in DOMAIN later :
          /\ later[k].api = "delete_records" /\ later[k].state = "new"
          /\ call.node = Admin!AnyNode => \A n \in later[k].names : later[k].node \in h.were[n]

AnsweredRightly(r) ==
    /\ DOMAIN r.answer.errors = r.names /\ DOMAIN r.answer.nodes = r.names
    /\ r.api = call.op => \A n \in r.names : Admin!ok(r.answer.errors[n]) => n \in h.done
    /\ r.api \in Admin!GroupOps => \A n \in r.names : r.answer.errors[n] # "election_not_needed"
    /\ \A n \in r.names : r.answer.errors[n] = "not_controller" =>
          r.api \in Admin!Commands /\ h.handled = 0 /\ \E a \in h.controllers : a # r.at
    /\ r.api = "find_coordinator" \/ (r.api = "metadata" /\ call.op = "delete_records") =>
          \A n \in r.names : r.answer.nodes[n] \in h.were[n]
    /\ r.api = "controller" => r.answer.controller \in h.controllers
    /\ r.api = "list_groups" => \A g \in brokers.groups : h.were[g] = {r.at} => g \in r.answer.groups
AnswersOK == Admin!Busy => \A i \in DOMAIN round : round[i].state = "succeeded" => AnsweredRightly(round[i])

\* Where controller, coordinators and leaders are, they were during the call.
WereOK ==
    /\ h.handled <= 1
    /\ Admin!Busy =>
          /\ h.done \subseteq Admin!ToSet(call.names) /\ brokers.controller \in h.controllers
          /\ \A g \in ConsumerGroups : brokers.coordinator[g] \in h.were[g]
          /\ call.op # "perform_leader_election" => \A t \in Topics : brokers.leader[t] \in h.were[t]

EndsOK == Admin!ReturnedIsDone /\ Admin!OutdatedIsRefreshed /\ Admin!ListComplete

AdminInv == BrokersOK /\ CallOK /\ RoundOK /\ CommandsOK /\ DeletedOK /\ RecordsOK /\ AnswersOK /\ WereOK /\ EndsOK

-----------------------------------------------------------------------------

LEMMA AdminFinite == \A S : (Admin!IsFiniteSet(S) <=> IsFiniteSet(S)) /\ Admin!Cardinality(S) = Cardinality(S)
BY DEF Admin!IsFiniteSet, IsFiniteSet, Admin!Cardinality, Cardinality

LEMMA Nothing == <<>> \in Results /\ <<>> \in Found /\ DOMAIN <<>> = {}
<1>1. <<>> \in [{} -> Errors] /\ <<>> \in [{} -> Admin!Places] /\ DOMAIN <<>> = {}
  OBVIOUS
<1>2. {} \in SUBSET Admin!Names
  OBVIOUS
<1>3. QED
  BY <1>1, <1>2 DEF Results, Found

LEMMA RequestType ==
    ASSUME NEW api \in Apis, NEW ns \in SUBSET Admin!Names, NEW node \in Admin!Places \cup {Admin!AnyNode}
    PROVE  /\ Admin!Request(api, ns, node) \in Requests
           /\ Admin!Request(api, ns, node).api = api /\ Admin!Request(api, ns, node).names = ns
           /\ Admin!Request(api, ns, node).node = node /\ Admin!Request(api, ns, node).state = "new"
<1>1. Admin!NoAnswer \in Answers
  BY Nothing DEF Admin!NoAnswer, Answers, Admin!Places
<1>2. QED
  BY <1>1 DEF Admin!Request, Requests, Admin!Places

\* What a call is for.
LEMMA InCall ==
    ASSUME NEW y, Admin!IsCall(y)
    PROVE  /\ y.names \in Seq(Admin!Names) /\ Len(y.names) \in Nat /\ DOMAIN y.names = 1 .. Len(y.names)
           /\ Admin!ToSet(y.names) = {y.names[i] : i \in 1 .. Len(y.names)}
           /\ Admin!ToSet(y.names) \subseteq Admin!Names
           /\ y.op \in Admin!GroupOps => Admin!ToSet(y.names) \subseteq ConsumerGroups
           /\ y.op \in Admin!Commands \cup {"delete_records", "describe_topics"} => Admin!ToSet(y.names) \subseteq Topics
           /\ y.op # "list_consumer_groups" => Admin!ToSet(y.names) # {} /\ Len(y.names) > 0
<1> DEFINE S == CASE y.op \in Admin!GroupOps -> ConsumerGroups
                  [] y.op \in {"describe_configs", "alter_configs"} -> Admin!Names
                  [] OTHER -> Topics
<1>1. /\ S \subseteq Admin!Names /\ (y.op \in Admin!GroupOps => S = ConsumerGroups)
      /\ y.op \in Admin!Commands \cup {"delete_records", "describe_topics"} => S = Topics
  BY DEF Admin!Names, Admin!GroupOps, Admin!Commands
<1>2. y.names \in Seq(S) /\ (y.op = "list_consumer_groups" \/ y.names # <<>>)
  BY DEF Admin!IsCall
<1> HIDE DEF S
<1>3. Len(y.names) \in Nat /\ DOMAIN y.names = 1 .. Len(y.names) /\ \A i \in 1 .. Len(y.names) : y.names[i] \in S
  BY <1>2
<1>4. y.names \in Seq(Admin!Names)
  BY <1>1, <1>2, <1>3
<1>5. Admin!ToSet(y.names) = {y.names[i] : i \in 1 .. Len(y.names)} /\ Admin!ToSet(y.names) \subseteq S
  BY <1>3 DEF Admin!ToSet
<1>6. y.names # <<>> => Len(y.names) > 0
  BY <1>2
<1>7. y.names # <<>> => y.names[1] \in Admin!ToSet(y.names)
  BY <1>3, <1>5, <1>6
<1>8. QED
  BY <1>1, <1>2, <1>3, <1>4, <1>5, <1>6, <1>7

LEMMA NamesFinite == ASSUME NEW y, Admin!IsCall(y) PROVE IsFiniteSet(Admin!ToSet(y.names))
<1> DEFINE n == Len(y.names)
           f == [i \in 1 .. n |-> y.names[i]]
<1>1. n \in Nat
  BY InCall
<1>2. IsFiniteSet(1 .. n)
  BY <1>1, FS_Interval
<1>3. f \in Surjection(1 .. n, Admin!ToSet(y.names))
  <2>1. Admin!ToSet(y.names) = {y.names[i] : i \in 1 .. n}
    BY InCall
  <2>2. f \in [1 .. n -> Admin!ToSet(y.names)] /\ \A a \in Admin!ToSet(y.names) : \E i \in 1 .. n : f[i] = a
    BY <2>1
  <2>3. QED
    BY <2>2 DEF Surjection
<1>4. QED
  BY <1>2, <1>3, FS_Surjection

\* An order of a finite set has all of it.
LEMMA Ordered ==
    ASSUME NEW S, IsFiniteSet(S), NEW o \in Admin!SetToSeqs(S)
    PROVE  /\ o \in Seq(S) /\ DOMAIN o = 1 .. Len(o) /\ Len(o) \in Nat
           /\ \A a \in S : \E i \in DOMAIN o : o[i] = a
           /\ \A i, k \in DOMAIN o : o[i] = o[k] => i = k
           /\ S # {} => Len(o) > 0
<1> DEFINE n == Cardinality(S)
<1>1. n \in Nat /\ IsFiniteSet(1 .. n) /\ Cardinality(1 .. n) = n
  BY FS_CardinalityType, FS_Interval
<1>2. o \in [1 .. n -> S] /\ \A i, k \in 1 .. n : i # k => o[i] # o[k]
  BY AdminFinite DEF Admin!SetToSeqs
<1>3. o \in Injection(1 .. n, S)
  BY <1>2 DEF Injection, IsInjective
<1>4. o \in Surjection(1 .. n, S)
  BY <1>1, <1>3, FS_Injection
<1>5. \A a \in S : \E i \in 1 .. n : o[i] = a
  BY <1>4 DEF Surjection
<1>6. o \in Seq(S) /\ Len(o) = n
  BY <1>1, <1>2
<1>7. QED
  BY <1>1, <1>2, <1>5, <1>6

\* A request for each node has every name in one of them.
LEMMA ByNode ==
    ASSUME NEW api \in Apis, NEW nodes, NEW S, IsFiniteSet(S), S \subseteq Admin!Names, S # {}, nodes \in [S -> Admin!Places],
           NEW rs \in Admin!by_node(api, nodes)
    PROVE  /\ rs \in Seq(Requests) /\ Len(rs) > 0 /\ DOMAIN rs = 1 .. Len(rs)
           /\ \A i \in DOMAIN rs : /\ rs[i].api = api /\ rs[i].state = "new"
                                   /\ rs[i].names = {n \in S : nodes[n] = rs[i].node}
           /\ UNION {rs[i].names : i \in DOMAIN rs} = S
           /\ \A i, k \in DOMAIN rs : rs[i].names \cap rs[k].names # {} => i = k
<1>1. IsFiniteSet(Admin!Range(nodes)) /\ Admin!Range(nodes) # {} /\ Admin!Range(nodes) \subseteq Admin!Places
  <2>1. [n \in S |-> nodes[n]] \in Surjection(S, Admin!Range(nodes))
    BY DEF Surjection, Admin!Range
  <2>2. QED
    BY <2>1, FS_Surjection DEF Admin!Range
<1>2. PICK o \in Admin!SetToSeqs(Admin!Range(nodes)) :
        rs = [i \in DOMAIN o |-> Admin!Request(api, {n \in DOMAIN nodes : nodes[n] = o[i]}, o[i])]
  BY DEF Admin!by_node
<1>3. /\ o \in Seq(Admin!Range(nodes)) /\ DOMAIN o = 1 .. Len(o) /\ Len(o) \in Nat /\ Len(o) > 0
      /\ \A a \in Admin!Range(nodes) : \E i \in DOMAIN o : o[i] = a
      /\ \A i, k \in DOMAIN o : o[i] = o[k] => i = k
  BY <1>1, Ordered
<1>4. DOMAIN rs = 1 .. Len(o) /\ \A i \in DOMAIN rs : o[i] \in Admin!Places
  BY <1>1, <1>2, <1>3
<1>5. \A i \in DOMAIN rs : /\ rs[i] \in Requests /\ rs[i].api = api /\ rs[i].state = "new" /\ rs[i].node = o[i]
                           /\ rs[i].names = {n \in S : nodes[n] = o[i]}
  <2> SUFFICES ASSUME NEW i \in DOMAIN rs
               PROVE  /\ rs[i] \in Requests /\ rs[i].api = api /\ rs[i].state = "new" /\ rs[i].node = o[i]
                      /\ rs[i].names = {n \in S : nodes[n] = o[i]}
    OBVIOUS
  <2>1. rs[i] = Admin!Request(api, {n \in S : nodes[n] = o[i]}, o[i])
    BY <1>2, <1>4
  <2>2. {n \in S : nodes[n] = o[i]} \in SUBSET Admin!Names
    OBVIOUS
  <2>3. QED
    BY <1>4, <2>1, <2>2, RequestType
<1>6. rs \in Seq(Requests) /\ Len(rs) = Len(o)
  BY <1>2, <1>3, <1>4, <1>5
<1>7. UNION {rs[i].names : i \in DOMAIN rs} = S
  <2>1. \A n \in S : \E i \in DOMAIN rs : n \in rs[i].names
    <3> SUFFICES ASSUME NEW n \in S PROVE \E i \in DOMAIN rs : n \in rs[i].names
      OBVIOUS
    <3>1. PICK i \in DOMAIN o : o[i] = nodes[n]
      BY <1>3 DEF Admin!Range
    <3>2. QED
      BY <1>3, <1>4, <1>5, <3>1
  <2>2. \A i \in DOMAIN rs : rs[i].names \subseteq S
    BY <1>5
  <2>3. QED
    BY <2>1, <2>2
<1>8. \A i, k \in DOMAIN rs : rs[i].names \cap rs[k].names # {} => i = k
  BY <1>3, <1>4, <1>5
<1>9. QED
  BY <1>3, <1>4, <1>5, <1>6, <1>7, <1>8

-----------------------------------------------------------------------------

\* What a request asks says what has been called.
LEMMA Kinds ==
    ASSUME AdminInv, Admin!Busy, NEW i \in DOMAIN round
    PROVE  /\ round[i] \in Requests /\ Admin!IsCall(call) /\ round[i].names \subseteq Admin!ToSet(call.names)
           /\ round[i].api \in Admin!Operations => call.op = round[i].api
           /\ round[i].api = "controller" => call.op \in Admin!Commands
           /\ round[i].api = "find_coordinator" => call.op \in Admin!GroupOps
           /\ round[i].api = "metadata" => call.op \in {"delete_records", "describe_topics"}
           /\ round[i].api = "list_groups" => call.op = "list_consumer_groups"
           /\ round[i].api \in Admin!GroupOps \cup {"find_coordinator"} => round[i].names \subseteq ConsumerGroups
           /\ round[i].api \in Admin!Commands \cup {"delete_records", "metadata"} => round[i].names \subseteq Topics
<1>1. /\ round[i] \in Requests /\ Admin!IsCall(call) /\ round[i].names \subseteq Admin!ToSet(call.names)
      /\ Belongs(round[i].api, call.op)
  BY DEF AdminInv, CallOK, RoundOK, Asks, Admin!Busy
<1>2. /\ round[i].api \in Admin!Operations => call.op = round[i].api
      /\ round[i].api = "controller" => call.op \in Admin!Commands
      /\ round[i].api = "find_coordinator" => call.op \in Admin!GroupOps
      /\ round[i].api = "metadata" => call.op \in {"delete_records", "describe_topics"}
      /\ round[i].api = "list_groups" => call.op = "list_consumer_groups"
  BY <1>1 DEF Belongs, Admin!Operations, Admin!Commands, Admin!GroupOps
<1>3. QED
  BY <1>1, <1>2, InCall DEF Admin!Operations, Admin!Commands, Admin!GroupOps

\* What is asked stays so when a request changes its state.
LEMMA AsksSame ==
    ASSUME NEW rs, NEW rs2, NEW y, NEW y2, NEW were, NEW were2, NEW known, Asks(rs, y, were, known),
           rs2 # <<>>, DOMAIN rs2 = DOMAIN rs, Len(rs2) = Len(rs), 1 \in DOMAIN rs,
           \A i \in DOMAIN rs : rs2[i].api = rs[i].api /\ rs2[i].names = rs[i].names /\ rs2[i].node = rs[i].node,
           y2.op = y.op, y2.names = y.names, y2.node = y.node,
           \A i \in DOMAIN rs : rs[i].api \in Admin!GroupOps \cup {"delete_records"} => \A n \in rs[i].names : were[n] \subseteq were2[n]
    PROVE  Asks(rs2, y2, were2, known)
<1>1. UNION {rs2[i].names : i \in DOMAIN rs2} = UNION {rs[i].names : i \in DOMAIN rs}
  OBVIOUS
<1>2. QED
  BY <1>1 DEF Asks

LEMMA RoundType == ASSUME AdminInv PROVE
    /\ Len(round) \in Nat /\ DOMAIN round = 1 .. Len(round) /\ Len(later) \in Nat /\ DOMAIN later = 1 .. Len(later)
    /\ Admin!Busy => 1 \in DOMAIN round
<1>1. round \in Seq(Requests) /\ later \in Seq(Requests) /\ (Admin!Busy => round # <<>>)
  BY DEF AdminInv, CallOK, RoundOK, Asks
<1>2. QED
  BY <1>1

\* One request changes: what it asks does not.
LEMMA OneChanges ==
    ASSUME AdminInv, Admin!Busy, NEW i \in DOMAIN round, NEW r \in Requests,
           r.api = round[i].api, r.names = round[i].names, r.node = round[i].node,
           round' = [round EXCEPT ![i] = r]
    PROVE  /\ round' \in Seq(Requests) /\ round' # <<>> /\ DOMAIN round' = DOMAIN round /\ Len(round') = Len(round)
           /\ round'[i] = r /\ \A k \in DOMAIN round : k # i => round'[k] = round[k]
           /\ \A k \in DOMAIN round : /\ round'[k].api = round[k].api /\ round'[k].names = round[k].names
                                      /\ round'[k].node = round[k].node
<1>1. round \in Seq(Requests) /\ round # <<>>
  BY DEF AdminInv, CallOK, RoundOK, Asks
<1>2. QED
  BY <1>1

\* A call that raises leaves what it has sent; one that fails as not_controller has seen the controller move.
LEMMA Raises ==
    ASSUME AdminInv, Admin!Busy, NEW error \in Raised, Admin!raises(error), UNCHANGED <<brokers, c, h>>,
           error = "not_controller" => Admin!Cardinality(h.controllers) > 1
    PROVE  AdminInv'
<1>1. /\ call' = [call EXCEPT !.state = "raised", !.error = error] /\ round' = <<>> /\ later' = <<>>
      /\ abandoned' = abandoned \cup {round[i] : i \in {k \in DOMAIN round : round[k].state = "sent"}}
  BY DEF Admin!raises
<1>2. ~Admin!Busy' /\ call'.state = "raised" /\ call'.error = error /\ call'.op = call.op
  BY <1>1 DEF AdminInv, CallOK, CallRecords, Admin!Busy
<1>3. BrokersOK'
  BY DEF AdminInv, BrokersOK
<1>4. CallOK'
  <2>1. call' \in CallRecords
    BY <1>1 DEF AdminInv, CallOK, CallRecords
  <2>2. Admin!IsCall(call)'
    BY <1>1 DEF AdminInv, CallOK, Admin!Busy, Admin!IsCall
  <2>3. abandoned' \subseteq Requests /\ \A r \in abandoned' : r.api = "perform_leader_election" => call'.op = r.api
    <3>1. \A k \in DOMAIN round : round[k] \in Requests /\ (round[k].api = "perform_leader_election" => call.op = round[k].api)
      BY Kinds DEF Admin!Operations, Admin!Commands
    <3>2. QED
      BY <1>1, <1>2, <3>1 DEF AdminInv, CallOK
  <2>4. round' \in Seq(Requests) /\ later' \in Seq(Requests)
    BY <1>1
  <2>5. QED
    BY <1>1, <1>2, <2>1, <2>2, <2>3, <2>4 DEF CallOK
<1>5. RoundOK' /\ CommandsOK' /\ DeletedOK' /\ RecordsOK' /\ AnswersOK'
  BY <1>2 DEF RoundOK, CommandsOK, DeletedOK, RecordsOK, AnswersOK
<1>6. WereOK'
  BY <1>2 DEF AdminInv, WereOK
<1>7. EndsOK'
  BY <1>2 DEF EndsOK, Admin!ReturnedIsDone, Admin!OutdatedIsRefreshed, Admin!ListComplete, Admin!Returned
<1>8. QED
  BY <1>3, <1>4, <1>5, <1>6, <1>7 DEF AdminInv

\* A call that returns has done what it was to do.
LEMMA Returns ==
    ASSUME AdminInv, Admin!Busy, NEW errors \in Results, NEW listed \in SUBSET ConsumerGroups, NEW described \in Seq(Admin!Names),
           NEW made, made = [call EXCEPT !.errors = errors, !.listed = listed, !.described = described],
           Admin!returns(made), UNCHANGED <<brokers, c, h>>,
           call.op \in Admin!Commands \cup {"delete_records"} => Admin!ToSet(call.names) \subseteq h.done,
           call.op = "delete_consumer_groups" => DOMAIN errors = Admin!ToSet(call.names) /\ {g \in DOMAIN errors : errors[g] = "none"} = h.done,
           call.op = "describe_consumer_groups" => described = call.names,
           call.op = "list_consumer_groups" => \A g \in brokers.groups : (\E a \in c.brokers : h.were[g] = {a}) => g \in listed
    PROVE  AdminInv'
<1>1. /\ call' = [made EXCEPT !.state = "returned"] /\ round' = <<>> /\ later' = <<>> /\ abandoned' = abandoned
  BY DEF Admin!returns
<1>2. /\ ~Admin!Busy' /\ call'.state = "returned" /\ call'.op = call.op /\ call'.names = call.names /\ call'.node = call.node
      /\ call'.errors = errors /\ call'.listed = listed /\ call'.described = described
  BY <1>1 DEF AdminInv, CallOK, CallRecords, Admin!Busy
<1>3. BrokersOK'
  BY DEF AdminInv, BrokersOK
<1>4. CallOK'
  <2>1. call' \in CallRecords
    BY <1>1 DEF AdminInv, CallOK, CallRecords
  <2>2. Admin!IsCall(call)'
    BY <1>2 DEF AdminInv, CallOK, Admin!Busy, Admin!IsCall
  <2>3. round' \in Seq(Requests) /\ later' \in Seq(Requests)
    BY <1>1
  <2>4. QED
    BY <1>1, <1>2, <2>1, <2>2, <2>3 DEF AdminInv, CallOK
<1>5. RoundOK' /\ CommandsOK' /\ DeletedOK' /\ RecordsOK' /\ AnswersOK'
  BY <1>2 DEF RoundOK, CommandsOK, DeletedOK, RecordsOK, AnswersOK
<1>6. WereOK'
  BY <1>2 DEF AdminInv, WereOK
<1>7. EndsOK'
  <2>1. h.done \subseteq Admin!ToSet(call.names) /\ Admin!ToSet(call.names)' = Admin!ToSet(call.names)
    BY <1>2 DEF AdminInv, WereOK, Admin!ToSet
  <2>2. Admin!ReturnedIsDone'
    BY <1>2, <2>1 DEF Admin!ReturnedIsDone, Admin!Returned, Admin!Commands, Admin!GroupOps
  <2>3. Admin!OutdatedIsRefreshed' /\ Admin!ListComplete'
    BY <1>2 DEF Admin!OutdatedIsRefreshed, Admin!ListComplete, Admin!Returned
  <2>4. QED
    BY <2>2, <2>3 DEF EndsOK
<1>8. QED
  BY <1>3, <1>4, <1>5, <1>6, <1>7 DEF AdminInv

-----------------------------------------------------------------------------

(* Brokers and the network. *)

\* One request gets another state, and nothing else happens to it.
LEMMA Changes ==
    ASSUME AdminInv, Admin!Busy, NEW i \in DOMAIN round, NEW r \in Requests,
           r.api = round[i].api, r.names = round[i].names, r.node = round[i].node, r.state # "new",
           r.at \in Brokers, r.node \in {Admin!AnyNode, r.at},
           round' = [round EXCEPT ![i] = r],
           round[i].state \in {"new", "sent"},
           UNCHANGED <<c, call, later>>, abandoned' = abandoned,
           BrokersOK', UNCHANGED <<h.were, h.controllers>>, h.done \subseteq h.done', WereOK',
           brokers'.groups \subseteq brokers.groups,
           r.api \notin Admin!Commands \/ r.state = "sent" => h'.handled = h.handled,
           r.api = call.op => h.done' \subseteq h.done \cup r.names,
           r.api # call.op => h.done' = h.done,
           r.state = "sent" => h.done' = h.done,
           r.state = "succeeded" => AnsweredRightly(r)' /\ \A n \in h.done' \ h.done : Admin!ok(r.answer.errors[n])
    PROVE  AdminInv'
<1>1. /\ round' \in Seq(Requests) /\ round' # <<>> /\ DOMAIN round' = DOMAIN round /\ Len(round') = Len(round)
      /\ round'[i] = r /\ \A k \in DOMAIN round : k # i => round'[k] = round[k]
      /\ \A k \in DOMAIN round : /\ round'[k].api = round[k].api /\ round'[k].names = round[k].names
                                 /\ round'[k].node = round[k].node
  BY OneChanges
<1>2. Admin!Busy' /\ call' = call
  BY DEF Admin!Busy
<1>3. CallOK'
  <2>1. Admin!IsCall(call)'
    BY DEF AdminInv, CallOK, Admin!Busy, Admin!IsCall
  <2>2. QED
    BY <1>1, <1>2, <2>1 DEF AdminInv, CallOK, Admin!Busy
<1>4. RoundOK'
  <2>1. 1 \in DOMAIN round /\ Asks(round, call, h.were, c.brokers)
    BY RoundType DEF AdminInv, RoundOK
  <2>2. Asks(round', call', h'.were, c'.brokers)
    BY <1>1, <1>2, <2>1, AsksSame
  <2>3. Asks(round, call, h.were, c.brokers)'
    BY <2>2 DEF Asks, Belongs, Admin!ToSet
  <2>4. QED
    BY <1>1, <2>3 DEF AdminInv, RoundOK
<1>5. CommandsOK'
  <2> SUFFICES ASSUME NEW k \in DOMAIN round
               PROVE  /\ round'[k].api \in Admin!Commands /\ call.tries = 0 => round'[k].node \in h.controllers
                      /\ round'[k].api = "controller" => call.tries = Admin!tries_left
                      /\ round'[k].api \notin Admin!Commands \/ round'[k].state \in {"new", "sent"} => h'.handled = 0
    BY <1>1, <1>2 DEF CommandsOK, Admin!Commands, Admin!tries_left
  <2>1. round[k].api = round[i].api
    BY DEF AdminInv, RoundOK, Asks
  <2>2. /\ round[k].api \in Admin!Commands /\ call.tries = 0 => round[k].node \in h.controllers
        /\ round[k].api = "controller" => call.tries = Admin!tries_left
        /\ round[i].api \notin Admin!Commands \/ round[i].state \in {"new", "sent"} => h.handled = 0
    BY DEF AdminInv, CommandsOK
  <2>3. k # i => call.op \notin Admin!Commands
    BY RoundType DEF AdminInv, RoundOK, Asks
  <2>4. round[k].api \in Admin!Commands => call.op \in Admin!Commands
    BY Kinds DEF Admin!Operations
  <2>5. QED
    BY <1>1, <2>1, <2>2, <2>3, <2>4
<1>6. DeletedOK'
  <2> SUFFICES ASSUME call.op = "delete_consumer_groups", NEW n \in h'.done
               PROVE  \E k \in DOMAIN round :
                        /\ round'[k].api = call.op /\ n \in round'[k].names /\ round'[k].state \in {"succeeded", "failed"}
                        /\ round'[k].state = "succeeded" => Admin!ok(round'[k].answer.errors[n])
    BY <1>1, <1>2 DEF DeletedOK, Admin!ok
  <2>1. CASE n \in h.done
    <3>1. PICK k \in DOMAIN round :
            /\ round[k].api = call.op /\ n \in round[k].names /\ round[k].state \in {"succeeded", "failed"}
            /\ round[k].state = "succeeded" => Admin!ok(round[k].answer.errors[n])
      BY <2>1 DEF AdminInv, DeletedOK
    <3>2. k # i
      BY <3>1
    <3>3. QED
      BY <1>1, <3>1, <3>2
  <2>2. CASE n \notin h.done
    <3>1. r.api = call.op /\ n \in r.names /\ r.state # "sent"
      BY <2>2
    <3>2. r.state \in {"new", "sent", "succeeded", "failed"}
      BY DEF Requests
    <3>3. QED
      BY <1>1, <2>2, <3>1, <3>2
  <2>3. QED
    BY <2>1, <2>2
<1>7. RecordsOK'
  <2>1. 1 \in DOMAIN round /\ UNION {later'[k].names : k \in DOMAIN later'} = UNION {later[k].names : k \in DOMAIN later}
    BY RoundType
  <2>2. Admin!ToSet(call.names)' = Admin!ToSet(call.names) /\ \A e : Admin!ok(e)' = Admin!ok(e)
    BY DEF Admin!ToSet, Admin!ok
  <2>3. /\ call.op # "delete_records" => later' = <<>>
        /\ round'[1].api = "metadata" => later' = <<>> /\ DOMAIN call'.errors = {}
    BY <1>1, <2>1 DEF AdminInv, RecordsOK
  <2>4. round'[1].api = "delete_records" =>
          /\ Admin!ToSet(call.names) = round'[1].names \cup DOMAIN call'.errors \cup UNION {later'[k].names : k \in DOMAIN later'}
          /\ \A n \in DOMAIN call'.errors : call'.errors[n] # "not_controller" /\ (Admin!ok(call'.errors[n]) => n \in h'.done)
    BY <1>1, <2>1 DEF AdminInv, RecordsOK
  <2>5. \A k \in DOMAIN later' :
          /\ later'[k].api = "delete_records" /\ later'[k].state = "new"
          /\ call'.node = Admin!AnyNode => \A n \in later'[k].names : later'[k].node \in h'.were[n]
    BY DEF AdminInv, RecordsOK
  <2>6. QED
    BY <1>2, <2>2, <2>3, <2>4, <2>5 DEF RecordsOK, Admin!AnyNode, Admin!ok
<1>8. AnswersOK'
  <2> SUFFICES ASSUME NEW k \in DOMAIN round, round'[k].state = "succeeded" PROVE AnsweredRightly(round[k])'
    BY <1>1, <1>2 DEF AnswersOK
  <2>1. CASE k = i
    BY <1>1, <2>1 DEF AnsweredRightly, Admin!ok, Admin!Commands, Admin!GroupOps
  <2>2. CASE k # i
    <3>1. round'[k] = round[k] /\ AnsweredRightly(round[k])
      BY <1>1, <2>2 DEF AdminInv, AnswersOK
    <3>2. call.op \notin Admin!Commands /\ (round[k].api \in Admin!Commands => call.op \in Admin!Commands)
      BY <2>2, RoundType, Kinds DEF AdminInv, RoundOK, Asks, Admin!Operations
    <3>3. QED
      BY <1>2, <3>1, <3>2 DEF AnsweredRightly, Admin!ok
  <2>3. QED
    BY <2>1, <2>2
<1>9. EndsOK'
  BY <1>2 DEF EndsOK, Admin!ReturnedIsDone, Admin!OutdatedIsRefreshed, Admin!ListComplete, Admin!Returned, Admin!Busy
<1>10. QED
  BY <1>3, <1>4, <1>5, <1>6, <1>7, <1>8, <1>9 DEF AdminInv

\* What a broker answers, and what then is so.
LEMMA Answering ==
    ASSUME AdminInv, Admin!Busy, NEW i \in DOMAIN round
    PROVE  /\ Admin!answer(round[i]) \in Answers /\ \A n \in round[i].names : Admin!name_error(round[i], n) \in Errors
           /\ DOMAIN Admin!answer(round[i]).errors = round[i].names /\ DOMAIN Admin!answer(round[i]).nodes = round[i].names
           /\ \A n \in round[i].names : Admin!answer(round[i]).errors[n] = Admin!name_error(round[i], n)
           /\ round[i].api = "find_coordinator" => \A n \in round[i].names : Admin!answer(round[i]).nodes[n] = brokers.coordinator[n]
           /\ round[i].api = "metadata" => \A n \in round[i].names : Admin!answer(round[i]).nodes[n] = brokers.leader[n]
           /\ Admin!answer(round[i]).controller = brokers.controller
           /\ Admin!answer(round[i]).groups = {g \in brokers.groups : brokers.coordinator[g] = round[i].at}
<1> DEFINE r == round[i]
<1>1. \A n \in r.names : Admin!name_error(r, n) \in Errors
  BY DEF Admin!name_error, Admin!command_error, Errors, Admin!Commands, Admin!GroupOps
<1>2. r.names \in SUBSET Admin!Names
  BY Kinds DEF Requests
<1>3. /\ r.api = "find_coordinator" => \A n \in r.names : brokers.coordinator[n] \in Admin!Places
      /\ r.api = "metadata" => \A n \in r.names : brokers.leader[n] \in Admin!Places
  BY Kinds DEF AdminInv, BrokersOK, Admin!Places
<1>4. [n \in r.names |-> Admin!name_error(r, n)] \in Results
  BY <1>1, <1>2 DEF Results
<1>5. [n \in r.names |-> CASE r.api = "find_coordinator" -> brokers.coordinator[n]
                           [] r.api = "metadata" -> brokers.leader[n]
                           [] OTHER -> Admin!NoBroker] \in Found
  BY <1>2, <1>3 DEF Found, Admin!Places
<1>6. Admin!answer(r) \in Answers
  BY <1>4, <1>5 DEF Admin!answer, Answers, AdminInv, BrokersOK
<1>7. QED
  BY <1>1, <1>6 DEF Admin!answer

LEMMA Applying ==
    ASSUME AdminInv, NEW r \in Requests
    PROVE  /\ Admin!applied(r) \in [up : SUBSET Brokers, controller : Admin!Places, partitions : [Topics -> 0 .. 2],
                              leader : [Topics -> Admin!Places], coordinator : [ConsumerGroups -> Brokers], groups : SUBSET ConsumerGroups]
           /\ Admin!applied(r).controller = brokers.controller /\ Admin!applied(r).coordinator = brokers.coordinator
           /\ Admin!applied(r).up = brokers.up /\ Admin!applied(r).groups \subseteq brokers.groups
           /\ r.api # "perform_leader_election" => Admin!applied(r).leader = brokers.leader
<1> DEFINE C == [up : SUBSET Brokers, controller : Admin!Places, partitions : [Topics -> 0 .. 2],
                 leader : [Topics -> Admin!Places], coordinator : [ConsumerGroups -> Brokers], groups : SUBSET ConsumerGroups]
           done == {n \in r.names : Admin!name_error(r, n) = "none"}
           to(f, v) == [n \in DOMAIN f |-> IF n \in done THEN v ELSE f[n]]
<1>1. brokers \in C
  BY DEF AdminInv, BrokersOK
<1>2. Admin!preferred \in Admin!Places
  BY DEF Admin!preferred, Admin!Places, AdminInv, BrokersOK
<1>3. \A v \in 0 .. 2 : to(brokers.partitions, v) \in [Topics -> 0 .. 2]
  BY <1>1
<1>4. \A v \in Admin!Places : to(brokers.leader, v) \in [Topics -> Admin!Places]
  BY <1>1
<1> HIDE DEF done
<1>5. CASE r.api = "create_topics"
  BY <1>1, <1>3, <1>5 DEF Admin!applied, done
<1>6. CASE r.api = "delete_topics"
  BY <1>1, <1>3, <1>6 DEF Admin!applied, done
<1>7. CASE r.api = "create_partitions"
  BY <1>1, <1>3, <1>7 DEF Admin!applied, done
<1>8. CASE r.api = "perform_leader_election"
  BY <1>1, <1>2, <1>4, <1>8 DEF Admin!applied, done
<1>9. CASE r.api = "delete_consumer_groups"
  BY <1>1, <1>9 DEF Admin!applied, done
<1>10. CASE r.api \notin {"create_topics", "delete_topics", "create_partitions", "perform_leader_election", "delete_consumer_groups"}
  BY <1>1, <1>10 DEF Admin!applied
<1>11. QED
  BY <1>5, <1>6, <1>7, <1>8, <1>9, <1>10

LEMMA Handling ==
    ASSUME AdminInv, Admin!Busy, NEW i \in DOMAIN round, round[i].state = "sent"
    PROVE  /\ Admin!handled(round[i]) \in [calls : Nat, moves : Nat, handled : Nat, done : SUBSET Admin!Names, controllers : SUBSET Admin!Places,
                                     were : [ConsumerGroups \cup Topics -> SUBSET Admin!Places]]
           /\ Admin!handled(round[i]).were = h.were /\ Admin!handled(round[i]).controllers = h.controllers
           /\ Admin!handled(round[i]).handled = IF round[i].api \in Admin!Commands /\ brokers.controller = round[i].at THEN 1 ELSE 0
           /\ Admin!handled(round[i]).done = h.done \cup {n \in round[i].names : round[i].api = call.op /\ Admin!ok(Admin!name_error(round[i], n))}
<1>1. round[i].names \subseteq Admin!Names /\ h.handled = 0
  BY Kinds DEF Requests, AdminInv, CommandsOK
<1> DEFINE n1 == IF round[i].api \in Admin!Commands /\ brokers.controller = round[i].at THEN 1 ELSE 0
           d == {n \in round[i].names : round[i].api = call.op /\ Admin!ok(Admin!name_error(round[i], n))}
<1>2. Admin!handled(round[i]) = [h EXCEPT !.handled = @ + n1, !.done = @ \cup d]
  BY DEF Admin!handled
<1>3. n1 \in {0, 1} /\ d \subseteq Admin!Names
  BY <1>1
<1>4. h \in [calls : Nat, moves : Nat, handled : Nat, done : SUBSET Admin!Names, controllers : SUBSET Admin!Places,
             were : [ConsumerGroups \cup Topics -> SUBSET Admin!Places]]
  BY DEF AdminInv, BrokersOK
<1> HIDE DEF n1, d
<1>5. h.handled + n1 = n1 /\ h.handled + n1 \in Nat /\ h.done \cup d \in SUBSET Admin!Names
  BY <1>1, <1>3, <1>4
<1>6. QED
  BY <1>2, <1>4, <1>5 DEF n1, d

LEMMA NotNode == ASSUME Admin!AdminAssumption PROVE Admin!AnyNode \notin Admin!Places /\ Admin!NoBroker \notin Brokers /\ Admin!AnyNode # Admin!NoBroker
BY DEF Admin!AdminAssumption, Admin!AnyNode, Admin!NoBroker, Admin!Places

LEMMA StepServe == ASSUME AdminInv, Admin!Serve PROVE AdminInv'
<1>1. PICK i \in DOMAIN round :
        /\ round[i].state = "sent" /\ round[i].at \in brokers.up
        /\ brokers' = Admin!applied(round[i]) /\ h' = Admin!handled(round[i])
        /\ \/ round' = [round EXCEPT ![i].state = "succeeded", ![i].answer = Admin!answer(round[i])]
           \/ round' = [round EXCEPT ![i].state = "failed"]
  BY DEF Admin!Serve
<1>2. UNCHANGED <<c, call, later, abandoned>>
  BY DEF Admin!Serve
<1>3. Admin!Busy
  BY <1>1 DEF AdminInv, CallOK
<1> DEFINE r0 == round[i]
           r2 == [r0 EXCEPT !.state = "failed"]
<1>3a. PICK r1 : r1 = [r0 EXCEPT !.state = "succeeded", !.answer = Admin!answer(r0)]
  OBVIOUS
<1>4. r0 \in Requests /\ r0.at \in Brokers /\ r0.node \in {Admin!AnyNode, r0.at} /\ Belongs(r0.api, call.op)
  BY <1>1, <1>3, Kinds DEF AdminInv, RoundOK, Asks
<1>5. /\ Admin!answer(r0) \in Answers /\ \A n \in r0.names : Admin!name_error(r0, n) \in Errors
      /\ DOMAIN Admin!answer(r0).errors = r0.names /\ DOMAIN Admin!answer(r0).nodes = r0.names
      /\ \A n \in r0.names : Admin!answer(r0).errors[n] = Admin!name_error(r0, n)
      /\ r0.api = "find_coordinator" => \A n \in r0.names : Admin!answer(r0).nodes[n] = brokers.coordinator[n]
      /\ r0.api = "metadata" => \A n \in r0.names : Admin!answer(r0).nodes[n] = brokers.leader[n]
      /\ Admin!answer(r0).controller = brokers.controller
      /\ Admin!answer(r0).groups = {g \in brokers.groups : brokers.coordinator[g] = r0.at}
  BY <1>3, Answering
<1>6. /\ brokers' \in [up : SUBSET Brokers, controller : Admin!Places, partitions : [Topics -> 0 .. 2],
                       leader : [Topics -> Admin!Places], coordinator : [ConsumerGroups -> Brokers], groups : SUBSET ConsumerGroups]
      /\ brokers'.controller = brokers.controller /\ brokers'.coordinator = brokers.coordinator
      /\ brokers'.up = brokers.up /\ brokers'.groups \subseteq brokers.groups
      /\ r0.api # "perform_leader_election" => brokers'.leader = brokers.leader
  BY <1>1, <1>4, Applying
<1>7. /\ h' \in [calls : Nat, moves : Nat, handled : Nat, done : SUBSET Admin!Names, controllers : SUBSET Admin!Places,
                 were : [ConsumerGroups \cup Topics -> SUBSET Admin!Places]]
      /\ h'.were = h.were /\ h'.controllers = h.controllers
      /\ h'.handled = IF r0.api \in Admin!Commands /\ brokers.controller = r0.at THEN 1 ELSE 0
      /\ h'.done = h.done \cup {n \in r0.names : r0.api = call.op /\ Admin!ok(Admin!name_error(r0, n))}
  BY <1>1, <1>3, Handling
<1>8. BrokersOK'
  BY <1>2, <1>6, <1>7 DEF AdminInv, BrokersOK
<1>9. r0.api = "perform_leader_election" => call.op = "perform_leader_election"
  BY <1>3, Kinds DEF Admin!Operations, Admin!Commands
<1>10. WereOK'
  <2>1. r0.names \subseteq Admin!ToSet(call.names) /\ Admin!ToSet(call.names)' = Admin!ToSet(call.names)
    BY <1>2, <1>3, Kinds DEF Admin!ToSet
  <2>2. h'.handled <= 1
    BY <1>7
  <2>3. h'.done \subseteq Admin!ToSet(call.names) /\ brokers'.controller \in h'.controllers
    BY <1>3, <1>6, <1>7, <2>1 DEF AdminInv, WereOK
  <2>4. \A g \in ConsumerGroups : brokers'.coordinator[g] \in h'.were[g]
    BY <1>3, <1>6, <1>7 DEF AdminInv, WereOK
  <2>5. call.op # "perform_leader_election" => \A t \in Topics : brokers'.leader[t] \in h'.were[t]
    BY <1>3, <1>6, <1>7, <1>9 DEF AdminInv, WereOK
  <2>6. QED
    BY <1>2, <2>1, <2>2, <2>3, <2>4, <2>5 DEF WereOK
<1>11. r1 \in Requests /\ r2 \in Requests
  BY <1>4, <1>5, <1>3a DEF Requests
<1>12. h.handled = 0
  BY <1>1, <1>3 DEF AdminInv, CommandsOK
<1>13. AnsweredRightly(r1)'
  <2>1. /\ r1.api = r0.api /\ r1.names = r0.names /\ r1.at = r0.at /\ r1.answer = Admin!answer(r0)
    BY <1>4, <1>3a DEF Requests
  <2>2. r0.api = call.op => \A n \in r0.names : Admin!ok(Admin!name_error(r0, n)) => n \in h'.done
    BY <1>7
  <2>3. r0.api \in Admin!GroupOps => \A n \in r0.names : Admin!name_error(r0, n) # "election_not_needed"
    BY DEF Admin!name_error, Admin!GroupOps, Admin!Commands
  <2>4. \A n \in r0.names : Admin!name_error(r0, n) = "not_controller" => r0.api \in Admin!Commands /\ brokers.controller # r0.at
    BY DEF Admin!name_error, Admin!command_error, Admin!GroupOps, Admin!Commands
  <2>5. \A n \in r0.names : Admin!name_error(r0, n) = "not_controller" =>
            r0.api \in Admin!Commands /\ h'.handled = 0 /\ \E a \in h'.controllers : a # r0.at
    BY <1>3, <1>7, <2>4 DEF AdminInv, WereOK
  <2>6. r0.api = "find_coordinator" \/ (r0.api = "metadata" /\ call.op = "delete_records") =>
            \A n \in r0.names : Admin!answer(r0).nodes[n] \in h'.were[n]
    BY <1>3, <1>5, <1>7, Kinds DEF AdminInv, WereOK
  <2>7. brokers.controller \in h'.controllers
    BY <1>3, <1>7 DEF AdminInv, WereOK
  <2>8. \A g \in brokers'.groups : h'.were[g] = {r0.at} => g \in Admin!answer(r0).groups
    BY <1>3, <1>5, <1>6, <1>7 DEF AdminInv, WereOK, BrokersOK
  <2> HIDE DEF r0
  <2>9. QED
    BY <1>2, <1>5, <2>1, <2>2, <2>3, <2>5, <2>6, <2>7, <2>8 DEF AnsweredRightly, Admin!ok, Admin!Commands, Admin!GroupOps
<1>14. \A n \in h'.done \ h.done : Admin!ok(r1.answer.errors[n])
  BY <1>4, <1>5, <1>7, <1>3a DEF Requests
<1>15. r0.api \notin Admin!Commands => h'.handled = h.handled
  BY <1>7, <1>12
<1>16. (r0.api = call.op => h'.done \subseteq h.done \cup r0.names) /\ (r0.api # call.op => h'.done = h.done) /\ h.done \subseteq h'.done
  BY <1>7
<1>17. CASE round' = [round EXCEPT ![i].state = "succeeded", ![i].answer = Admin!answer(round[i])]
  <2>1. round' = [round EXCEPT ![i] = r1]
    BY <1>17, <1>3a
  <2>2. r1.api = r0.api /\ r1.names = r0.names /\ r1.node = r0.node /\ r1.at = r0.at /\ r1.state = "succeeded"
    BY <1>4, <1>3a DEF Requests
  <2>3. QED
    BY <1>1, <1>2, <1>3, <1>4, <1>6, <1>7, <1>8, <1>10, <1>11, <1>13, <1>14, <1>15, <1>16, <2>1, <2>2, Changes
<1>18. CASE round' = [round EXCEPT ![i].state = "failed"]
  <2>1. round' = [round EXCEPT ![i] = r2]
    BY <1>18
  <2>2. r2.api = r0.api /\ r2.names = r0.names /\ r2.node = r0.node /\ r2.at = r0.at /\ r2.state = "failed"
    BY <1>4 DEF Requests
  <2> HIDE DEF r2
  <2>3. QED
    BY <1>1, <1>2, <1>3, <1>4, <1>6, <1>7, <1>8, <1>10, <1>11, <1>15, <1>16, <2>1, <2>2, Changes
<1>19. QED
  BY <1>1, <1>17, <1>18

\* What is unchanged stays as it was.
LEMMA WereStays ==
    ASSUME AdminInv, UNCHANGED <<brokers, c, h, call>> PROVE BrokersOK' /\ WereOK'
<1>1. \A e : Admin!ok(e)' = Admin!ok(e)
  BY DEF Admin!ok
<1>2. QED
  BY DEF AdminInv, BrokersOK, WereOK, Admin!Busy, Admin!ToSet

LEMMA StepLose == ASSUME AdminInv, Admin!Lose PROVE AdminInv'
<1>1. PICK i \in DOMAIN round : round[i].state = "sent" /\ round' = [round EXCEPT ![i].state = "failed"]
  BY DEF Admin!Lose
<1>2. UNCHANGED <<brokers, c, call, later, abandoned, h>>
  BY DEF Admin!Lose
<1>3. Admin!Busy
  BY <1>1 DEF AdminInv, CallOK
<1> DEFINE r0 == round[i]
           r2 == [r0 EXCEPT !.state = "failed"]
<1>4. r0 \in Requests /\ r0.at \in Brokers /\ r0.node \in {Admin!AnyNode, r0.at}
  BY <1>1, <1>3, Kinds DEF AdminInv, RoundOK
<1>5. r2 \in Requests /\ r2.api = r0.api /\ r2.names = r0.names /\ r2.node = r0.node /\ r2.at = r0.at /\ r2.state = "failed"
  BY <1>4 DEF Requests
<1>6. round' = [round EXCEPT ![i] = r2]
  BY <1>1
<1>7. BrokersOK' /\ WereOK'
  BY <1>2, WereStays
<1> HIDE DEF r2
<1>8. QED
  BY <1>1, <1>2, <1>3, <1>4, <1>5, <1>6, <1>7, Changes

LEMMA StepSend == ASSUME Admin!AdminAssumption, AdminInv, Admin!send PROVE AdminInv'
<1>0. PICK i \in DOMAIN round : /\ round[i].state = "new"
        /\ \E at \in IF round[i].node = Admin!AnyNode THEN Brokers ELSE {round[i].node} :
              \/ /\ at \in brokers.up
                 /\ round' = [round EXCEPT ![i].state = "sent", ![i].at = at] /\ UNCHANGED <<call, later, abandoned>>
              \/ Admin!raises("connection") \/ Admin!raises("node_not_ready")
  BY DEF Admin!send
<1>1. PICK at \in Brokers \cup {round[i].node} :
        /\ round[i].state = "new" /\ (round[i].node = Admin!AnyNode => at \in Brokers) /\ (round[i].node # Admin!AnyNode => at = round[i].node)
        /\ \/ /\ at \in brokers.up
              /\ round' = [round EXCEPT ![i].state = "sent", ![i].at = at] /\ UNCHANGED <<call, later, abandoned>>
           \/ Admin!raises("connection") \/ Admin!raises("node_not_ready")
  BY <1>0
<1>2. UNCHANGED <<brokers, c, h>> /\ Admin!Busy
  BY DEF Admin!send
<1>3. CASE /\ at \in brokers.up
          /\ round' = [round EXCEPT ![i].state = "sent", ![i].at = at] /\ UNCHANGED <<call, later, abandoned>>
  <2> DEFINE r0 == round[i]
             r1 == [r0 EXCEPT !.state = "sent", !.at = at]
  <2>1. r0 \in Requests /\ at \in Brokers /\ r0.node \in {Admin!AnyNode, at}
    BY <1>1, <1>2, <1>3, Kinds DEF AdminInv, BrokersOK
  <2>2. r1 \in Requests /\ r1.api = r0.api /\ r1.names = r0.names /\ r1.node = r0.node /\ r1.at = at /\ r1.state = "sent"
    BY <2>1 DEF Requests, Admin!Places
  <2>3. round' = [round EXCEPT ![i] = r1] /\ UNCHANGED <<call, later, abandoned>>
    BY <1>1, <1>3
  <2>4. BrokersOK' /\ WereOK'
    BY <1>2, <2>3, WereStays
  <2> HIDE DEF r1
  <2>5. QED
    BY <1>1, <1>2, <2>1, <2>2, <2>3, <2>4, Changes
<1>4. ASSUME NEW error \in {"connection", "node_not_ready"}, Admin!raises(error) PROVE AdminInv'
  <2>1. error \in Raised /\ error # "not_controller"
    BY <1>4 DEF Raised
  <2>2. QED
    BY <1>2, <1>4, <2>1, Raises
<1>5. QED
  BY <1>1, <1>3, <1>4

LEMMA StepWait == ASSUME AdminInv, Admin!_wait_for_futures PROVE AdminInv'
<1>1. Admin!raises("connection") /\ "connection" \in Raised /\ UNCHANGED <<brokers, c, h>> /\ Admin!Busy
  BY DEF Admin!_wait_for_futures, Raised
<1>2. QED
  BY <1>1, Raises

\* The cluster changes under a call: where things are is where they were, and no group is new.
LEMMA Beneath ==
    ASSUME AdminInv, UNCHANGED <<c, call, round, later>>, abandoned' \subseteq abandoned, BrokersOK', WereOK',
           brokers'.groups \subseteq brokers.groups, ~Admin!Busy => h' = h,
           h'.handled = h.handled, h'.done = h.done, h.controllers \subseteq h'.controllers,
           \A n \in ConsumerGroups \cup Topics : h.were[n] \subseteq h'.were[n]
    PROVE  AdminInv'
<1>1. /\ (Admin!Busy' <=> Admin!Busy) /\ (\A e : Admin!ok(e)' = Admin!ok(e)) /\ Admin!ToSet(call.names)' = Admin!ToSet(call.names)
  BY DEF Admin!Busy, Admin!ok, Admin!ToSet
<1>2. CallOK'
  <2>1. Admin!IsCall(call) => Admin!IsCall(call)'
    BY DEF Admin!IsCall
  <2>2. QED
    BY <1>1, <2>1 DEF AdminInv, CallOK
<1>3. RoundOK'
  <2> SUFFICES ASSUME Admin!Busy PROVE RoundOK'
    BY <1>1 DEF RoundOK
  <2>1. 1 \in DOMAIN round /\ Asks(round, call, h.were, c.brokers) /\ round # <<>>
    BY RoundType DEF AdminInv, RoundOK, Asks
  <2>2. \A i \in DOMAIN round : round[i].api \in Admin!GroupOps \cup {"delete_records"} =>
            \A n \in round[i].names : h.were[n] \subseteq h'.were[n]
    <3>1. \A i \in DOMAIN round : round[i].api \in Admin!GroupOps \cup {"delete_records"} => round[i].names \subseteq ConsumerGroups \cup Topics
      BY Kinds
    <3>2. QED
      BY <3>1
  <2>3. Asks(round, call, h'.were, c.brokers)
    BY <2>1, <2>2, AsksSame
  <2>6. Asks(round', call', h'.were, c'.brokers)
    BY <2>3
  <2>4. Asks(round, call, h.were, c.brokers)'
    BY <2>6 DEF Asks, Belongs, Admin!ToSet
  <2>5. QED
    BY <2>4 DEF AdminInv, RoundOK
<1>4. CommandsOK' /\ DeletedOK'
  BY <1>1 DEF AdminInv, CommandsOK, DeletedOK, Admin!Commands, Admin!tries_left
<1>5. RecordsOK'
  <2> SUFFICES ASSUME Admin!Busy PROVE RecordsOK'
    BY <1>1 DEF RecordsOK
  <2>1. \A k \in DOMAIN later : later[k].names \subseteq ConsumerGroups \cup Topics
    <3>1. CASE round[1].api = "delete_records"
      <4>1. UNION {later[k].names : k \in DOMAIN later} \subseteq Admin!ToSet(call.names)
        BY <3>1 DEF AdminInv, RecordsOK
      <4>2. Admin!ToSet(call.names) \subseteq Topics
        BY <3>1, Kinds, RoundType, InCall DEF Admin!Operations
      <4>3. QED
        BY <4>1, <4>2
    <3>2. CASE round[1].api # "delete_records"
      <4>1. Belongs(round[1].api, call.op)
        BY RoundType DEF AdminInv, RoundOK, Asks
      <4>2. later = <<>>
        BY <3>2, <4>1 DEF AdminInv, RecordsOK, Belongs, Admin!Commands, Admin!GroupOps
      <4>3. QED
        BY <4>2, Nothing
    <3>3. QED
      BY <3>1, <3>2
  <2>2. \A k \in DOMAIN later : call.node = Admin!AnyNode => \A n \in later[k].names : later[k].node \in h'.were[n]
    BY <2>1 DEF AdminInv, RecordsOK
  <2>3. QED
    BY <1>1, <2>2 DEF AdminInv, RecordsOK, Admin!AnyNode
<1>6. AnswersOK'
  <2> SUFFICES ASSUME Admin!Busy, NEW i \in DOMAIN round, round[i].state = "succeeded" PROVE AnsweredRightly(round[i])'
    BY <1>1 DEF AnswersOK
  <2>1. AnsweredRightly(round[i])
    BY DEF AdminInv, AnswersOK
  <2>2. \A g \in brokers'.groups : h'.were[g] = {round[i].at} => g \in brokers.groups /\ h.were[g] = {round[i].at}
    BY DEF AdminInv, BrokersOK, WereOK
  <2>3. round[i].api \in {"find_coordinator", "metadata"} => round[i].names \subseteq ConsumerGroups \cup Topics
    BY Kinds
  <2>4. QED
    BY <1>1, <2>1, <2>2, <2>3 DEF AnsweredRightly, Admin!Commands, Admin!GroupOps
<1>7. EndsOK'
  BY <1>1 DEF AdminInv, EndsOK, Admin!ReturnedIsDone, Admin!OutdatedIsRefreshed, Admin!ListComplete, Admin!Returned, Admin!Busy, Admin!Commands
<1>8. QED
  BY <1>2, <1>3, <1>4, <1>5, <1>6, <1>7 DEF AdminInv

LEMMA StepAbandoned == ASSUME AdminInv, Admin!ServeAbandoned PROVE AdminInv'
<1>1. PICK r \in abandoned : brokers' = (IF r.at \in brokers.up THEN Admin!applied(r) ELSE brokers) /\ abandoned' = abandoned \ {r}
  BY DEF Admin!ServeAbandoned
<1>2. UNCHANGED <<c, call, round, later, h>>
  BY DEF Admin!ServeAbandoned
<1>3. r \in Requests /\ (r.api = "perform_leader_election" => call.op = r.api)
  BY DEF AdminInv, CallOK
<1>4. brokers \in [up : SUBSET Brokers, controller : Admin!Places, partitions : [Topics -> 0 .. 2],
                   leader : [Topics -> Admin!Places], coordinator : [ConsumerGroups -> Brokers], groups : SUBSET ConsumerGroups]
  BY DEF AdminInv, BrokersOK
<1>5. /\ brokers' \in [up : SUBSET Brokers, controller : Admin!Places, partitions : [Topics -> 0 .. 2],
                       leader : [Topics -> Admin!Places], coordinator : [ConsumerGroups -> Brokers], groups : SUBSET ConsumerGroups]
      /\ brokers'.controller = brokers.controller /\ brokers'.coordinator = brokers.coordinator
      /\ brokers'.groups \subseteq brokers.groups
      /\ r.api # "perform_leader_election" => brokers'.leader = brokers.leader
  BY <1>1, <1>3, <1>4, Applying
<1>6. BrokersOK'
  BY <1>2, <1>5 DEF AdminInv, BrokersOK
<1>7. WereOK'
  BY <1>2, <1>3, <1>5 DEF AdminInv, WereOK, Admin!Busy, Admin!ToSet
<1>8. QED
  BY <1>1, <1>2, <1>5, <1>6, <1>7, Beneath

LEMMA StepMove == ASSUME AdminInv, Admin!Move PROVE AdminInv'
<1>1. Admin!Busy /\ UNCHANGED <<c, call, round, later, abandoned>>
  BY DEF Admin!Move
<1>2. /\ brokers \in [up : SUBSET Brokers, controller : Admin!Places, partitions : [Topics -> 0 .. 2],
                      leader : [Topics -> Admin!Places], coordinator : [ConsumerGroups -> Brokers], groups : SUBSET ConsumerGroups]
      /\ h \in [calls : Nat, moves : Nat, handled : Nat, done : SUBSET Admin!Names, controllers : SUBSET Admin!Places,
                were : [ConsumerGroups \cup Topics -> SUBSET Admin!Places]]
  BY DEF AdminInv, BrokersOK
<1>3. /\ h.handled <= 1 /\ h.done \subseteq Admin!ToSet(call.names) /\ brokers.controller \in h.controllers
      /\ \A g \in ConsumerGroups : brokers.coordinator[g] \in h.were[g]
      /\ call.op # "perform_leader_election" => \A t \in Topics : brokers.leader[t] \in h.were[t]
  BY <1>1 DEF AdminInv, WereOK
<1>4. /\ brokers' \in [up : SUBSET Brokers, controller : Admin!Places, partitions : [Topics -> 0 .. 2],
                       leader : [Topics -> Admin!Places], coordinator : [ConsumerGroups -> Brokers], groups : SUBSET ConsumerGroups]
      /\ h' \in [calls : Nat, moves : Nat, handled : Nat, done : SUBSET Admin!Names, controllers : SUBSET Admin!Places,
                 were : [ConsumerGroups \cup Topics -> SUBSET Admin!Places]]
      /\ brokers'.groups = brokers.groups /\ h'.handled = h.handled /\ h'.done = h.done /\ h.controllers \subseteq h'.controllers
      /\ \A n \in ConsumerGroups \cup Topics : h.were[n] \subseteq h'.were[n]
      /\ brokers'.controller \in h'.controllers
      /\ \A g \in ConsumerGroups : brokers'.coordinator[g] \in h'.were[g]
      /\ call.op # "perform_leader_election" => \A t \in Topics : brokers'.leader[t] \in h'.were[t]
  <2>1. ASSUME NEW a \in brokers.up \cup {Admin!NoBroker}, brokers' = [brokers EXCEPT !.controller = a],
               h' = [h EXCEPT !.moves = @ + 1, !.controllers = @ \cup {a}]
        PROVE  <1>4
    <3>1. a \in Admin!Places
      BY <1>2 DEF Admin!Places
    <3>2. /\ brokers' \in [up : SUBSET Brokers, controller : Admin!Places, partitions : [Topics -> 0 .. 2],
                           leader : [Topics -> Admin!Places], coordinator : [ConsumerGroups -> Brokers], groups : SUBSET ConsumerGroups]
          /\ brokers'.groups = brokers.groups /\ brokers'.controller = a
          /\ brokers'.coordinator = brokers.coordinator /\ brokers'.leader = brokers.leader
      BY <1>2, <2>1, <3>1
    <3>3. /\ h' \in [calls : Nat, moves : Nat, handled : Nat, done : SUBSET Admin!Names, controllers : SUBSET Admin!Places,
                     were : [ConsumerGroups \cup Topics -> SUBSET Admin!Places]]
          /\ h'.handled = h.handled /\ h'.done = h.done /\ h'.controllers = h.controllers \cup {a} /\ h'.were = h.were
      <4>1. h.moves + 1 \in Nat /\ h.controllers \cup {a} \in SUBSET Admin!Places
        BY <1>2, <3>1
      <4>2. QED
        BY <1>2, <2>1, <4>1
    <3>4. QED
      BY <1>3, <3>2, <3>3
  <2>2. ASSUME NEW g \in ConsumerGroups, NEW a \in brokers.up, brokers' = [brokers EXCEPT !.coordinator[g] = a], Admin!Moved(g, a)
        PROVE  <1>4
    <3>1. a \in Brokers /\ a \in Admin!Places
      BY <1>2 DEF Admin!Places
    <3>2. /\ brokers' \in [up : SUBSET Brokers, controller : Admin!Places, partitions : [Topics -> 0 .. 2],
                           leader : [Topics -> Admin!Places], coordinator : [ConsumerGroups -> Brokers], groups : SUBSET ConsumerGroups]
          /\ brokers'.groups = brokers.groups /\ brokers'.controller = brokers.controller
          /\ brokers'.coordinator = [brokers.coordinator EXCEPT ![g] = a] /\ brokers'.leader = brokers.leader
      BY <1>2, <2>2, <3>1
    <3>3. /\ h' \in [calls : Nat, moves : Nat, handled : Nat, done : SUBSET Admin!Names, controllers : SUBSET Admin!Places,
                     were : [ConsumerGroups \cup Topics -> SUBSET Admin!Places]]
          /\ h'.handled = h.handled /\ h'.done = h.done /\ h'.controllers = h.controllers
          /\ h'.were = [h.were EXCEPT ![g] = @ \cup {a}]
      <4>1. h.moves + 1 \in Nat /\ [h.were EXCEPT ![g] = @ \cup {a}] \in [ConsumerGroups \cup Topics -> SUBSET Admin!Places]
        BY <1>2, <3>1
      <4>2. h' = [h EXCEPT !.moves = h.moves + 1, !.were = [h.were EXCEPT ![g] = @ \cup {a}]]
        BY <1>2, <2>2 DEF Admin!Moved
      <4>3. QED
        BY <1>2, <4>1, <4>2
    <3>4. \A n \in ConsumerGroups \cup Topics : h'.were[n] = IF n = g THEN h.were[n] \cup {a} ELSE h.were[n]
      BY <1>2, <3>3
    <3>5. QED
      BY <1>2, <1>3, <3>2, <3>3, <3>4
  <2>3. ASSUME NEW t \in Topics, NEW a \in brokers.up \cup {Admin!NoBroker}, brokers' = [brokers EXCEPT !.leader[t] = a], Admin!Moved(t, a)
        PROVE  <1>4
    <3>1. a \in Admin!Places
      BY <1>2 DEF Admin!Places
    <3>2. /\ brokers' \in [up : SUBSET Brokers, controller : Admin!Places, partitions : [Topics -> 0 .. 2],
                           leader : [Topics -> Admin!Places], coordinator : [ConsumerGroups -> Brokers], groups : SUBSET ConsumerGroups]
          /\ brokers'.groups = brokers.groups /\ brokers'.controller = brokers.controller
          /\ brokers'.leader = [brokers.leader EXCEPT ![t] = a] /\ brokers'.coordinator = brokers.coordinator
      BY <1>2, <2>3, <3>1
    <3>3. /\ h' \in [calls : Nat, moves : Nat, handled : Nat, done : SUBSET Admin!Names, controllers : SUBSET Admin!Places,
                     were : [ConsumerGroups \cup Topics -> SUBSET Admin!Places]]
          /\ h'.handled = h.handled /\ h'.done = h.done /\ h'.controllers = h.controllers
          /\ h'.were = [h.were EXCEPT ![t] = @ \cup {a}]
      <4>1. h.moves + 1 \in Nat /\ [h.were EXCEPT ![t] = @ \cup {a}] \in [ConsumerGroups \cup Topics -> SUBSET Admin!Places]
        BY <1>2, <3>1
      <4>2. h' = [h EXCEPT !.moves = h.moves + 1, !.were = [h.were EXCEPT ![t] = @ \cup {a}]]
        BY <1>2, <2>3 DEF Admin!Moved
      <4>3. QED
        BY <1>2, <4>1, <4>2
    <3>4. \A n \in ConsumerGroups \cup Topics : h'.were[n] = IF n = t THEN h.were[n] \cup {a} ELSE h.were[n]
      BY <1>2, <3>3
    <3>5. QED
      BY <1>2, <1>3, <3>2, <3>3, <3>4
  <2>4. ASSUME NEW a \in brokers.up, brokers' = [brokers EXCEPT !.up = @ \ {a}], h' = [h EXCEPT !.moves = @ + 1]
        PROVE  <1>4
    BY <1>2, <1>3, <2>4
  <2>5. QED
    BY <2>1, <2>2, <2>3, <2>4 DEF Admin!Move
<1>5. BrokersOK'
  BY <1>1, <1>4 DEF AdminInv, BrokersOK
<1>6. WereOK'
  BY <1>1, <1>3, <1>4 DEF WereOK, Admin!ToSet
<1>7. QED
  BY <1>1, <1>4, <1>5, <1>6, Beneath

-----------------------------------------------------------------------------

(* The client. *)

\* What is answered, of a round that has succeeded.
LEMMA Succeeded ==
    ASSUME AdminInv, NEW api, Admin!Answered(api), NEW i \in DOMAIN round
    PROVE  /\ Admin!Busy /\ round[i] \in Requests /\ round[i].api = api /\ AnsweredRightly(round[i]) /\ round[i].answer \in Answers
           /\ round[i].answer.errors \in [round[i].names -> Errors] /\ round[i].answer.nodes \in [round[i].names -> Admin!Places]
           /\ round[i].at \in Brokers /\ round[i].node \in {Admin!AnyNode, round[i].at}
<1>1. Admin!Busy /\ round[i].state = "succeeded" /\ round[i].api = api
  BY DEF Admin!Answered
<1>2. round[i] \in Requests /\ AnsweredRightly(round[i]) /\ round[i].at \in Brokers /\ round[i].node \in {Admin!AnyNode, round[i].at}
  BY <1>1, Kinds DEF AdminInv, AnswersOK, RoundOK
<1>3. round[i].answer \in Answers
  BY <1>2 DEF Requests
<1>4. DOMAIN round[i].answer.errors = round[i].names /\ DOMAIN round[i].answer.nodes = round[i].names
  BY <1>2 DEF AnsweredRightly
<1>5. round[i].answer.errors \in Results /\ round[i].answer.nodes \in Found
  BY <1>3 DEF Answers
<1>6. PICK S \in SUBSET Admin!Names : round[i].answer.errors \in [S -> Errors]
  BY <1>5 DEF Results
<1>7. PICK T \in SUBSET Admin!Names : round[i].answer.nodes \in [T -> Admin!Places]
  BY <1>5 DEF Found
<1>8. QED
  BY <1>1, <1>2, <1>3, <1>4, <1>6, <1>7

\* A request has no error if nothing it asks for has.
LEMMA InOrder ==
    ASSUME AdminInv, NEW api, Admin!Answered(api), NEW i \in DOMAIN round
    PROVE  IF Admin!errors_in_order[i] = "none" THEN \A n \in round[i].names : Admin!ok(round[i].answer.errors[n])
           ELSE /\ Admin!errors_in_order[i] \in Errors
                /\ \E n \in round[i].names : round[i].answer.errors[n] = Admin!errors_in_order[i]
<1> DEFINE es == Admin!Range(round[i].answer.errors)
<1>1. round[i].answer.errors \in [round[i].names -> Errors]
  BY Succeeded
<1>2. es = {round[i].answer.errors[n] : n \in round[i].names} /\ es \subseteq Errors
  BY <1>1 DEF Admin!Range
<1>3. Admin!errors_in_order[i] = IF es \subseteq {"none", "election_not_needed"} THEN "none" ELSE CHOOSE e \in es : ~Admin!ok(e)
  BY DEF Admin!errors_in_order
<1> HIDE DEF es
<1>4. CASE es \subseteq {"none", "election_not_needed"}
  BY <1>2, <1>3, <1>4 DEF Admin!ok
<1>5. CASE ~(es \subseteq {"none", "election_not_needed"})
  <2>1. Admin!errors_in_order[i] = CHOOSE e \in es : ~Admin!ok(e)
    BY <1>3, <1>5
  <2>2. \E e \in es : ~Admin!ok(e)
    BY <1>5 DEF Admin!ok
  <2>3. Admin!errors_in_order[i] \in es /\ ~Admin!ok(Admin!errors_in_order[i])
    BY <2>1, <2>2
  <2>4. Admin!errors_in_order[i] # "none"
    BY <2>3 DEF Admin!ok
  <2>5. QED
    BY <1>2, <2>3, <2>4
<1>6. QED
  BY <1>4, <1>5

LEMMA ErrorsOfAll ==
    ASSUME AdminInv, NEW api, Admin!Answered(api)
    PROVE  /\ Admin!errors_of_all \in Results
           /\ DOMAIN Admin!errors_of_all = UNION {round[i].names : i \in DOMAIN round}
           /\ \A n \in DOMAIN Admin!errors_of_all : \E i \in DOMAIN round : n \in round[i].names /\ Admin!errors_of_all[n] = round[i].answer.errors[n]
<1> DEFINE D == UNION {DOMAIN round[i].answer.errors : i \in DOMAIN round}
           of(n) == CHOOSE i \in DOMAIN round : n \in DOMAIN round[i].answer.errors
<1>1. \A i \in DOMAIN round : round[i].answer.errors \in [round[i].names -> Errors] /\ round[i].names \subseteq Admin!Names
  BY Succeeded DEF Requests
<1>2. D = UNION {round[i].names : i \in DOMAIN round} /\ D \subseteq Admin!Names
  <2>1. \A i \in DOMAIN round : DOMAIN round[i].answer.errors = round[i].names
    BY <1>1
  <2>2. D = UNION {round[i].names : i \in DOMAIN round}
    BY <2>1
  <2>3. QED
    BY <1>1, <2>2
<1>3. \A n \in D : of(n) \in DOMAIN round /\ n \in round[of(n)].names
  <2>1. \A n \in D : \E i \in DOMAIN round : n \in DOMAIN round[i].answer.errors
    OBVIOUS
  <2>2. \A n \in D : of(n) \in DOMAIN round /\ n \in DOMAIN round[of(n)].answer.errors
    BY <2>1
  <2>3. QED
    BY <1>1, <2>2
<1>4. Admin!errors_of_all = [n \in D |-> round[of(n)].answer.errors[n]]
  BY DEF Admin!errors_of_all
<1> HIDE DEF D, of
<1>5. Admin!errors_of_all \in [D -> Errors]
  BY <1>1, <1>3, <1>4
<1>6. QED
  BY <1>2, <1>3, <1>4, <1>5 DEF Results

\* The next round of a call.
LEMMA Sends ==
    ASSUME AdminInv, Admin!Busy, round' \in Seq(Requests), later' \in Seq(Requests), \A i \in DOMAIN round' : round'[i].state = "new",
           call' \in CallRecords, call'.op = call.op, call'.names = call.names, call'.node = call.node, call'.state = call.state,
           UNCHANGED <<brokers, h, abandoned>>, c' \in [controller_id : Brokers, brokers : (SUBSET Brokers) \ {{}}], c'.brokers = c.brokers,
           Asks(round', call, h.were, c.brokers), CommandsOK', RecordsOK',
           call.op = "delete_consumer_groups" => h.done = {}
    PROVE  AdminInv'
<1>1. Admin!Busy'
  BY DEF Admin!Busy
<1>2. BrokersOK'
  BY DEF AdminInv, BrokersOK
<1>3. CallOK'
  <2>1. Admin!IsCall(call)'
    BY DEF AdminInv, CallOK, Admin!Busy, Admin!IsCall
  <2>2. QED
    BY <1>1, <2>1 DEF AdminInv, CallOK, Admin!Busy
<1>4. RoundOK'
  <2>1. round' # <<>> /\ 1 \in DOMAIN round'
    BY DEF Asks
  <2>2. \A i \in DOMAIN round' : round'[i].api \in Admin!GroupOps \cup {"delete_records"} => \A n \in round'[i].names : h.were[n] \subseteq h'.were[n]
    OBVIOUS
  <2>3. Asks(round', call', h'.were, c.brokers)
    BY <2>1, <2>2, AsksSame
  <2>4. Asks(round', call', h'.were, c'.brokers)
    BY <2>3
  <2>5. Asks(round, call, h.were, c.brokers)'
    BY <2>4 DEF Asks, Belongs, Admin!ToSet
  <2>6. QED
    BY <1>1, <2>5 DEF RoundOK
<1>5. DeletedOK' /\ AnswersOK'
  BY DEF DeletedOK, AnswersOK
<1>6. WereOK'
  BY <1>1 DEF AdminInv, WereOK, Admin!ToSet
<1>7. EndsOK'
  BY <1>1 DEF EndsOK, Admin!ReturnedIsDone, Admin!OutdatedIsRefreshed, Admin!ListComplete, Admin!Returned, Admin!Busy, Admin!Commands
<1>8. QED
  BY <1>2, <1>3, <1>4, <1>5, <1>6, <1>7 DEF AdminInv

\* One that is sent alone.
LEMMA Alone ==
    ASSUME NEW r \in Requests, r.state = "new"
    PROVE  /\ <<r>> \in Seq(Requests) /\ DOMAIN <<r>> = {1} /\ Len(<<r>>) = 1 /\ <<r>>[1] = r /\ <<r>> # <<>>
           /\ \A i \in DOMAIN <<r>> : <<r>>[i] = r
OBVIOUS

LEMMA TwoAreMore == ASSUME NEW S, IsFiniteSet(S), NEW a \in S, NEW d \in S, a # d PROVE Admin!Cardinality(S) > 1
<1>1. Cardinality(S) \in Nat /\ Cardinality(S) # 0 /\ Cardinality(S) # 1
  BY FS_CardinalityType, FS_EmptySet, FS_Singleton
<1>2. QED
  BY <1>1, AdminFinite

LEMMA Untouched == ASSUME AdminInv PROVE
    /\ call = [call EXCEPT !.errors = call.errors, !.listed = call.listed, !.described = call.described]
    /\ call.errors \in Results /\ call.listed \in SUBSET ConsumerGroups /\ call.described \in Seq(Admin!Names)
    /\ call \in CallRecords /\ c \in [controller_id : Brokers, brokers : (SUBSET Brokers) \ {{}}] /\ c.brokers \subseteq Brokers
BY DEF AdminInv, CallOK, CallRecords, BrokersOK

LEMMA ControllersFinite == ASSUME Admin!AdminAssumption, AdminInv PROVE IsFiniteSet(h.controllers)
<1>1. IsFiniteSet(Brokers)
  BY AdminFinite DEF Admin!AdminAssumption
<1>2. IsFiniteSet(Admin!Places)
  BY <1>1, FS_AddElement DEF Admin!Places
<1>3. h.controllers \in SUBSET Admin!Places
  BY DEF AdminInv, BrokersOK
<1>4. QED
  BY <1>2, <1>3, FS_Subset

LEMMA StepCommand == ASSUME Admin!AdminAssumption, AdminInv, Admin!_send_request_to_controller PROVE AdminInv'
<1>1. PICK op \in Admin!Commands : Admin!Answered(op)
  BY DEF Admin!_send_request_to_controller
<1>2. UNCHANGED <<brokers, c, h>>
  BY DEF Admin!_send_request_to_controller
<1> DEFINE error == Admin!errors_in_order[1]
           r == round[1]
<1>3. Admin!Busy /\ 1 \in DOMAIN round /\ call.op = op /\ Admin!IsCall(call)
  BY <1>1, RoundType, Kinds, Succeeded DEF Admin!Answered, Admin!Operations
<1>4. r \in Requests /\ r.api = op /\ AnsweredRightly(r) /\ r.at \in Brokers /\ r.node \in {Admin!AnyNode, r.at}
  BY <1>1, <1>3, Succeeded
<1>5. r.names = Admin!ToSet(call.names) /\ r.node \in Brokers
  BY <1>1, <1>3, <1>4 DEF AdminInv, RoundOK, Asks
<1>6. IF error = "none" THEN \A n \in r.names : Admin!ok(r.answer.errors[n])
      ELSE error \in Errors /\ \E n \in r.names : r.answer.errors[n] = error
  BY <1>1, <1>3, InOrder
<1>7. IF error = "none" THEN Admin!returns(call)
      ELSE IF Admin!is_outdated(error) THEN Admin!sends(<<Admin!Request("controller", {}, Admin!AnyNode)>>) /\ UNCHANGED call
      ELSE Admin!raises(error)
  BY DEF Admin!_send_request_to_controller
<1> HIDE DEF error, r
<1>8. CASE error = "none"
  <2>1. \A n \in Admin!ToSet(call.names) : n \in h.done
    BY <1>3, <1>4, <1>5, <1>6, <1>8 DEF AnsweredRightly
  <2>2. call.op \notin Admin!GroupOps \cup {"list_consumer_groups"}
    BY <1>3 DEF Admin!Commands, Admin!GroupOps
  <2>3. Admin!returns(call)
    BY <1>7, <1>8
  <2>4. QED
    BY <1>2, <1>3, <2>1, <2>2, <2>3, Untouched, Returns DEF Admin!GroupOps
<1>9. CASE error # "none" /\ Admin!is_outdated(error)
  <2>1. Admin!sends(<<Admin!Request("controller", {}, Admin!AnyNode)>>) /\ UNCHANGED call
    BY <1>7, <1>9
  <2> DEFINE q == Admin!Request("controller", {}, Admin!AnyNode)
             rs == <<q>>
  <2>2. q \in Requests /\ q.api = "controller" /\ q.names = {} /\ q.node = Admin!AnyNode /\ q.state = "new"
    <3>1. "controller" \in Apis /\ {} \in SUBSET Admin!Names /\ Admin!AnyNode \in Admin!Places \cup {Admin!AnyNode}
      BY DEF Apis
    <3>2. QED
      BY <3>1, RequestType
  <2> HIDE DEF q
  <2>3. rs \in Seq(Requests) /\ DOMAIN rs = {1} /\ Len(rs) = 1 /\ rs[1] = q /\ rs # <<>>
    BY <2>2, Alone
  <2>4. round' = rs /\ UNCHANGED <<abandoned, later>>
    BY <2>1 DEF Admin!sends, q
  <2> HIDE DEF rs
  <2>5. Asks(rs, call, h.were, c.brokers)
    BY <1>3, <2>2, <2>3 DEF Asks, Belongs, Admin!Commands, Admin!GroupOps
  <2>6. call.tries = Admin!tries_left /\ error = "not_controller"
    BY <1>9 DEF Admin!is_outdated, AdminInv, CallOK, CallRecords, Admin!tries_left
  <2>7. h.handled = 0
    BY <1>4, <1>6, <1>9, <2>6 DEF AnsweredRightly
  <2>8. CommandsOK'
    BY <1>2, <2>1, <2>2, <2>3, <2>4, <2>6, <2>7 DEF CommandsOK, Admin!Commands, Admin!tries_left
  <2>9. later = <<>>
    BY <1>3 DEF AdminInv, RecordsOK, Admin!Commands
  <2>10. RecordsOK'
    BY <2>2, <2>3, <2>4, <2>9 DEF RecordsOK
  <2>11. later' \in Seq(Requests)
    BY <2>4 DEF AdminInv, CallOK
  <2>12. call.op # "delete_consumer_groups"
    BY <1>3 DEF Admin!Commands
  <2>13. \A i \in DOMAIN rs : rs[i].state = "new"
    BY <2>2, <2>3
  <2>14. /\ round' \in Seq(Requests) /\ (\A i \in DOMAIN round' : round'[i].state = "new")
         /\ Asks(round', call, h.were, c.brokers)
    BY <2>3, <2>4, <2>5, <2>13
  <2>15. QED
    BY <1>2, <1>3, <2>1, <2>4, <2>8, <2>10, <2>11, <2>12, <2>14, Untouched, Sends
<1>10. CASE error # "none" /\ ~Admin!is_outdated(error)
  <2>1. Admin!raises(error) /\ error \in Raised
    BY <1>6, <1>7, <1>10 DEF Raised
  <2>2. ASSUME error = "not_controller" PROVE Admin!Cardinality(h.controllers) > 1
    <3>1. call.tries = 0
      BY <1>10, <2>2 DEF Admin!is_outdated
    <3>2. r.node \in h.controllers
      BY <1>1, <1>3, <1>4, <3>1 DEF AdminInv, CommandsOK, r
    <3>3. PICK a \in h.controllers : a # r.at
      BY <1>4, <1>6, <1>10, <2>2 DEF AnsweredRightly
    <3>4. r.node = r.at
      BY <1>4, <1>5, NotNode DEF Admin!Places
    <3>5. QED
      BY <3>2, <3>3, <3>4, ControllersFinite, TwoAreMore
  <2>3. QED
    BY <1>2, <1>3, <2>1, <2>2, Raises
<1>11. QED
  BY <1>8, <1>9, <1>10

LEMMA StepRefresh == ASSUME Admin!AdminAssumption, AdminInv, Admin!_refresh_controller_id PROVE AdminInv'
<1>1. Admin!Answered("controller") /\ UNCHANGED <<brokers, h>>
  BY DEF Admin!_refresh_controller_id
<1> DEFINE id == round[1].answer.controller
<1>2. Admin!Busy /\ 1 \in DOMAIN round
  BY <1>1, RoundType DEF Admin!Answered
<1>3. /\ round[1] \in Requests /\ round[1].api = "controller" /\ AnsweredRightly(round[1]) /\ Admin!IsCall(call)
      /\ call.op \in Admin!Commands /\ id \in h.controllers
  BY <1>1, <1>2, Succeeded, Kinds DEF AnsweredRightly
<1>4. call.tries = Admin!tries_left /\ h.handled = 0 /\ later = <<>> /\ call.op # "delete_consumer_groups"
  BY <1>2, <1>3 DEF AdminInv, CommandsOK, RecordsOK, Admin!Commands
<1>5. IF id = Admin!NoBroker
      THEN /\ \/ Admin!sends(<<Admin!Request("controller", {}, Admin!AnyNode)>>) /\ UNCHANGED call
              \/ Admin!raises("node_not_ready")
           /\ UNCHANGED c
      ELSE IF id \in brokers.up
      THEN /\ c' = [c EXCEPT !.controller_id = id]
           /\ call' = [call EXCEPT !.tries = @ - 1]
           /\ Admin!sends(<<Admin!Request(call.op, Admin!ToSet(call.names), id)>>)
      ELSE Admin!raises("connection") /\ UNCHANGED c
  BY DEF Admin!_refresh_controller_id
<1>6. ASSUME NEW error \in {"node_not_ready", "connection"}, Admin!raises(error), UNCHANGED c PROVE AdminInv'
  BY <1>1, <1>2, <1>6, Raises DEF Raised
<1>7. ASSUME Admin!sends(<<Admin!Request("controller", {}, Admin!AnyNode)>>), UNCHANGED <<call, c>> PROVE AdminInv'
  <2> DEFINE q == Admin!Request("controller", {}, Admin!AnyNode)
             rs == <<q>>
  <2>2. q \in Requests /\ q.api = "controller" /\ q.names = {} /\ q.node = Admin!AnyNode /\ q.state = "new"
    <3>1. "controller" \in Apis /\ {} \in SUBSET Admin!Names /\ Admin!AnyNode \in Admin!Places \cup {Admin!AnyNode}
      BY DEF Apis
    <3>2. QED
      BY <3>1, RequestType
  <2> HIDE DEF q
  <2>3. rs \in Seq(Requests) /\ DOMAIN rs = {1} /\ Len(rs) = 1 /\ rs[1] = q /\ rs # <<>>
    BY <2>2, Alone
  <2>4. round' = rs /\ UNCHANGED <<abandoned, later>>
    BY <1>7 DEF Admin!sends, q
  <2> HIDE DEF rs
  <2>5. Asks(rs, call, h.were, c.brokers)
    BY <1>3, <2>2, <2>3 DEF Asks, Belongs, Admin!Commands, Admin!GroupOps
  <2>6. CommandsOK'
    BY <1>1, <1>4, <1>7, <2>2, <2>3, <2>4 DEF CommandsOK, Admin!Commands, Admin!tries_left
  <2>7. RecordsOK'
    BY <1>4, <2>2, <2>3, <2>4 DEF RecordsOK
  <2>8. later' \in Seq(Requests) /\ \A i \in DOMAIN rs : rs[i].state = "new"
    BY <2>2, <2>3, <2>4 DEF AdminInv, CallOK
  <2>9. /\ round' \in Seq(Requests) /\ (\A i \in DOMAIN round' : round'[i].state = "new")
        /\ Asks(round', call, h.were, c.brokers)
    BY <2>3, <2>4, <2>5, <2>8
  <2>10. QED
    BY <1>1, <1>2, <1>4, <1>7, <2>4, <2>6, <2>7, <2>8, <2>9, Untouched, Sends
<1>8. ASSUME id \in brokers.up, c' = [c EXCEPT !.controller_id = id], call' = [call EXCEPT !.tries = @ - 1],
             Admin!sends(<<Admin!Request(call.op, Admin!ToSet(call.names), id)>>)
      PROVE  AdminInv'
  <2> DEFINE q == Admin!Request(call.op, Admin!ToSet(call.names), id)
             rs == <<q>>
  <2>1. id \in Brokers /\ id \in Admin!Places
    BY <1>8 DEF AdminInv, BrokersOK, Admin!Places
  <2>2. q \in Requests /\ q.api = call.op /\ q.names = Admin!ToSet(call.names) /\ q.node = id /\ q.state = "new"
    <3>1. call.op \in Apis /\ Admin!ToSet(call.names) \in SUBSET Admin!Names /\ id \in Admin!Places \cup {Admin!AnyNode}
      BY <1>3, <2>1, InCall DEF Apis, Admin!Operations
    <3> HIDE DEF id
    <3>2. QED
      BY <3>1, RequestType
  <2> HIDE DEF q, id
  <2>3. rs \in Seq(Requests) /\ DOMAIN rs = {1} /\ Len(rs) = 1 /\ rs[1] = q /\ rs # <<>>
    BY <2>2, Alone
  <2>4. round' = rs /\ UNCHANGED <<abandoned, later>>
    BY <1>8 DEF Admin!sends, q, id
  <2> HIDE DEF rs
  <2>5. Asks(rs, call, h.were, c.brokers)
    BY <1>3, <2>1, <2>2, <2>3 DEF Asks, Belongs, Admin!Commands, Admin!GroupOps
  <2>6. /\ call' \in CallRecords /\ call'.op = call.op /\ call'.names = call.names /\ call'.node = call.node
        /\ call'.state = call.state /\ call'.tries = 0
    <3>1. call \in CallRecords
      BY Untouched
    <3>2. call' = [call EXCEPT !.tries = call.tries - 1] /\ call.tries = 1
      BY <1>4, <1>8 DEF Admin!tries_left
    <3>3. call' = [call EXCEPT !.tries = 0]
      BY <3>2
    <3>4. QED
      BY <3>1, <3>3 DEF Admin!tries_left, CallRecords
  <2>7. CommandsOK'
    BY <1>1, <1>3, <1>4, <2>2, <2>3, <2>4, <2>6 DEF CommandsOK, Admin!Commands, Admin!tries_left
  <2>8. RecordsOK'
    BY <1>3, <1>4, <2>2, <2>3, <2>4 DEF RecordsOK, Admin!Commands
  <2>9. later' \in Seq(Requests) /\ \A i \in DOMAIN rs : rs[i].state = "new"
    BY <2>2, <2>3, <2>4 DEF AdminInv, CallOK
  <2>10. /\ round' \in Seq(Requests) /\ (\A i \in DOMAIN round' : round'[i].state = "new")
         /\ Asks(round', call, h.were, c.brokers)
    BY <2>3, <2>4, <2>5, <2>9
  <2>11. c' \in [controller_id : Brokers, brokers : (SUBSET Brokers) \ {{}}] /\ c'.brokers = c.brokers
    BY <1>8, <2>1, Untouched DEF id
  <2>12. QED
    BY <1>1, <1>2, <1>4, <2>4, <2>6, <2>7, <2>8, <2>9, <2>10, <2>11, Sends
<1> HIDE DEF id
<1>9. QED
  BY <1>5, <1>6, <1>7, <1>8

\* What is asked of the coordinators of groups.
LEMMA OfGroups ==
    ASSUME Admin!AdminAssumption, NEW y, Admin!IsCall(y), y.op \in Admin!GroupOps, NEW nodes, nodes \in [1 .. Len(y.names) -> Admin!Places], NEW were, NEW known,
           y.node = Admin!AnyNode => \A i \in 1 .. Len(y.names) : nodes[i] \in were[y.names[i]],
           NEW rs \in Admin!of_groups(y, nodes)
    PROVE  /\ rs \in Seq(Requests) /\ rs # <<>> /\ Asks(rs, y, were, known)
           /\ \A i \in DOMAIN rs : rs[i].state = "new" /\ rs[i].api = y.op
<1> DEFINE n == Len(y.names)
           S == Admin!ToSet(y.names)
<1>1. /\ n \in Nat /\ n > 0 /\ DOMAIN y.names = 1 .. n /\ S = {y.names[i] : i \in 1 .. n} /\ S \subseteq Admin!Names /\ S # {}
      /\ y.op \in Apis /\ y.op \notin Admin!Commands \cup {"delete_records", "metadata", "describe_configs", "list_groups", "find_coordinator", "list_consumer_groups"}
      /\ IsFiniteSet(S)
  BY InCall, NamesFinite DEF Apis, Admin!Operations, Admin!Commands, Admin!GroupOps
<1>2. CASE y.op # "delete_consumer_groups"
  <2>1. rs = [i \in 1 .. n |-> Admin!Request(y.op, {y.names[i]}, nodes[i])]
    BY <1>1, <1>2 DEF Admin!of_groups
  <2>2. \A i \in 1 .. n : /\ rs[i] \in Requests /\ rs[i].api = y.op /\ rs[i].state = "new"
                          /\ rs[i].names = {y.names[i]} /\ rs[i].node = nodes[i]
    <3> SUFFICES ASSUME NEW i \in 1 .. n
                 PROVE  /\ rs[i] \in Requests /\ rs[i].api = y.op /\ rs[i].state = "new"
                        /\ rs[i].names = {y.names[i]} /\ rs[i].node = nodes[i]
      OBVIOUS
    <3>1. rs[i] = Admin!Request(y.op, {y.names[i]}, nodes[i]) /\ {y.names[i]} \in SUBSET Admin!Names /\ nodes[i] \in Admin!Places \cup {Admin!AnyNode}
      BY <1>1, <2>1
    <3>2. y.op \in Apis
      BY <1>1
    <3> DEFINE ns == {y.names[i]}
    <3> HIDE DEF ns
    <3>3. rs[i] = Admin!Request(y.op, ns, nodes[i]) /\ ns \in SUBSET Admin!Names
      BY <3>1 DEF ns
    <3>4. QED
      BY <3>1, <3>2, <3>3, RequestType DEF ns
  <2>3. rs \in Seq(Requests) /\ Len(rs) = n /\ DOMAIN rs = 1 .. n /\ rs # <<>>
    <3>1. rs \in [1 .. n -> Requests] /\ DOMAIN rs = 1 .. n
      BY <2>1, <2>2
    <3>2. rs \in Seq(Requests) /\ Len(rs) = n
      BY <1>1, <3>1
    <3>3. QED
      BY <1>1, <3>1, <3>2
  <2>4. \A i \in 1 .. n : rs[i].names \subseteq S
    BY <1>1, <2>2
  <2> HIDE DEF n, S
  <2>5. Asks(rs, y, were, known)
    BY <1>1, <1>2, <2>2, <2>3, <2>4 DEF Asks, Belongs, n, S
  <2>6. QED
    BY <2>2, <2>3, <2>5
<1>3. CASE y.op = "delete_consumer_groups"
  <2> DEFINE at(g) == CHOOSE i \in 1 .. n : y.names[i] = g
             f == [g \in S |-> nodes[at(g)]]
  <2>1. \A g \in S : at(g) \in 1 .. n /\ y.names[at(g)] = g
    BY <1>1
  <2>2. rs \in Admin!by_node(y.op, f)
    BY <1>1, <1>3 DEF Admin!of_groups
  <2> HIDE DEF at
  <2>3. f \in [S -> Admin!Places] /\ (y.node = Admin!AnyNode => \A g \in S : f[g] \in were[g])
    BY <2>1
  <2> HIDE DEF f, S
  <2>4. /\ rs \in Seq(Requests) /\ Len(rs) > 0 /\ DOMAIN rs = 1 .. Len(rs)
        /\ \A i \in DOMAIN rs : /\ rs[i].api = y.op /\ rs[i].state = "new"
                                /\ rs[i].names = {g \in S : f[g] = rs[i].node}
        /\ UNION {rs[i].names : i \in DOMAIN rs} = S
        /\ \A i, k \in DOMAIN rs : rs[i].names \cap rs[k].names # {} => i = k
    <3>1. y.op \in Apis /\ IsFiniteSet(S) /\ S \subseteq Admin!Names /\ S # {}
      BY <1>1 DEF S
    <3>2. QED
      BY <2>2, <2>3, <3>1, ByNode
  <2>5. y.node = Admin!AnyNode => \A i \in DOMAIN rs : \A g \in rs[i].names : rs[i].node \in were[g]
    BY <2>3, <2>4
  <2>6. \A i \in DOMAIN rs : rs[i].names \subseteq S
    BY <2>4
  <2>7. rs # <<>>
    BY <2>4
  <2>8. Asks(rs, y, were, known)
    BY <1>1, <1>3, <2>4, <2>5, <2>6, <2>7 DEF Asks, Belongs, S
  <2>9. QED
    BY <2>4, <2>7, <2>8
<1>4. QED
  BY <1>2, <1>3

LEMMA StepFind == ASSUME Admin!AdminAssumption, AdminInv, Admin!_find_coordinator_ids PROVE AdminInv'
<1>1. Admin!Answered("find_coordinator") /\ UNCHANGED <<brokers, c, call, h>>
  BY DEF Admin!_find_coordinator_ids
<1>2. PICK rs \in Admin!of_groups(call, Admin!coordinators) : Admin!sends(rs)
  BY DEF Admin!_find_coordinator_ids
<1>3. Admin!Busy /\ Admin!IsCall(call) /\ call.op \in Admin!GroupOps /\ call.node = Admin!AnyNode /\ 1 \in DOMAIN round /\ round[1].api = "find_coordinator"
      /\ Len(round) = Len(call.names) /\ DOMAIN round = 1 .. Len(round)
  BY <1>1, RoundType, Kinds, Succeeded DEF Admin!Answered, AdminInv, RoundOK, Asks
<1>4. \A i \in 1 .. Len(call.names) : Admin!coordinators[i] \in h.were[call.names[i]] /\ Admin!coordinators[i] \in Admin!Places
  <2> SUFFICES ASSUME NEW i \in 1 .. Len(call.names) PROVE Admin!coordinators[i] \in h.were[call.names[i]] /\ Admin!coordinators[i] \in Admin!Places
    OBVIOUS
  <2>1. i \in DOMAIN round /\ round[i].api = "find_coordinator" /\ round[i].names = {call.names[i]}
    BY <1>1, <1>3, Succeeded DEF AdminInv, RoundOK, Asks
  <2>2. (CHOOSE n \in round[i].names : TRUE) = call.names[i]
    BY <2>1
  <2>3. Admin!coordinators[i] = round[i].answer.nodes[call.names[i]]
    BY <2>1, <2>2 DEF Admin!coordinators, Admin!coordinator_in
  <2>4. AnsweredRightly(round[i]) /\ round[i].answer.nodes \in [round[i].names -> Admin!Places]
    BY <1>1, <2>1, Succeeded
  <2>5. QED
    BY <2>1, <2>3, <2>4 DEF AnsweredRightly
<1>5. Admin!coordinators \in [1 .. Len(call.names) -> Admin!Places]
  BY <1>3, <1>4 DEF Admin!coordinators
<1>6. /\ rs \in Seq(Requests) /\ rs # <<>> /\ Asks(rs, call, h.were, c.brokers)
      /\ \A i \in DOMAIN rs : rs[i].state = "new" /\ rs[i].api = call.op
  BY <1>2, <1>3, <1>4, <1>5, OfGroups
<1>7. round' = rs /\ UNCHANGED <<abandoned, later>>
  BY <1>2 DEF Admin!sends
<1>8. call.op = "delete_consumer_groups" => h.done = {}
  BY <1>1, <1>3, Succeeded DEF AdminInv, DeletedOK
<1>9. h.handled = 0 /\ later = <<>>
  BY <1>3 DEF AdminInv, CommandsOK, RecordsOK, Admin!Commands, Admin!GroupOps
<1>10. CommandsOK'
  BY <1>1, <1>3, <1>6, <1>7, <1>9 DEF CommandsOK, Admin!Commands, Admin!GroupOps
<1>11. RecordsOK'
  <2>1. 1 \in DOMAIN rs
    BY <1>6
  <2>2. round'[1].api = call.op /\ later' = <<>>
    BY <1>6, <1>7, <1>9, <2>1
  <2>3. QED
    BY <1>1, <1>3, <2>2 DEF RecordsOK, Admin!GroupOps
<1>12. /\ round' \in Seq(Requests) /\ (\A i \in DOMAIN round' : round'[i].state = "new")
       /\ Asks(round', call, h.were, c.brokers)
  BY <1>6, <1>7
<1>13. later' \in Seq(Requests)
  BY <1>7 DEF AdminInv, CallOK
<1>14. QED
  BY <1>1, <1>3, <1>7, <1>8, <1>10, <1>11, <1>12, <1>13, Untouched, Sends

LEMMA StepGroups == ASSUME Admin!AdminAssumption, AdminInv, Admin!groups_answered PROVE AdminInv'
<1>1. PICK op \in Admin!GroupOps : Admin!Answered(op)
  BY DEF Admin!groups_answered
<1>2. UNCHANGED <<brokers, c, h>>
  BY DEF Admin!groups_answered
<1>3. Admin!Busy /\ call.op = op /\ Admin!IsCall(call) /\ 1 \in DOMAIN round /\ round[1].api = op
  BY <1>1, RoundType, Kinds, Succeeded DEF Admin!Answered, Admin!Operations
<1>4. CASE op = "delete_consumer_groups"
  <2>1. Admin!returns([call EXCEPT !.errors = Admin!errors_of_all])
    BY <1>3, <1>4 DEF Admin!groups_answered
  <2>2. /\ Admin!errors_of_all \in Results
        /\ DOMAIN Admin!errors_of_all = UNION {round[i].names : i \in DOMAIN round}
        /\ \A n \in DOMAIN Admin!errors_of_all : \E i \in DOMAIN round : n \in round[i].names /\ Admin!errors_of_all[n] = round[i].answer.errors[n]
    BY <1>1, ErrorsOfAll
  <2>3. /\ Admin!ToSet(call.names) = UNION {round[i].names : i \in DOMAIN round}
        /\ \A i, k \in DOMAIN round : round[i].names \cap round[k].names # {} => i = k
    BY <1>3, <1>4 DEF AdminInv, RoundOK, Asks
  <2>4. \A i \in DOMAIN round : \A n \in round[i].names : Admin!ok(round[i].answer.errors[n]) <=> round[i].answer.errors[n] = "none"
    BY <1>1, Succeeded DEF AnsweredRightly, Admin!ok
  <2>5. \A n \in DOMAIN Admin!errors_of_all : Admin!errors_of_all[n] = "none" => n \in h.done
    BY <1>1, <1>3, <2>2, <2>4, Succeeded DEF AnsweredRightly
  <2>6. ASSUME NEW n \in h.done PROVE n \in DOMAIN Admin!errors_of_all /\ Admin!errors_of_all[n] = "none"
    <3>1. PICK i \in DOMAIN round : n \in round[i].names /\ (round[i].state = "succeeded" => Admin!ok(round[i].answer.errors[n]))
      BY <1>3, <1>4 DEF AdminInv, DeletedOK
    <3>2. round[i].answer.errors[n] = "none"
      BY <1>1, <2>4, <3>1 DEF Admin!Answered
    <3>3. n \in DOMAIN Admin!errors_of_all
      BY <2>2, <3>1
    <3>4. PICK k \in DOMAIN round : n \in round[k].names /\ Admin!errors_of_all[n] = round[k].answer.errors[n]
      BY <2>2, <3>3
    <3>5. i = k
      BY <2>3, <3>1, <3>4
    <3>6. QED
      BY <3>2, <3>3, <3>4, <3>5
  <2>7. {g \in DOMAIN Admin!errors_of_all : Admin!errors_of_all[g] = "none"} = h.done
    BY <2>5, <2>6
  <2> DEFINE made == [call EXCEPT !.errors = Admin!errors_of_all]
  <2>8. made = [call EXCEPT !.errors = Admin!errors_of_all, !.listed = call.listed, !.described = call.described]
    BY DEF AdminInv, CallOK, CallRecords
  <2>9. call.op \notin Admin!Commands \cup {"delete_records", "describe_consumer_groups", "list_consumer_groups"}
    BY <1>3, <1>4 DEF Admin!Commands
  <2> HIDE DEF made
  <2>10. Admin!returns(made)
    BY <2>1 DEF made
  <2>11. DOMAIN Admin!errors_of_all = Admin!ToSet(call.names) /\ Admin!errors_of_all \in Results
    BY <2>2, <2>3
  <2>12. QED
    BY <1>2, <1>3, <2>7, <2>8, <2>9, <2>10, <2>11, Untouched, Returns
<1>5. ASSUME op # "delete_consumer_groups", NEW e \in DOMAIN round, ~Admin!ok(Admin!errors_in_order[e]), Admin!raises(Admin!errors_in_order[e]) PROVE AdminInv'
  <2>1. Admin!errors_in_order[e] # "none"
    BY <1>5 DEF Admin!ok
  <2>2. Admin!errors_in_order[e] \in Errors /\ \E n \in round[e].names : round[e].answer.errors[n] = Admin!errors_in_order[e]
    BY <1>1, <2>1, InOrder
  <2>3. AnsweredRightly(round[e]) /\ round[e].api \notin Admin!Commands
    BY <1>1, Succeeded DEF Admin!Commands, Admin!GroupOps
  <2>4. Admin!errors_in_order[e] # "not_controller"
    BY <2>2, <2>3 DEF AnsweredRightly
  <2>5. QED
    BY <1>2, <1>3, <1>5, <2>2, <2>4, Raises DEF Raised
<1>6. ASSUME Admin!raises("type_error") PROVE AdminInv'
  BY <1>2, <1>3, <1>6, Raises DEF Raised
<1>7. ASSUME op # "delete_consumer_groups", Admin!returns([call EXCEPT !.described = [i \in DOMAIN round |-> CHOOSE n \in round[i].names : TRUE]])
      PROVE  AdminInv'
  <2> DEFINE d == [i \in DOMAIN round |-> CHOOSE n \in round[i].names : TRUE]
             made == [call EXCEPT !.described = d]
  <2>1. /\ Len(round) = Len(call.names) /\ DOMAIN round = 1 .. Len(round)
        /\ \A i \in DOMAIN round : round[i].names = {call.names[i]}
    BY <1>1, <1>3, <1>7, RoundType, Succeeded DEF AdminInv, RoundOK, Asks
  <2>2. \A i \in DOMAIN round : d[i] = call.names[i]
    BY <2>1
  <2>3. call.names \in Seq(Admin!Names)
    BY <1>3, InCall
  <2>4. d = call.names
    <3>1. call.names = [i \in 1 .. Len(call.names) |-> call.names[i]]
      BY <2>3
    <3>2. QED
      BY <2>1, <2>2, <3>1
  <2> HIDE DEF d
  <2>5. made = [call EXCEPT !.errors = call.errors, !.listed = call.listed, !.described = call.names]
    BY <2>4 DEF AdminInv, CallOK, CallRecords
  <2>6. Admin!returns(made)
    BY <1>7 DEF d
  <2> HIDE DEF made
  <2>7. call.op \notin Admin!Commands \cup {"delete_records", "delete_consumer_groups", "list_consumer_groups"}
    BY <1>3, <1>7 DEF Admin!Commands, Admin!GroupOps
  <2>8. QED
    BY <1>2, <1>3, <2>3, <2>5, <2>6, <2>7, Untouched, Returns
<1>8. QED
  BY <1>3, <1>4, <1>5, <1>6, <1>7 DEF Admin!groups_answered, Admin!first_error

LEMMA StepList == ASSUME Admin!AdminAssumption, AdminInv, Admin!list_consumer_groups PROVE AdminInv'
<1>1. Admin!Answered("list_groups") /\ Admin!returns([call EXCEPT !.listed = Admin!groups_of_all]) /\ UNCHANGED <<brokers, c, h>>
  BY DEF Admin!list_consumer_groups
<1>2. Admin!Busy /\ 1 \in DOMAIN round /\ call.op = "list_consumer_groups"
  BY <1>1, RoundType, Kinds, Succeeded DEF Admin!Answered
<1>3. Admin!groups_of_all \in SUBSET ConsumerGroups
  <2>1. \A i \in DOMAIN round : round[i].answer.groups \subseteq ConsumerGroups
    BY <1>1, Succeeded DEF Answers
  <2>2. QED
    BY <2>1 DEF Admin!groups_of_all
<1>4. ASSUME NEW g \in brokers.groups, NEW a \in c.brokers, h.were[g] = {a} PROVE g \in Admin!groups_of_all
  <2>1. PICK i \in DOMAIN round : round[i].node = a
    BY <1>2 DEF AdminInv, RoundOK, Asks
  <2>2. a \in Brokers /\ a # Admin!AnyNode
    BY NotNode, Untouched DEF Admin!Places
  <2>3. round[i].at = a /\ AnsweredRightly(round[i]) /\ round[i].api = "list_groups"
    BY <1>1, <2>1, <2>2, Succeeded
  <2>4. g \in round[i].answer.groups
    BY <1>4, <2>3 DEF AnsweredRightly
  <2>5. QED
    BY <2>4 DEF Admin!groups_of_all
<1> DEFINE made == [call EXCEPT !.listed = Admin!groups_of_all]
<1>5. made = [call EXCEPT !.errors = call.errors, !.listed = Admin!groups_of_all, !.described = call.described]
  BY DEF AdminInv, CallOK, CallRecords
<1>6. Admin!returns(made)
  BY <1>1
<1> HIDE DEF made
<1>7. call.op \notin Admin!Commands \cup {"delete_records", "delete_consumer_groups", "describe_consumer_groups"}
  BY <1>2 DEF Admin!Commands
<1>8. QED
  BY <1>1, <1>2, <1>3, <1>4, <1>5, <1>6, <1>7, Untouched, Returns

\* What failed with what is already known, a partition at a time.
LEMMA Joined ==
    ASSUME NEW more \in Results, NEW errors \in Results
    PROVE  /\ Admin!joined(more, errors) \in Results /\ DOMAIN Admin!joined(more, errors) = DOMAIN more \cup DOMAIN errors
           /\ \A n \in DOMAIN more \cup DOMAIN errors :
                 Admin!joined(more, errors)[n] = IF n \in DOMAIN more THEN more[n] ELSE errors[n]
<1>1. PICK S \in SUBSET Admin!Names : more \in [S -> Errors]
  BY DEF Results
<1>2. PICK T \in SUBSET Admin!Names : errors \in [T -> Errors]
  BY DEF Results
<1>3. Admin!joined(more, errors) \in [S \cup T -> Errors] /\ S \cup T \in SUBSET Admin!Names
  BY <1>1, <1>2 DEF Admin!joined
<1>4. QED
  BY <1>1, <1>2, <1>3 DEF Admin!joined, Results

LEMMA StepLeaders == ASSUME Admin!AdminAssumption, AdminInv, Admin!_get_leader_for_partitions PROVE AdminInv'
<1>1. Admin!Answered("metadata") /\ UNCHANGED <<brokers, c, h>>
  BY DEF Admin!_get_leader_for_partitions
<1>2. /\ Admin!Busy /\ 1 \in DOMAIN round /\ Admin!IsCall(call) /\ call.op \in {"delete_records", "describe_topics"}
      /\ round[1].api = "metadata" /\ AnsweredRightly(round[1]) /\ round[1].answer.nodes \in [round[1].names -> Admin!Places]
      /\ round[1].names = Admin!ToSet(call.names)
  BY <1>1, RoundType, Kinds, Succeeded DEF Admin!Answered, AdminInv, RoundOK, Asks
<1>3. CASE call.op = "describe_topics"
  <2>1. Admin!returns(call)
    BY <1>3 DEF Admin!_get_leader_for_partitions
  <2>2. call.op \notin Admin!Commands \cup {"delete_records", "delete_consumer_groups", "describe_consumer_groups", "list_consumer_groups"}
    BY <1>3 DEF Admin!Commands
  <2>3. QED
    BY <1>1, <1>2, <2>1, <2>2, Untouched, Returns
<1>4. CASE call.op = "delete_records" /\ Admin!errors_in_order[1] # "none"
  <2>1. Admin!raises("unknown_topic")
    BY <1>4 DEF Admin!_get_leader_for_partitions
  <2>2. QED
    BY <1>1, <1>2, <2>1, Raises DEF Raised, Errors
<1>5. CASE call.op = "delete_records" /\ Admin!errors_in_order[1] = "none"
  <2> DEFINE nodes == round[1].answer.nodes
             S == Admin!ToSet(call.names)
  <2>1. PICK rs \in Admin!leader_requests(nodes) : round' = <<Head(rs)>> /\ later' = Tail(rs) /\ UNCHANGED <<call, abandoned>>
    BY <1>5 DEF Admin!_get_leader_for_partitions
  <2>2. rs \in Admin!by_node("delete_records", nodes) /\ nodes \in [S -> Admin!Places]
    BY <1>2, <2>1 DEF Admin!leader_requests
  <2>3. "delete_records" \in Apis /\ IsFiniteSet(S) /\ S \subseteq Admin!Names /\ S # {}
    BY <1>2, InCall, NamesFinite DEF Apis, Admin!Operations
  <2> HIDE DEF nodes, S
  <2>4. /\ rs \in Seq(Requests) /\ Len(rs) > 0 /\ DOMAIN rs = 1 .. Len(rs)
        /\ \A i \in DOMAIN rs : /\ rs[i].api = "delete_records" /\ rs[i].state = "new"
                                /\ rs[i].names = {n \in S : nodes[n] = rs[i].node}
        /\ UNION {rs[i].names : i \in DOMAIN rs} = S
    BY <2>2, <2>3, ByNode
  <2>5. \A n \in S : nodes[n] \in h.were[n]
    BY <1>2, <1>5 DEF AnsweredRightly, nodes, S
  <2>6. /\ Len(rs) \in Nat /\ Head(rs) = rs[1] /\ Tail(rs) \in Seq(Requests) /\ DOMAIN Tail(rs) = 1 .. Len(rs) - 1
        /\ \A k \in 1 .. Len(rs) - 1 : Tail(rs)[k] = rs[k + 1]
    BY <2>4
  <2>7. \A i \in DOMAIN rs : (\A n \in rs[i].names : rs[i].node \in h.were[n]) /\ rs[i].names \subseteq S
    BY <2>4, <2>5
  <2>8. 1 \in DOMAIN rs /\ rs[1] \in Requests /\ rs[1].api = "delete_records" /\ rs[1].state = "new"
    BY <2>4
  <2>9. /\ round' \in Seq(Requests) /\ DOMAIN round' = {1} /\ Len(round') = 1 /\ round'[1] = rs[1] /\ round' # <<>>
    BY <2>1, <2>6, <2>8, Alone
  <2>10. Asks(round', call, h.were, c.brokers)
    BY <1>5, <2>7, <2>8, <2>9 DEF Asks, Belongs, Admin!Commands, Admin!GroupOps, S
  <2>11. /\ \A i \in DOMAIN rs : i = 1 \/ (i - 1 \in DOMAIN Tail(rs) /\ Tail(rs)[i - 1] = rs[i])
         /\ \A k \in DOMAIN Tail(rs) : k + 1 \in DOMAIN rs /\ Tail(rs)[k] = rs[k + 1]
    BY <2>4, <2>6
  <2>12. S = rs[1].names \cup UNION {Tail(rs)[k].names : k \in DOMAIN Tail(rs)}
    <3>1. ASSUME NEW n \in S PROVE n \in rs[1].names \/ \E k \in DOMAIN Tail(rs) : n \in Tail(rs)[k].names
      <4>1. PICK i \in DOMAIN rs : n \in rs[i].names
        BY <2>4
      <4>2. QED
        BY <2>11, <4>1
    <3>2. rs[1].names \subseteq S /\ \A k \in DOMAIN Tail(rs) : Tail(rs)[k].names \subseteq S
      BY <2>7, <2>8, <2>11
    <3>3. QED
      BY <3>1, <3>2
  <2>13. DOMAIN call.errors = {}
    BY <1>2 DEF AdminInv, RecordsOK
  <2>14. RecordsOK'
    <3>1. \A k \in DOMAIN later' : /\ later'[k].api = "delete_records" /\ later'[k].state = "new"
                                   /\ \A n \in later'[k].names : later'[k].node \in h'.were[n]
      BY <1>1, <2>1, <2>4, <2>7, <2>11
    <3>2. Admin!ToSet(call.names)' = S /\ call'.errors = call.errors /\ call'.op = "delete_records"
      BY <1>5, <2>1 DEF S, Admin!ToSet
    <3>3. S = round'[1].names \cup DOMAIN call'.errors \cup UNION {later'[k].names : k \in DOMAIN later'}
      BY <2>1, <2>9, <2>12, <2>13
    <3>4. QED
      BY <2>8, <2>9, <2>13, <3>1, <3>2, <3>3 DEF RecordsOK
  <2>15. CommandsOK'
    <3>1. h.handled = 0
      BY <1>2 DEF AdminInv, CommandsOK, Admin!Commands
    <3>2. QED
      BY <1>1, <2>8, <2>9, <3>1 DEF CommandsOK, Admin!Commands
  <2>16. later' \in Seq(Requests) /\ \A i \in DOMAIN round' : round'[i].state = "new"
    BY <2>1, <2>6, <2>8, <2>9
  <2>17. QED
    BY <1>1, <1>2, <1>5, <2>1, <2>9, <2>10, <2>14, <2>15, <2>16, Untouched, Sends
<1>6. QED
  BY <1>2, <1>3, <1>4, <1>5

LEMMA StepRecords == ASSUME Admin!AdminAssumption, AdminInv, Admin!delete_records PROVE AdminInv'
<1>1. Admin!Answered("delete_records") /\ UNCHANGED <<brokers, c, h>>
  BY DEF Admin!delete_records
<1> DEFINE more == round[1].answer.errors
           errors == Admin!joined(more, call.errors)
           bad == Admin!failed(errors)
<1>2. /\ Admin!Busy /\ 1 \in DOMAIN round /\ Admin!IsCall(call) /\ call.op = "delete_records" /\ round[1].api = "delete_records"
      /\ AnsweredRightly(round[1]) /\ more \in [round[1].names -> Errors] /\ round[1].answer \in Answers
      /\ round[1].names \subseteq Admin!ToSet(call.names)
  BY <1>1, RoundType, Kinds, Succeeded DEF Admin!Answered, Admin!Operations
<1>3. IF later # <<>>
      THEN /\ round' = <<Head(later)>> /\ later' = Tail(later) /\ UNCHANGED abandoned
           /\ call' = [call EXCEPT !.errors = errors]
      ELSE IF bad = {} THEN Admin!returns([call EXCEPT !.errors = errors])
      ELSE Admin!raises(IF Admin!Cardinality(bad) = 1 THEN errors[CHOOSE n \in bad : TRUE] ELSE "broker_response")
  BY DEF Admin!delete_records
<1>4. more \in Results /\ call.errors \in Results
  BY <1>2, Untouched DEF Answers
<1> HIDE DEF more
<1>5. /\ errors \in Results /\ DOMAIN errors = round[1].names \cup DOMAIN call.errors
      /\ \A n \in DOMAIN errors : errors[n] = IF n \in round[1].names THEN more[n] ELSE call.errors[n]
  <2>1. DOMAIN more = round[1].names
    BY <1>2
  <2>2. /\ Admin!joined(more, call.errors) \in Results /\ DOMAIN Admin!joined(more, call.errors) = DOMAIN more \cup DOMAIN call.errors
        /\ \A n \in DOMAIN more \cup DOMAIN call.errors :
              Admin!joined(more, call.errors)[n] = IF n \in DOMAIN more THEN more[n] ELSE call.errors[n]
    BY <1>4, Joined
  <2>3. QED
    BY <2>1, <2>2
<1> HIDE DEF errors
<1>6. /\ Admin!ToSet(call.names) = round[1].names \cup DOMAIN call.errors \cup UNION {later[k].names : k \in DOMAIN later}
      /\ \A n \in DOMAIN call.errors : call.errors[n] # "not_controller" /\ (Admin!ok(call.errors[n]) => n \in h.done)
      /\ \A k \in DOMAIN later :
            /\ later[k].api = "delete_records" /\ later[k].state = "new"
            /\ call.node = Admin!AnyNode => \A n \in later[k].names : later[k].node \in h.were[n]
  BY <1>2 DEF AdminInv, RecordsOK
<1>7. \A n \in DOMAIN errors : errors[n] \in Errors /\ errors[n] # "not_controller" /\ (Admin!ok(errors[n]) => n \in h.done)
  <2>1. \A n \in round[1].names : more[n] # "not_controller" /\ (Admin!ok(more[n]) => n \in h.done)
    BY <1>2 DEF AnsweredRightly, Admin!Commands, more
  <2>2. \A n \in DOMAIN errors : errors[n] \in Errors
    BY <1>5 DEF Results
  <2>3. QED
    BY <1>5, <1>6, <2>1, <2>2
<1>8. CASE later # <<>>
  <2>1. round' = <<Head(later)>> /\ later' = Tail(later) /\ UNCHANGED abandoned /\ call' = [call EXCEPT !.errors = errors]
    BY <1>3, <1>8
  <2>2. /\ later \in Seq(Requests) /\ Len(later) \in Nat /\ DOMAIN later = 1 .. Len(later) /\ 1 \in DOMAIN later /\ Head(later) = later[1]
        /\ Tail(later) \in Seq(Requests) /\ DOMAIN Tail(later) = 1 .. Len(later) - 1
        /\ \A k \in 1 .. Len(later) - 1 : Tail(later)[k] = later[k + 1]
    BY <1>8 DEF AdminInv, CallOK
  <2>3. later[1] \in Requests /\ later[1].api = "delete_records" /\ later[1].state = "new" /\ later[1].names \subseteq Admin!ToSet(call.names)
    BY <1>6, <2>2
  <2>4. round' \in Seq(Requests) /\ DOMAIN round' = {1} /\ Len(round') = 1 /\ round'[1] = later[1] /\ round' # <<>>
    BY <2>1, <2>2, <2>3, Alone
  <2>5. /\ call' \in CallRecords /\ call'.op = call.op /\ call'.names = call.names /\ call'.node = call.node
        /\ call'.state = call.state /\ call'.errors = errors
    BY <1>5, <2>1, Untouched DEF CallRecords
  <2>6. Asks(round', call, h.were, c.brokers)
    BY <1>2, <1>6, <2>2, <2>3, <2>4 DEF Asks, Belongs, Admin!Commands, Admin!GroupOps
  <2>7. /\ \A i \in DOMAIN later : i = 1 \/ (i - 1 \in DOMAIN Tail(later) /\ Tail(later)[i - 1] = later[i])
        /\ \A k \in DOMAIN Tail(later) : k + 1 \in DOMAIN later /\ Tail(later)[k] = later[k + 1]
    BY <2>2
  <2>8. UNION {later[k].names : k \in DOMAIN later} = later[1].names \cup UNION {Tail(later)[k].names : k \in DOMAIN Tail(later)}
    <3>1. \A n : (\E i \in DOMAIN later : n \in later[i].names) <=> n \in later[1].names \/ \E k \in DOMAIN Tail(later) : n \in Tail(later)[k].names
      BY <2>2, <2>7
    <3>2. QED
      BY <3>1
  <2>9. RecordsOK'
    <3>1. Admin!ToSet(call.names)' = Admin!ToSet(call.names) /\ \A e : Admin!ok(e)' = Admin!ok(e)
      BY <2>5 DEF Admin!ToSet, Admin!ok
    <3>2. Admin!ToSet(call.names) = round'[1].names \cup DOMAIN call'.errors \cup UNION {later'[k].names : k \in DOMAIN later'}
      BY <1>5, <1>6, <2>1, <2>4, <2>5, <2>8
    <3>3. \A k \in DOMAIN later' :
            /\ later'[k].api = "delete_records" /\ later'[k].state = "new"
            /\ call'.node = Admin!AnyNode => \A n \in later'[k].names : later'[k].node \in h'.were[n]
      BY <1>1, <1>6, <2>1, <2>5, <2>7
    <3>4. \A n \in DOMAIN call'.errors : call'.errors[n] # "not_controller" /\ (Admin!ok(call'.errors[n]) => n \in h'.done)
      BY <1>1, <1>7, <2>5
    <3>5. round'[1].api = "delete_records" /\ call'.op = "delete_records"
      BY <1>2, <2>3, <2>4, <2>5
    <3>6. QED
      BY <3>1, <3>2, <3>3, <3>4, <3>5 DEF RecordsOK, Admin!AnyNode, Admin!ok
  <2>10. CommandsOK'
    <3>1. h.handled = 0
      BY <1>2 DEF AdminInv, CommandsOK, Admin!Commands
    <3>2. QED
      BY <1>1, <2>3, <2>4, <3>1 DEF CommandsOK, Admin!Commands
  <2>11. later' \in Seq(Requests) /\ \A i \in DOMAIN round' : round'[i].state = "new"
    BY <2>1, <2>2, <2>3, <2>4
  <2>12. QED
    BY <1>1, <1>2, <2>1, <2>4, <2>5, <2>6, <2>9, <2>10, <2>11, Untouched, Sends
<1>9. CASE later = <<>> /\ bad = {}
  <2> DEFINE made == [call EXCEPT !.errors = errors]
  <2>1. Admin!returns(made)
    BY <1>3, <1>9
  <2>2. made = [call EXCEPT !.errors = errors, !.listed = call.listed, !.described = call.described]
    BY Untouched DEF CallRecords
  <2>3. Admin!ToSet(call.names) = DOMAIN errors
    <3>1. UNION {later[k].names : k \in DOMAIN later} = {}
      BY <1>9, Nothing
    <3>2. QED
      BY <1>5, <1>6, <3>1
  <2>4. \A n \in DOMAIN errors : Admin!ok(errors[n])
    BY <1>9 DEF Admin!failed
  <2>5. Admin!ToSet(call.names) \subseteq h.done
    BY <1>7, <2>3, <2>4
  <2> HIDE DEF made
  <2>6. call.op \notin {"delete_consumer_groups", "describe_consumer_groups", "list_consumer_groups"}
    BY <1>2
  <2>7. QED
    BY <1>1, <1>2, <1>5, <2>1, <2>2, <2>5, <2>6, Untouched, Returns
<1>10. CASE later = <<>> /\ bad # {}
  <2> DEFINE n == CHOOSE n \in bad : TRUE
             e == IF Admin!Cardinality(bad) = 1 THEN errors[n] ELSE "broker_response"
  <2>1. n \in bad /\ bad \subseteq DOMAIN errors
    BY <1>10 DEF Admin!failed
  <2>2. errors[n] \in Errors /\ errors[n] # "not_controller"
    BY <1>7, <2>1
  <2>3. Admin!raises(e)
    BY <1>3, <1>10
  <2>4. e \in Raised /\ e # "not_controller"
    BY <2>2 DEF Raised
  <2> HIDE DEF e
  <2>5. QED
    BY <1>1, <1>2, <2>3, <2>4, Raises
<1>11. QED
  BY <1>8, <1>9, <1>10

LEMMA StepConfigs == ASSUME Admin!AdminAssumption, AdminInv, Admin!configs_answered PROVE AdminInv'
<1>1. PICK op \in {"describe_configs", "alter_configs"} : Admin!Answered(op)
  BY DEF Admin!configs_answered
<1>2. Admin!returns([call EXCEPT !.errors = Admin!errors_of_all]) /\ UNCHANGED <<brokers, c, h>>
  BY DEF Admin!configs_answered
<1>3. Admin!Busy /\ 1 \in DOMAIN round /\ call.op = op
  BY <1>1, RoundType, Kinds, Succeeded DEF Admin!Answered, Admin!Operations
<1>4. Admin!errors_of_all \in Results
  BY <1>1, ErrorsOfAll
<1> DEFINE made == [call EXCEPT !.errors = Admin!errors_of_all]
<1>5. made = [call EXCEPT !.errors = Admin!errors_of_all, !.listed = call.listed, !.described = call.described]
  BY Untouched DEF CallRecords
<1>6. Admin!returns(made)
  BY <1>2
<1> HIDE DEF made
<1>7. call.op \notin Admin!Commands \cup {"delete_records", "delete_consumer_groups", "describe_consumer_groups", "list_consumer_groups"}
  BY <1>3 DEF Admin!Commands
<1>8. QED
  BY <1>2, <1>3, <1>4, <1>5, <1>6, <1>7, Untouched, Returns

LEMMA OneRequest ==
    \A api \in Apis, ns \in SUBSET Admin!Names, node \in Admin!Places \cup {Admin!AnyNode} : \A rs :
        rs = <<Admin!Request(api, ns, node)>> =>
           /\ rs \in Seq(Requests) /\ rs # <<>> /\ DOMAIN rs = {1} /\ Len(rs) = 1
           /\ rs[1].api = api /\ rs[1].names = ns /\ rs[1].node = node /\ rs[1].state = "new"
<1> SUFFICES ASSUME NEW api \in Apis, NEW ns \in SUBSET Admin!Names, NEW node \in Admin!Places \cup {Admin!AnyNode},
                    NEW rs, rs = <<Admin!Request(api, ns, node)>>
             PROVE  /\ rs \in Seq(Requests) /\ rs # <<>> /\ DOMAIN rs = {1} /\ Len(rs) = 1
                    /\ rs[1].api = api /\ rs[1].names = ns /\ rs[1].node = node /\ rs[1].state = "new"
  BY Zenon
<1> DEFINE q == Admin!Request(api, ns, node)
<1>1. q \in Requests /\ q.api = api /\ q.names = ns /\ q.node = node /\ q.state = "new"
  BY RequestType
<1>2. rs = <<q>>
  OBVIOUS
<1> HIDE DEF q
<1>3. rs \in Seq(Requests) /\ rs # <<>> /\ DOMAIN rs = {1} /\ Len(rs) = 1 /\ rs[1] = q
  BY <1>1, <1>2, Alone
<1>4. QED
  BY <1>1, <1>3

\* The first round of a call.
LEMMA FirstRound ==
    ASSUME Admin!AdminAssumption, AdminInv, NEW y, Admin!IsCall(y), NEW rs \in Admin!first_round(y), NEW were
    PROVE  /\ rs \in Seq(Requests) /\ rs # <<>> /\ \A i \in DOMAIN rs : rs[i].state = "new"
           /\ rs[1].api = "delete_records" => rs[1].names = Admin!ToSet(y.names)
           /\ (\A i \in DOMAIN rs : rs[i].api \in Admin!GroupOps \cup {"delete_records"} => y.node # Admin!AnyNode)
                 => Asks(rs, y, were, c.brokers)
           /\ \A i \in DOMAIN rs : rs[i].api \in Admin!GroupOps \cup {"delete_records"} => y.node # Admin!AnyNode
           /\ \A i \in DOMAIN rs : rs[i].api # "controller"
<1> DEFINE S == Admin!ToSet(y.names)
<1>1. /\ y.names \in Seq(Admin!Names) /\ Len(y.names) \in Nat /\ DOMAIN y.names = 1 .. Len(y.names)
      /\ S = {y.names[i] : i \in 1 .. Len(y.names)} /\ S \in SUBSET Admin!Names
      /\ y.op # "list_consumer_groups" => S # {} /\ Len(y.names) > 0
  BY InCall
<1>2. /\ y.op \in Admin!Operations /\ y.node \in Brokers \cup {Admin!AnyNode} /\ y.op \in Apis
  BY DEF Admin!IsCall, Apis
<1> DEFINE Good == /\ rs \in Seq(Requests) /\ rs # <<>> /\ \A i \in DOMAIN rs : rs[i].state = "new"
                   /\ rs[1].api = "delete_records" => rs[1].names = S
                   /\ Asks(rs, y, were, c.brokers)
                   /\ \A i \in DOMAIN rs : rs[i].api \in Admin!GroupOps \cup {"delete_records"} => y.node # Admin!AnyNode
                   /\ \A i \in DOMAIN rs : rs[i].api # "controller"
<1>3. ASSUME NEW api \in Apis, NEW node \in Admin!Places \cup {Admin!AnyNode}, rs = <<Admin!Request(api, S, node)>>
      PROVE  /\ rs \in Seq(Requests) /\ rs # <<>> /\ DOMAIN rs = {1} /\ Len(rs) = 1
             /\ rs[1].api = api /\ rs[1].names = S /\ rs[1].node = node /\ rs[1].state = "new"
  <2>1. S \in SUBSET Admin!Names
    BY <1>1
  <2> HIDE DEF S
  <2>2. QED
    BY <1>3, <2>1, OneRequest, SMT
<1>4. CASE y.op \in Admin!Commands
  <2>0. rs = <<Admin!Request(y.op, S, c.controller_id)>>
    <3>1. /\ y.op \notin Admin!GroupOps /\ y.op # "list_consumer_groups" /\ y.op # "delete_records" /\ y.op # "describe_topics"
          /\ y.op # "describe_configs" /\ y.op # "alter_configs"
      BY <1>4 DEF Admin!Commands, Admin!GroupOps
    <3>2. Admin!first_round(y) = {<<Admin!Request(y.op, S, c.controller_id)>>}
      BY <1>4, <3>1, Zenon DEF Admin!first_round
    <3> DEFINE one == <<Admin!Request(y.op, S, c.controller_id)>>
    <3>3. rs \in {one}
      BY <3>2
    <3> HIDE DEF one
    <3>4. rs = one
      BY <3>3
    <3>5. QED
      BY <3>4 DEF one
  <2> HIDE DEF S
  <2>1. rs = <<Admin!Request(y.op, S, c.controller_id)>> /\ c.controller_id \in Brokers /\ c.controller_id \in Admin!Places
    BY <2>0 DEF AdminInv, BrokersOK, Admin!Places
  <2>2. /\ rs \in Seq(Requests) /\ rs # <<>> /\ DOMAIN rs = {1} /\ Len(rs) = 1
        /\ rs[1].api = y.op /\ rs[1].names = S /\ rs[1].node = c.controller_id /\ rs[1].state = "new"
    BY <1>2, <1>3, <2>1
  <2>3. Asks(rs, y, were, c.brokers)
    BY <1>4, <2>1, <2>2 DEF Asks, Belongs, Admin!Commands, Admin!GroupOps, S
  <2>4. QED
    BY <1>4, <2>2, <2>3 DEF Admin!Commands, Admin!GroupOps, S
<1>5. CASE y.op \in Admin!GroupOps /\ y.node = Admin!AnyNode
  <2> DEFINE n == Len(y.names)
  <2>1. rs = [i \in 1 .. n |-> Admin!Request("find_coordinator", {y.names[i]}, Admin!AnyNode)]
    BY <1>1, <1>5 DEF Admin!first_round, Admin!find, Admin!Commands, Admin!GroupOps
  <2>2. \A i \in 1 .. n : /\ rs[i] \in Requests /\ rs[i].api = "find_coordinator" /\ rs[i].state = "new"
                          /\ rs[i].names = {y.names[i]} /\ rs[i].node = Admin!AnyNode
    <3> SUFFICES ASSUME NEW i \in 1 .. n
                 PROVE  /\ rs[i] \in Requests /\ rs[i].api = "find_coordinator" /\ rs[i].state = "new"
                        /\ rs[i].names = {y.names[i]} /\ rs[i].node = Admin!AnyNode
      OBVIOUS
    <3> DEFINE ns == {y.names[i]}
    <3>1. rs[i] = Admin!Request("find_coordinator", ns, Admin!AnyNode) /\ ns \in SUBSET Admin!Names
      BY <1>1, <2>1
    <3>2. "find_coordinator" \in Apis /\ Admin!AnyNode \in Admin!Places \cup {Admin!AnyNode}
      BY DEF Apis
    <3> HIDE DEF ns
    <3>3. QED
      BY <3>1, <3>2, RequestType DEF ns
  <2>3. rs \in Seq(Requests) /\ Len(rs) = n /\ DOMAIN rs = 1 .. n /\ rs # <<>>
    <3>1. rs \in [1 .. n -> Requests] /\ DOMAIN rs = 1 .. n /\ n > 0
      BY <1>1, <1>5, <2>1, <2>2 DEF Admin!GroupOps
    <3>2. rs \in Seq(Requests) /\ Len(rs) = n
      BY <1>1, <3>1
    <3>3. QED
      BY <1>1, <3>1, <3>2
  <2>4. \A i \in 1 .. n : rs[i].names \subseteq S
    BY <1>1, <2>2
  <2>5. 1 \in 1 .. n
    BY <1>1, <1>5 DEF Admin!GroupOps
  <2> HIDE DEF n, S
  <2>6. Asks(rs, y, were, c.brokers)
    BY <1>5, <2>2, <2>3, <2>4, <2>5 DEF Asks, Belongs, Admin!Commands, Admin!GroupOps, n, S
  <2>7. QED
    BY <2>2, <2>3, <2>5, <2>6 DEF Admin!GroupOps, S
<1>6. CASE y.op \in Admin!GroupOps /\ y.node # Admin!AnyNode
  <2> DEFINE nodes == [i \in DOMAIN y.names |-> y.node]
  <2>1. rs \in Admin!of_groups(y, nodes)
    BY <1>6 DEF Admin!first_round, Admin!Commands, Admin!GroupOps
  <2>2. nodes \in [1 .. Len(y.names) -> Admin!Places]
    BY <1>1, <1>2, <1>6 DEF Admin!Places
  <2> HIDE DEF nodes
  <2>3. /\ rs \in Seq(Requests) /\ rs # <<>> /\ Asks(rs, y, were, c.brokers)
        /\ \A i \in DOMAIN rs : rs[i].state = "new" /\ rs[i].api = y.op
    BY <1>6, <2>1, <2>2, OfGroups
  <2>4. 1 \in DOMAIN rs
    BY <2>3
  <2>5. QED
    BY <1>6, <2>3, <2>4 DEF Admin!GroupOps
<1>7. CASE y.op = "list_consumer_groups"
  <2>1. PICK bs \in Admin!SetToSeqs(c.brokers) : rs = [i \in DOMAIN bs |-> Admin!Request("list_groups", {}, bs[i])]
    <3>1. y.op \notin Admin!Commands /\ y.op \notin Admin!GroupOps
      BY <1>7 DEF Admin!Commands, Admin!GroupOps
    <3> DEFINE made(bs) == [i \in DOMAIN bs |-> Admin!Request("list_groups", {}, bs[i])]
               orders == Admin!SetToSeqs(c.brokers)
    <3>2. Admin!first_round(y) = {made(bs) : bs \in orders}
      BY <1>7, <3>1, Zenon DEF Admin!first_round
    <3>3. rs \in {made(bs) : bs \in orders}
      BY <3>2
    <3> HIDE DEF made, orders
    <3>4. \E bs \in orders : rs = made(bs)
      BY <3>3
    <3>5. QED
      BY <3>4, Zenon DEF made, orders
  <2>2. IsFiniteSet(c.brokers) /\ c.brokers \subseteq Brokers /\ c.brokers # {}
    <3>1. c.brokers \in SUBSET Brokers /\ c.brokers # {}
      BY DEF AdminInv, BrokersOK
    <3>2. IsFiniteSet(Brokers)
      BY AdminFinite DEF Admin!AdminAssumption
    <3>3. QED
      BY <3>1, <3>2, FS_Subset
  <2>3. /\ bs \in Seq(c.brokers) /\ DOMAIN bs = 1 .. Len(bs) /\ Len(bs) \in Nat /\ Len(bs) > 0
        /\ \A a \in c.brokers : \E i \in DOMAIN bs : bs[i] = a
    BY <2>1, <2>2, Ordered
  <2>4. \A i \in DOMAIN bs : /\ rs[i] \in Requests /\ rs[i].api = "list_groups" /\ rs[i].state = "new"
                             /\ rs[i].names = {} /\ rs[i].node = bs[i] /\ rs[i].node \in Brokers
    <3> SUFFICES ASSUME NEW i \in DOMAIN bs
                 PROVE  /\ rs[i] \in Requests /\ rs[i].api = "list_groups" /\ rs[i].state = "new"
                        /\ rs[i].names = {} /\ rs[i].node = bs[i] /\ rs[i].node \in Brokers
      OBVIOUS
    <3>1. rs[i] = Admin!Request("list_groups", {}, bs[i]) /\ bs[i] \in Brokers /\ bs[i] \in Admin!Places \cup {Admin!AnyNode}
      BY <2>1, <2>2, <2>3 DEF Admin!Places
    <3>2. "list_groups" \in Apis /\ {} \in SUBSET Admin!Names
      BY DEF Apis
    <3>3. QED
      BY <3>1, <3>2, RequestType
  <2>5. rs \in Seq(Requests) /\ Len(rs) = Len(bs) /\ DOMAIN rs = DOMAIN bs /\ rs # <<>> /\ 1 \in DOMAIN rs
    <3>1. rs \in [1 .. Len(bs) -> Requests] /\ DOMAIN rs = 1 .. Len(bs)
      BY <2>1, <2>3, <2>4
    <3>2. rs \in Seq(Requests) /\ Len(rs) = Len(bs)
      BY <2>3, <3>1
    <3>3. QED
      BY <2>3, <3>1, <3>2
  <2>6. Asks(rs, y, were, c.brokers)
    BY <1>7, <2>3, <2>4, <2>5 DEF Asks, Belongs, Admin!Commands, Admin!GroupOps
  <2>7. QED
    BY <2>4, <2>5, <2>6 DEF Admin!GroupOps
<1>8. CASE y.op \in {"delete_records", "describe_topics", "alter_configs"}
  <2> DEFINE api == IF y.op = "describe_topics" \/ (y.op = "delete_records" /\ y.node = Admin!AnyNode) THEN "metadata" ELSE y.op
             node == IF y.op = "delete_records" THEN y.node ELSE Admin!AnyNode
  <2>1. rs = <<Admin!Request(api, S, node)>>
    BY <1>8 DEF Admin!first_round, Admin!alter_configs, Admin!Commands, Admin!GroupOps
  <2>2. api \in Apis /\ node \in Admin!Places \cup {Admin!AnyNode}
    BY <1>2, <1>8 DEF Apis, Admin!Operations, Admin!Places
  <2>3. /\ rs \in Seq(Requests) /\ rs # <<>> /\ DOMAIN rs = {1} /\ Len(rs) = 1
        /\ rs[1].api = api /\ rs[1].names = S /\ rs[1].node = node /\ rs[1].state = "new"
    <3> HIDE DEF api, node, S
    <3>1. QED
      BY <1>3, <2>1, <2>2
  <2> HIDE DEF S
  <2>4. api = "delete_records" => y.node # Admin!AnyNode
    BY <1>8
  <2>5. api \notin Admin!GroupOps \cup Admin!Commands \cup {"controller", "find_coordinator", "describe_configs", "list_groups"}
    BY <1>8 DEF Admin!GroupOps, Admin!Commands
  <2>6. Belongs(api, y.op)
    BY <1>8 DEF Belongs
  <2> HIDE DEF api, node
  <2>7. Asks(rs, y, were, c.brokers)
    BY <1>8, <2>3, <2>4, <2>5, <2>6 DEF Asks, S, Admin!GroupOps, Admin!Commands
  <2>8. QED
    BY <2>3, <2>4, <2>5, <2>7 DEF S
<1>9. CASE y.op = "describe_configs"
  <2> DEFINE own == Admin!of_brokers(y)
             other == Admin!of_others(y)
             tail == IF other = {} THEN <<>> ELSE <<Admin!Request(y.op, other, Admin!AnyNode)>>
  <2>1. PICK bs \in Admin!SetToSeqs(own) : rs = [i \in DOMAIN bs |-> Admin!Request(y.op, {bs[i]}, bs[i])] \o tail
    BY <1>9 DEF Admin!first_round, Admin!describe_configs, Admin!Commands, Admin!GroupOps
  <2>2. own = S \cap Brokers /\ other = S \ Brokers /\ IsFiniteSet(own)
    <3>1. IsFiniteSet(S)
      BY NamesFinite
    <3>2. own = S \cap Brokers /\ other = S \ Brokers
      BY DEF Admin!of_brokers, Admin!of_others
    <3>3. QED
      BY <3>1, <3>2, FS_Intersection
  <2> HIDE DEF own, other
  <2>3. /\ bs \in Seq(own) /\ DOMAIN bs = 1 .. Len(bs) /\ Len(bs) \in Nat /\ (own # {} => Len(bs) > 0)
    BY <2>1, <2>2, Ordered
  <2> DEFINE front == [i \in DOMAIN bs |-> Admin!Request(y.op, {bs[i]}, bs[i])]
  <2>4. \A i \in DOMAIN bs : /\ front[i] \in Requests /\ front[i].api = y.op /\ front[i].state = "new"
                             /\ front[i].names = {bs[i]} /\ front[i].node = bs[i] /\ bs[i] \in S
    <3> SUFFICES ASSUME NEW i \in DOMAIN bs
                 PROVE  /\ front[i] \in Requests /\ front[i].api = y.op /\ front[i].state = "new"
                        /\ front[i].names = {bs[i]} /\ front[i].node = bs[i] /\ bs[i] \in S
      OBVIOUS
    <3> DEFINE ns == {bs[i]}
    <3>1. front[i] = Admin!Request(y.op, ns, bs[i]) /\ bs[i] \in S /\ ns \in SUBSET Admin!Names /\ bs[i] \in Admin!Places \cup {Admin!AnyNode}
      BY <1>1, <2>2, <2>3 DEF Admin!Places
    <3> HIDE DEF ns, front
    <3>2. QED
      BY <1>2, <3>1, RequestType DEF ns
  <2>5. front \in Seq(Requests) /\ Len(front) = Len(bs)
    <3>1. front \in [1 .. Len(bs) -> Requests]
      BY <2>3, <2>4
    <3>2. QED
      BY <2>3, <3>1
  <2>6. /\ tail \in Seq(Requests) /\ Len(tail) \in {0, 1} /\ (other # {} => Len(tail) = 1)
        /\ Len(tail) = 1 => /\ tail[1].api = y.op /\ tail[1].state = "new" /\ tail[1].names = other /\ tail[1].node = Admin!AnyNode
    <3>1. CASE other = {}
      BY <3>1
    <3>2. CASE other # {}
      <4>1. other \in SUBSET Admin!Names /\ Admin!AnyNode \in Admin!Places \cup {Admin!AnyNode}
        BY <1>1, <2>2
      <4>2. /\ Admin!Request(y.op, other, Admin!AnyNode) \in Requests /\ Admin!Request(y.op, other, Admin!AnyNode).api = y.op
            /\ Admin!Request(y.op, other, Admin!AnyNode).names = other
            /\ Admin!Request(y.op, other, Admin!AnyNode).node = Admin!AnyNode /\ Admin!Request(y.op, other, Admin!AnyNode).state = "new"
        BY <1>2, <4>1, RequestType
      <4>3. QED
        BY <3>2, <4>2, Alone
    <3>3. QED
      BY <3>1, <3>2
  <2>7. rs = front \o tail
    BY <2>1
  <2> HIDE DEF front, tail
  <2>8. /\ rs \in Seq(Requests) /\ Len(rs) = Len(bs) + Len(tail) /\ DOMAIN rs = 1 .. Len(rs)
        /\ \A i \in DOMAIN rs : rs[i] = IF i <= Len(bs) THEN front[i] ELSE tail[i - Len(bs)]
    BY <2>3, <2>5, <2>6, <2>7
  <2>9. Len(rs) > 0 /\ rs # <<>> /\ 1 \in DOMAIN rs
    <3>1. own # {} \/ other # {}
      BY <1>1, <1>9, <2>2
    <3>2. QED
      BY <2>3, <2>6, <2>8, <3>1
  <2>10. \A i \in DOMAIN rs : /\ rs[i].api = y.op /\ rs[i].state = "new" /\ rs[i].names \subseteq S
                              /\ rs[i].names \cap Brokers \subseteq {rs[i].node}
    <3> SUFFICES ASSUME NEW i \in DOMAIN rs
                 PROVE  /\ rs[i].api = y.op /\ rs[i].state = "new" /\ rs[i].names \subseteq S
                        /\ rs[i].names \cap Brokers \subseteq {rs[i].node}
      OBVIOUS
    <3>1. CASE i <= Len(bs)
      <4>1. i \in DOMAIN bs /\ rs[i] = front[i]
        BY <2>3, <2>8, <3>1
      <4>2. QED
        BY <2>4, <4>1
    <3>2. CASE i > Len(bs)
      <4>1. Len(tail) = 1 /\ rs[i] = tail[1]
        BY <2>3, <2>6, <2>8, <3>2
      <4>2. QED
        BY <2>2, <2>6, <4>1
    <3>3. QED
      BY <2>3, <2>8, <3>1, <3>2
  <2> HIDE DEF S
  <2>11. Asks(rs, y, were, c.brokers)
    BY <1>9, <2>9, <2>10 DEF Asks, Belongs, Admin!Commands, Admin!GroupOps, S
  <2>12. QED
    BY <1>9, <2>8, <2>9, <2>10, <2>11 DEF Admin!GroupOps
<1>10. QED
  BY <1>2, <1>4, <1>5, <1>6, <1>7, <1>8, <1>9 DEF Admin!Operations

LEMMA StepCall == ASSUME Admin!AdminAssumption, AdminInv, Admin!Call PROVE AdminInv'
<1>1. PICK y \in Calls :
        /\ call.state = "none" \/ (call.state = "raised" /\ call.op = y.op /\ call.names = y.names)
        /\ call' = [Admin!NoCall EXCEPT !.op = y.op, !.names = y.names, !.node = y.node, !.state = "busy"]
        /\ round' \in Admin!first_round(y)
  BY DEF Admin!Call
<1>2. /\ ~Admin!Busy /\ UNCHANGED <<brokers, c, later, abandoned>>
      /\ h' = [h EXCEPT !.calls = @ + 1, !.handled = 0, !.done = {}, !.controllers = {brokers.controller},
                        !.were = [n \in DOMAIN h.were |-> {IF n \in ConsumerGroups THEN brokers.coordinator[n] ELSE brokers.leader[n]}]]
  BY DEF Admin!Call
<1>3. Admin!IsCall(y)
  BY DEF Admin!AdminAssumption
<1>4. later = <<>> /\ later' = <<>>
  BY <1>2 DEF AdminInv, CallOK
<1>5. /\ brokers \in [up : SUBSET Brokers, controller : Admin!Places, partitions : [Topics -> 0 .. 2],
                      leader : [Topics -> Admin!Places], coordinator : [ConsumerGroups -> Brokers], groups : SUBSET ConsumerGroups]
      /\ h \in [calls : Nat, moves : Nat, handled : Nat, done : SUBSET Admin!Names, controllers : SUBSET Admin!Places,
                were : [ConsumerGroups \cup Topics -> SUBSET Admin!Places]]
  BY DEF AdminInv, BrokersOK
<1> DEFINE w == [n \in ConsumerGroups \cup Topics |-> {IF n \in ConsumerGroups THEN brokers.coordinator[n] ELSE brokers.leader[n]}]
<1>6. w \in [ConsumerGroups \cup Topics -> SUBSET Admin!Places] /\ brokers.controller \in Admin!Places /\ h.calls + 1 \in Nat
  BY <1>5 DEF Admin!Places
<1>7. /\ h' \in [calls : Nat, moves : Nat, handled : Nat, done : SUBSET Admin!Names, controllers : SUBSET Admin!Places,
                 were : [ConsumerGroups \cup Topics -> SUBSET Admin!Places]]
      /\ h'.handled = 0 /\ h'.done = {} /\ h'.controllers = {brokers.controller} /\ h'.were = w
  <2>1. h' = [h EXCEPT !.calls = h.calls + 1, !.handled = 0, !.done = {}, !.controllers = {brokers.controller}, !.were = w]
    BY <1>2, <1>5
  <2> HIDE DEF w
  <2>2. QED
    BY <1>5, <1>6, <2>1
<1>8. /\ \A g \in ConsumerGroups : brokers.coordinator[g] \in h'.were[g]
      /\ \A t \in Topics : brokers.leader[t] \in h'.were[t]
  BY <1>7 DEF Admin!AdminAssumption
<1> HIDE DEF w
<1>9. /\ call' \in CallRecords /\ call'.op = y.op /\ call'.names = y.names /\ call'.node = y.node /\ call'.state = "busy"
      /\ call'.errors = <<>> /\ call'.tries = Admin!tries_left
  <2>1. y.names \in Seq(Admin!Names) /\ y.op \in Admin!Operations /\ y.node \in Brokers \cup {Admin!AnyNode}
    BY <1>3, InCall DEF Admin!IsCall
  <2>2. <<>> \in Seq(Admin!Names) /\ <<>> \in Results /\ "none" \in Raised
    BY Nothing DEF Raised, Errors
  <2>3. Admin!NoCall \in CallRecords
    BY <2>2 DEF Admin!NoCall, CallRecords, Admin!tries_left
  <2> DEFINE made == [Admin!NoCall EXCEPT !.op = y.op, !.names = y.names, !.node = y.node, !.state = "busy"]
  <2>4. /\ made.op = y.op /\ made.names = y.names /\ made.node = y.node /\ made.state = "busy"
        /\ made.errors = <<>> /\ made.tries = Admin!tries_left
    BY DEF Admin!NoCall
  <2>5. made \in CallRecords
    BY <2>1, <2>3 DEF CallRecords
  <2>6. call' = made
    BY <1>1
  <2> HIDE DEF made
  <2>7. QED
    BY <2>4, <2>5, <2>6
<1>10. Admin!Busy' /\ Admin!IsCall(call)'
  BY <1>3, <1>9 DEF Admin!Busy, Admin!IsCall
<1>11. /\ round' \in Seq(Requests) /\ round' # <<>> /\ \A i \in DOMAIN round' : round'[i].state = "new"
       /\ round'[1].api = "delete_records" => round'[1].names = Admin!ToSet(y.names)
       /\ Asks(round', y, h'.were, c.brokers)
       /\ \A i \in DOMAIN round' : round'[i].api # "controller"
  <2> DEFINE w2 == h'.were
             rs == round'
  <2>1. rs \in Admin!first_round(y)
    BY <1>1
  <2> HIDE DEF w2, rs
  <2>2. /\ rs \in Seq(Requests) /\ rs # <<>> /\ \A i \in DOMAIN rs : rs[i].state = "new"
        /\ rs[1].api = "delete_records" => rs[1].names = Admin!ToSet(y.names)
        /\ (\A i \in DOMAIN rs : rs[i].api \in Admin!GroupOps \cup {"delete_records"} => y.node # Admin!AnyNode)
                 => Asks(rs, y, w2, c.brokers)
        /\ \A i \in DOMAIN rs : rs[i].api \in Admin!GroupOps \cup {"delete_records"} => y.node # Admin!AnyNode
        /\ \A i \in DOMAIN rs : rs[i].api # "controller"
    BY <1>3, <2>1, FirstRound, Zenon
  <2>3. Asks(rs, y, w2, c.brokers)
    BY <2>2, Zenon
  <2>4. QED
    BY <2>2, <2>3, Zenon DEF rs, w2
<1>12. BrokersOK'
  BY <1>2, <1>7 DEF AdminInv, BrokersOK
<1>13. CallOK'
  <2>1. \A r \in abandoned' : r.api = "perform_leader_election" => call'.op = r.api
    BY <1>1, <1>2, <1>9 DEF AdminInv, CallOK
  <2>2. QED
    BY <1>2, <1>4, <1>9, <1>10, <1>11, <2>1 DEF AdminInv, CallOK
<1>14. 1 \in DOMAIN round'
  BY <1>11
<1>15. RoundOK'
  <2>1. \A i \in DOMAIN round' : round'[i].api \in Admin!GroupOps \cup {"delete_records"} => \A n \in round'[i].names : h'.were[n] \subseteq h'.were[n]
    OBVIOUS
  <2>2. Asks(round', call', h'.were, c.brokers)
    BY <1>9, <1>11, <1>14, <2>1, AsksSame
  <2>3. Asks(round', call', h'.were, c'.brokers)
    BY <1>2, <2>2
  <2>4. Asks(round, call, h.were, c.brokers)'
    BY <2>3 DEF Asks, Belongs, Admin!ToSet
  <2>5. QED
    BY <1>11, <2>4 DEF RoundOK
<1>16. CommandsOK'
  BY <1>7, <1>9, <1>11 DEF CommandsOK, Admin!tries_left
<1>17. DeletedOK' /\ AnswersOK'
  BY <1>7, <1>11 DEF DeletedOK, AnswersOK
<1>18. RecordsOK'
  <2>1. DOMAIN call'.errors = {} /\ DOMAIN later' = {} /\ Admin!ToSet(call.names)' = Admin!ToSet(y.names)
    BY <1>4, <1>9, Nothing DEF Admin!ToSet
  <2>2. UNION {later'[k].names : k \in DOMAIN later'} = {}
    BY <2>1
  <2>3. round'[1].api = "delete_records" =>
          /\ Admin!ToSet(call.names)' = round'[1].names \cup DOMAIN call'.errors \cup UNION {later'[k].names : k \in DOMAIN later'}
          /\ \A n \in DOMAIN call'.errors : call'.errors[n] # "not_controller" /\ (Admin!ok(call'.errors[n]) => n \in h'.done)
    BY <1>11, <2>1, <2>2
  <2>4. \A k \in DOMAIN later' : FALSE
    BY <2>1, Zenon
  <2>5. later' = <<>> /\ DOMAIN call'.errors = {}
    BY <1>4, <2>1
  <2>6. QED
    BY <2>3, <2>4, <2>5, Zenon DEF RecordsOK
<1>19. WereOK'
  <2>1. /\ brokers' = brokers /\ h'.handled = 0 /\ h'.done = {} /\ h'.controllers = {brokers.controller}
    BY <1>2, <1>7
  <2>2. h'.done \subseteq Admin!ToSet(call.names)' /\ brokers'.controller \in h'.controllers
    BY <2>1
  <2>3. /\ \A g \in ConsumerGroups : brokers'.coordinator[g] \in h'.were[g]
        /\ \A t \in Topics : brokers'.leader[t] \in h'.were[t]
    BY <1>8, <2>1
  <2>4. h'.handled <= 1
    BY <2>1
  <2>5. QED
    BY <2>2, <2>3, <2>4, Zenon DEF WereOK
<1>20. EndsOK'
  BY <1>9 DEF EndsOK, Admin!ReturnedIsDone, Admin!OutdatedIsRefreshed, Admin!ListComplete, Admin!Returned, Admin!Commands
<1>21. QED
  BY <1>12, <1>13, <1>15, <1>16, <1>17, <1>18, <1>19, <1>20 DEF AdminInv

LEMMA AdminInitially == ASSUME Admin!AdminAssumption, Admin!Init PROVE AdminInv
<1>1. PICK start \in Starts : brokers = start[1] /\ c = start[2]
  BY DEF Admin!Init
<1>2. /\ call = Admin!NoCall /\ round = <<>> /\ later = <<>> /\ abandoned = {}
      /\ h = [calls |-> 0, moves |-> 0, handled |-> 0, done |-> {}, controllers |-> {},
              were |-> [n \in ConsumerGroups \cup Topics |-> {}]]
  BY DEF Admin!Init
<1>3. /\ brokers \in [up : SUBSET Brokers, controller : Admin!Places, partitions : [Topics -> 0 .. 2],
                      leader : [Topics -> Admin!Places], coordinator : [ConsumerGroups -> Brokers], groups : SUBSET ConsumerGroups]
      /\ c \in [controller_id : Brokers, brokers : (SUBSET Brokers) \ {{}}]
  BY <1>1 DEF Admin!AdminAssumption
<1>4. h \in [calls : Nat, moves : Nat, handled : Nat, done : SUBSET Admin!Names, controllers : SUBSET Admin!Places,
             were : [ConsumerGroups \cup Topics -> SUBSET Admin!Places]]
  BY <1>2
<1>5. call \in CallRecords /\ call.state = "none"
  <2>1. <<>> \in Seq(Admin!Names) /\ <<>> \in Results /\ "none" \in Raised
    BY Nothing DEF Raised, Errors
  <2>2. QED
    BY <1>2, <2>1 DEF Admin!NoCall, CallRecords, Admin!tries_left
<1>6. ~Admin!Busy /\ h.handled = 0
  BY <1>2, <1>5 DEF Admin!Busy
<1>7. BrokersOK
  BY <1>3, <1>4 DEF BrokersOK
<1>8. CallOK
  BY <1>2, <1>5 DEF CallOK
<1>9. RoundOK /\ CommandsOK /\ DeletedOK /\ RecordsOK /\ AnswersOK /\ WereOK
  BY <1>6 DEF RoundOK, CommandsOK, DeletedOK, RecordsOK, AnswersOK, WereOK
<1>10. EndsOK
  BY <1>5 DEF EndsOK, Admin!ReturnedIsDone, Admin!OutdatedIsRefreshed, Admin!ListComplete, Admin!Returned
<1>11. QED
  BY <1>7, <1>8, <1>9, <1>10 DEF AdminInv

LEMMA AdminStep == ASSUME Admin!AdminAssumption, AdminInv, [Admin!Next]_(Admin!vars) PROVE AdminInv'
<1>1. CASE UNCHANGED Admin!vars
  <2>1. brokers' = brokers /\ c' = c /\ call' = call /\ round' = round /\ later' = later /\ abandoned' = abandoned /\ h' = h
    BY <1>1 DEF Admin!vars
  <2>2. BrokersOK' /\ WereOK'
    BY <2>1 DEF AdminInv, BrokersOK, WereOK, Admin!Busy, Admin!ToSet
  <2>3. QED
    BY <2>1, <2>2, Beneath
<1>2. CASE Admin!Next
  BY <1>2, StepCall, StepSend, StepWait, StepCommand, StepRefresh, StepFind, StepGroups, StepList,
     StepLeaders, StepRecords, StepConfigs, StepServe, StepLose, StepAbandoned, StepMove DEF Admin!Next
<1>3. QED
  BY <1>1, <1>2

\* What the invariant says of every state.
LEMMA AdminHolds ==
    ASSUME AdminInv
    PROVE  Admin!AdminTypeOK /\ Admin!HandledOnce /\ Admin!ReturnedIsDone /\ Admin!OutdatedIsRefreshed /\ Admin!AskedRightly /\ Admin!ListComplete
<1>1. Admin!AdminTypeOK
  <2>1. call.state \in {"none", "busy", "returned", "raised"} /\ call.tries \in 0 .. Admin!tries_left
    BY DEF AdminInv, CallOK, CallRecords
  <2>2. Admin!Busy <=> round # <<>>
    BY DEF AdminInv, CallOK, RoundOK, Asks
  <2>3. \A i \in DOMAIN round :
           /\ round[i].state \in {"new", "sent", "succeeded", "failed"} /\ round[i].names \subseteq Admin!Names
           /\ round[i].state # "new" => round[i].at \in Brokers
    <3> SUFFICES ASSUME NEW i \in DOMAIN round
                 PROVE  /\ round[i].state \in {"new", "sent", "succeeded", "failed"} /\ round[i].names \subseteq Admin!Names
                        /\ round[i].state # "new" => round[i].at \in Brokers
      OBVIOUS
    <3>1. round[i] \in Requests
      BY DEF AdminInv, CallOK
    <3>2. Admin!Busy
      BY <2>2
    <3>3. round[i].state # "new" => round[i].at \in Brokers
      BY <3>2 DEF AdminInv, RoundOK
    <3>4. QED
      BY <3>1, <3>3 DEF Requests
  <2>4. c.controller_id \in Brokers
    BY DEF AdminInv, BrokersOK
  <2>5. QED
    BY <2>1, <2>2, <2>3, <2>4 DEF Admin!AdminTypeOK
<1>2. Admin!HandledOnce /\ Admin!ReturnedIsDone /\ Admin!OutdatedIsRefreshed /\ Admin!ListComplete
  BY DEF AdminInv, WereOK, EndsOK, Admin!HandledOnce
<1>3. Admin!AskedRightly
  <2>1. Admin!Busy => Asks(round, call, h.were, c.brokers)
    BY DEF AdminInv, RoundOK
  <2>2. QED
    BY <2>1 DEF Asks, Admin!AskedRightly
<1>4. QED
  BY <1>1, <1>2, <1>3

AdminPartInv == part = "admin" => AdminInv

\* KafkaAdminClient: however controllers, coordinators and leaders move, brokers go and
\* connections fail, no command is handled twice, a call that returns has done what it
\* says, what fails for a stale controller had one that moved, and whoever is asked for a
\* group or a partition had it during the call.
THEOREM AdminAlwaysSound == LayersSpec => []AdminCallsSound
<1>1. LayersInit => AdminPartInv
  BY AdminConstants, AdminInitially DEF LayersInit, AdminPartInv
<1>2. AdminPartInv /\ [LayersNext]_<<part, assignorsVars, recordsVars, wireVars, adminVars, poolVars>> => AdminPartInv'
  <2> SUFFICES ASSUME AdminPartInv, [LayersNext]_<<part, assignorsVars, recordsVars, wireVars, adminVars, poolVars>>,
                      part' = "admin"
               PROVE  AdminInv'
    BY DEF AdminPartInv
  <2>1. part = "admin" /\ [Admin!Next]_(Admin!vars)
    BY DEF LayersNext, adminVars, Admin!vars
  <2>2. QED
    BY <2>1, AdminConstants, AdminStep DEF AdminPartInv
<1>3. AdminPartInv => AdminCallsSound
  BY AdminHolds DEF AdminPartInv, AdminCallsSound
<1>4. QED
  BY <1>1, <1>2, <1>3, PTL DEF LayersSpec
=============================================================================
