------------------------ MODULE KafkaProducer_proofs ------------------------
(* Proofs about KafkaProducer, for any partitions, nodes, modes and bounds:
   wherever the application, the sender thread, the brokers and the clock come
   between, a batch that has no result is in one place, where it will get one,
   and what is acknowledged is written, once and in order where that is promised. *)
EXTENDS KafkaProducer, FiniteSetTheorems, SequenceTheorems, WellFoundedInduction, TLAPS

(* Sequences. *)

Elements(s) == {s[k] : k \in DOMAIN s}
Distinct(s) == \A j, k \in DOMAIN s : j # k => s[j] # s[k]
Rising(s) == \A j, k \in DOMAIN s : j < k => s[j] < s[k]

LEMMA Less == IsWellFoundedOn({p \in Nat \X Nat : p[1] < p[2]}, Nat)
BY NatLessThanWellFounded DEF OpToRel

\* The natural numbers are well-founded; so there is a first one of a kind.
LEMMA Smallest == ASSUME NEW T \in SUBSET Nat, T # {} PROVE \E n \in T : \A m \in T : n <= m
<1> DEFINE R == {p \in Nat \X Nat : p[1] < p[2]}
<1>1. PICK n \in T : \A m \in T : ~(<<m, n>> \in R)
  <2> HIDE DEF R
  <2>1. IsWellFoundedOn(R, Nat)
    BY Less DEF R
  <2>2. QED
    BY <2>1, WFMin
<1>2. \A m \in T : n \in Nat /\ m \in Nat /\ ~(m < n)
  BY <1>1
<1>3. \A m \in T : n <= m
  <2> TAKE m \in T
  <2>1. n \in Nat /\ m \in Nat /\ ~(m < n)
    BY <1>2
  <2>2. QED
    BY <2>1
<1>4. QED
  BY <1>3

\* Induction, over what is defined as a set.
LEMMA Inductively == ASSUME NEW S \in SUBSET Nat, 0 \in S, \A n \in S : n + 1 \in S PROVE Nat \subseteq S
<1> DEFINE T == Nat \ S
<1>1. ASSUME T # {} PROVE FALSE
  <2>1. T \in SUBSET Nat
    OBVIOUS
  <2>2. PICK n \in T : \A m \in T : n <= m
    BY <1>1, <2>1, Smallest
  <2>3. n # 0 /\ n - 1 \in Nat /\ n - 1 \notin T
    BY <2>2
  <2>4. (n - 1) + 1 \in S
    BY <2>3
  <2>5. QED
    BY <2>4, <2>2
<1>2. QED
  BY <1>1

\* Kept is a recursive function, which there is; and it keeps what is not in ids, in its order.
LEMMA KeptOK ==
    ASSUME NEW S, NEW q \in Seq(S), NEW ids
    PROVE  /\ Kept(q, ids) \in Seq(S) /\ Elements(Kept(q, ids)) = Elements(q) \ ids
           /\ Distinct(q) => Distinct(Kept(q, ids))
           /\ S \subseteq Nat /\ Rising(q) => Rising(Kept(q, ids))
<1> DEFINE len == Len(q)
           next(f, k) == IF k = 0 THEN <<>> ELSE IF q[k] \in ids THEN f[k - 1] ELSE Append(f[k - 1], q[k])
           T == {n \in Nat : n <= len => \E f : f = [k \in 0 .. n |-> next(f, k)]}
<1>0. len \in Nat /\ DOMAIN q = 1 .. len /\ \A k \in 1 .. len : q[k] \in S
  OBVIOUS
<1>1. PICK first : first = [k \in 0 .. len |-> next(first, k)]
  <2>1. 0 \in T
    <3> DEFINE f == [k \in 0 .. 0 |-> <<>>]
    <3>1. \A k \in 0 .. 0 : next(f, k) = <<>>
      OBVIOUS
    <3>2. f = [k \in 0 .. 0 |-> next(f, k)]
      BY <3>1
    <3>3. QED
      BY <3>2
  <2>2. ASSUME NEW n \in T, n + 1 <= len PROVE \E f : f = [k \in 0 .. n + 1 |-> next(f, k)]
    <3>0. n \in Nat
      OBVIOUS
    <3>1. PICK f : f = [k \in 0 .. n |-> next(f, k)]
      <4> HIDE DEF next
      <4>1. n <= len
        BY <1>0, <2>2, <3>0
      <4>2. QED
        BY <4>1
    <3> DEFINE g == [k \in 0 .. n + 1 |-> IF k = n + 1 THEN next(f, k) ELSE f[k]]
    <3>2. \A k \in 0 .. n + 1 : g[k] = next(g, k)
      <4> TAKE k \in 0 .. n + 1
      <4>1. CASE k = n + 1
        <5>1. g[k] = next(f, k)
          BY <4>1
        <5>2. k - 1 = n /\ k # 0 /\ n \in 0 .. n + 1 /\ n # n + 1
          BY <4>1
        <5>3. g[k - 1] = f[k - 1]
          BY <5>2
        <5>4. QED
          BY <5>1, <5>2, <5>3
      <4>2. CASE k # n + 1
        <5>0. k \in 0 .. n /\ g[k] = f[k]
          BY <3>0, <4>2
        <5>1. f[k] = next(f, k)
          <6> HIDE DEF next
          <6>1. QED
            BY <3>1, <5>0
        <5>2. k # 0 => k - 1 \in 0 .. n + 1 /\ g[k - 1] = f[k - 1]
          BY <3>0, <5>0
        <5>3. QED
          BY <5>0, <5>1, <5>2
      <4>3. QED
        BY <4>1, <4>2
    <3>3. g = [k \in 0 .. n + 1 |-> next(g, k)]
      BY <3>2
    <3>4. QED
      BY <3>3
  <2>3. \A n \in T : n + 1 \in T
    <3> HIDE DEF next
    <3>1. QED
      BY <2>2
  <2>4. Nat \subseteq T
    <3> HIDE DEF T
    <3>1. T \in SUBSET Nat
      BY DEF T
    <3>2. QED
      BY <2>1, <2>3, <3>1, Inductively
  <2>5. len \in T
    BY <1>0, <2>4
  <2> HIDE DEF next
  <2>6. QED
    BY <1>0, <2>5
<1> DEFINE made == CHOOSE f : f = [k \in 0 .. len |-> next(f, k)]
<1>2. made = [k \in 0 .. len |-> next(made, k)]
  <2> HIDE DEF next
  <2>1. QED
    BY <1>1
<1>3. Kept(q, ids) = made[len]
  BY DEF Kept
<1> HIDE DEF made
<1>4. /\ made[0] = <<>>
      /\ \A k \in 1 .. len : made[k] = IF q[k] \in ids THEN made[k - 1] ELSE Append(made[k - 1], q[k])
  <2>1. \A k \in 0 .. len : made[k] = next(made, k)
    <3> HIDE DEF next
    <3>1. QED
      BY <1>2
  <2>2. QED
    BY <1>0, <2>1
<1> DEFINE Right(n) == /\ made[n] \in Seq(S) /\ Elements(made[n]) = {q[k] : k \in 1 .. n} \ ids
                       /\ Distinct(q) => Distinct(made[n])
                       /\ S \subseteq Nat /\ Rising(q) => Rising(made[n])
           U == {n \in Nat : n <= len => Right(n)}
<1>5. 0 \in U
  <2>1. made[0] = <<>> /\ <<>> \in Seq(S) /\ DOMAIN <<>> = {}
    BY <1>4
  <2>2. Elements(<<>>) = {} /\ Distinct(<<>>) /\ Rising(<<>>)
    BY <2>1 DEF Elements, Distinct, Rising
  <2>3. {q[k] : k \in 1 .. 0} = {}
    OBVIOUS
  <2>4. QED
    BY <2>1, <2>2, <2>3
<1>6. ASSUME NEW n \in Nat, Right(n), n + 1 <= len PROVE Right(n + 1)
  <2>1. made[n + 1] = IF q[n + 1] \in ids THEN made[n] ELSE Append(made[n], q[n + 1])
    BY <1>4, <1>6
  <2>2. {q[k] : k \in 1 .. n + 1} = {q[k] : k \in 1 .. n} \cup {q[n + 1]} /\ q[n + 1] \in S
    BY <1>0, <1>6
  <2>3. CASE q[n + 1] \in ids
    BY <1>6, <2>1, <2>2, <2>3
  <2>4. CASE q[n + 1] \notin ids
    <3> DEFINE s == made[n]
               t == Append(s, q[n + 1])
               m == Len(s)
    <3>1. s \in Seq(S) /\ m \in Nat /\ DOMAIN s = 1 .. m
      BY <1>6
    <3>2. t \in Seq(S) /\ DOMAIN t = 1 .. m + 1 /\ t[m + 1] = q[n + 1] /\ \A k \in 1 .. m : t[k] = s[k]
      BY <2>2, <3>1
    <3>3. Elements(t) = Elements(s) \cup {q[n + 1]}
      BY <3>1, <3>2, SMTT(30) DEF Elements
    <3>4. Distinct(q) => q[n + 1] \notin Elements(s)
      <4>1. Elements(s) \subseteq {q[k] : k \in 1 .. n}
        BY <1>6
      <4>2. Distinct(q) => \A k \in 1 .. n : q[k] # q[n + 1]
        BY <1>0, <1>6 DEF Distinct
      <4>3. QED
        BY <4>1, <4>2
    <3>5. Distinct(q) => Distinct(t)
      <4>1. Distinct(q) => Distinct(s)
        BY <1>6
      <4>2. Distinct(q) => \A k \in 1 .. m : s[k] # q[n + 1]
        BY <3>1, <3>4 DEF Elements
      <4>3. QED
        <5> HIDE DEF t, s, m
        <5>1. QED
          BY <3>1, <3>2, <4>1, <4>2 DEF Distinct
    <3>6. ASSUME S \subseteq Nat, Rising(q) PROVE Rising(t)
      <4>1. Rising(s)
        BY <1>6, <3>6
      <4>2. \A k \in 1 .. n : q[k] < q[n + 1]
        BY <1>0, <1>6, <3>6 DEF Rising
      <4>3. \A k \in 1 .. m : \E j \in 1 .. n : s[k] = q[j]
        BY <1>6, <3>1 DEF Elements
      <4>4. \A k \in 1 .. m : s[k] < q[n + 1]
        BY <4>2, <4>3
      <4>5. QED
        <5> HIDE DEF t, s, m
        <5>1. \A j, k \in 1 .. m + 1 : j < k => j \in 1 .. m /\ (k \in 1 .. m \/ k = m + 1)
          BY <3>1
        <5>2. QED
          BY <3>1, <3>2, <4>1, <4>4, <5>1 DEF Rising
    <3>7. Elements(t) = {q[k] : k \in 1 .. n + 1} \ ids
      BY <1>6, <2>2, <2>4, <3>3
    <3>8. made[n + 1] = t
      BY <2>1, <2>4
    <3>9. QED
      BY <3>2, <3>5, <3>6, <3>7, <3>8
  <2>5. QED
    BY <2>3, <2>4
<1>7. \A n \in U : n + 1 \in U
  <2> HIDE DEF Right
  <2>1. QED
    BY <1>0, <1>6
<1>8. Nat \subseteq U
  <2> HIDE DEF Right
  <2>1. QED
    BY <1>5, <1>7, Inductively
<1>9. Right(len)
  <2>1. len \in U
    BY <1>0, <1>8
  <2> HIDE DEF Right
  <2>2. QED
    BY <2>1
<1>10. Elements(q) = {q[k] : k \in 1 .. len}
  BY <1>0 DEF Elements
<1>11. QED
  BY <1>3, <1>9, <1>10

\* How far a sequence goes before the first of a kind.
LEMMA UpToFirst ==
    ASSUME NEW n \in Nat, NEW B
    PROVE  \E k \in 0 .. n : (\A j \in 1 .. k : j \notin B) /\ (k < n => k + 1 \in B)
<1> DEFINE T == {j \in 1 .. n : j \in B}
<1>1. CASE T = {}
  BY <1>1
<1>2. CASE T # {}
  <2>1. PICK m \in T : \A j \in T : m <= j
    <3>1. T \in SUBSET Nat
      OBVIOUS
    <3> HIDE DEF T
    <3>2. QED
      BY <1>2, <3>1, Smallest
  <2>2. m \in 1 .. n /\ m - 1 \in 0 .. n /\ (m - 1) + 1 = m
    BY <2>1
  <2>3. \A j \in 1 .. m - 1 : j \notin B
    BY <2>1, <2>2
  <2>4. QED
    BY <2>1, <2>2, <2>3
<1>3. QED
  BY <1>1, <1>2

LEMMA LateOK ==
    ASSUME NEW q \in Seq(Nat), aged \in Nat
    PROVE  /\ late(q) \in 0 .. Len(q) /\ \A k \in 1 .. late(q) : q[k] <= aged
           /\ late(q) < Len(q) => q[late(q) + 1] > aged
<1> DEFINE B == {k \in 1 .. Len(q) : q[k] > aged}
<1>0. Len(q) \in Nat /\ \A k \in 1 .. Len(q) : q[k] \in Nat
  OBVIOUS
<1>1. PICK n \in 0 .. Len(q) : (\A j \in 1 .. n : j \notin B) /\ (n < Len(q) => n + 1 \in B)
  <2> HIDE DEF B
  <2>1. QED
    BY <1>0, UpToFirst
<1>2. \A k \in 1 .. n : q[k] <= aged
  BY <1>0, <1>1
<1>3. n < Len(q) => q[n + 1] > aged
  BY <1>1
<1>4. QED
  BY <1>2, <1>3 DEF late

-----------------------------------------------------------------------------
(* The transaction manager.  Two requests end something: InitProducerId and
   EndTxn take it to READY.                                                  *)

Good == {q \in Request : q.result = "end" => q.kind = "EndTxn"}
GoodManager ==
    [state : States, pid : Nat, seq : [Partition -> Nat],
     new : SUBSET Partition, pending : SUBSET Partition, added : SUBSET Partition,
     started : BOOLEAN, requests : Seq(Good), in_flight : Good \cup {NoRequest},
     coordinator : [Coordinators -> BOOLEAN], offsets : BOOLEAN,
     results : [Results -> {"none", "pending", "done", "failed"}]]

Ends == {"EndTxn", "InitProducerId"}
In(m, kind) == \E k \in DOMAIN m.requests : m.requests[k].kind = kind
NoEnds(m) == \A k \in DOMAIN m.requests : m.requests[k].kind \notin Ends
OneEnd(m) == \A j, k \in DOMAIN m.requests : m.requests[j].kind \in Ends /\ m.requests[k].kind \in Ends => j = k

Anywhere(m, r, kind) == In(m, kind) \/ r.kind = kind \/ m.in_flight.kind = kind

\* Where a transaction has batches, or is about to.
Open == {"IN_TRANSACTION", "COMMITTING_TRANSACTION", "ABORTING_TRANSACTION", "ABORTABLE_ERROR", "FATAL_ERROR"}

\* The manager m, the request r that the sender thread holds, the application's call a and
\* the batches inc without a result: one such request at most is anywhere; an EndTxn has the
\* application wait, and is sent when all batches have their results; and a transaction
\* with batches is open.
ManagerInv(m, r, a, inc) ==
    /\ m \in GoodManager /\ r \in Good \cup {NoRequest}
    /\ r = NoRequest \/ m.in_flight = NoRequest
    /\ OneEnd(m)
    /\ r.kind \in Ends \/ m.in_flight.kind \in Ends => NoEnds(m)
    /\ Anywhere(m, r, "EndTxn") => a.at = "wait" /\ a.result = "end" /\ m.results["end"] = "pending"
    /\ Anywhere(m, r, "InitProducerId") => m.state \in {"INITIALIZING", "FATAL_ERROR"}
    /\ r.kind = "EndTxn" \/ m.in_flight.kind = "EndTxn" => inc = {}
    /\ transactional /\ (inc # {} \/ a.at = "append") => m.state \in Open

LEMMA AheadOK == ASSUME NEW q \in Seq(Good), NEW r \in Good PROVE ahead(q, r) \in 0 .. Len(q)
<1> DEFINE B == {k \in 1 .. Len(q) : priority(q[k].kind) > priority(r.kind)}
<1>0. Len(q) \in Nat /\ \A k \in 1 .. Len(q) : q[k] \in Good
  OBVIOUS
<1>1. \A g \in Good : priority(g.kind) \in Nat
  BY DEF Good, Request, Kinds, priority
<1>2. PICK n \in 0 .. Len(q) : (\A j \in 1 .. n : j \notin B) /\ (n < Len(q) => n + 1 \in B)
  <2> HIDE DEF B
  <2>1. QED
    BY <1>0, UpToFirst
<1>3. \A k \in 1 .. n : priority(q[k].kind) <= priority(r.kind)
  BY <1>0, <1>1, <1>2
<1>4. n < Len(q) => priority(q[n + 1].kind) > priority(r.kind)
  BY <1>2
<1>5. QED
  BY <1>3, <1>4 DEF ahead

\* One request more, somewhere, and the others in their order.
Insert(s, x, n) == SubSeq(s, 1, n) \o <<x>> \o SubSeq(s, n + 1, Len(s))
LEMMA InsertOK ==
    ASSUME NEW S, NEW s \in Seq(S), NEW x \in S, NEW n \in 0 .. Len(s)
    PROVE  LET t == Insert(s, x, n) IN
           /\ t \in Seq(S) /\ Len(t) = Len(s) + 1 /\ t[n + 1] = x
           /\ \A k \in 1 .. n : t[k] = s[k]
           /\ \A k \in n + 2 .. Len(s) + 1 : t[k] = s[k - 1]
<1> DEFINE a == SubSeq(s, 1, n)
           b == SubSeq(s, n + 1, Len(s))
           u == a \o <<x>>
           w == u \o b
           t == Insert(s, x, n)
<1>0. t = w
  BY DEF Insert
<1> HIDE DEF t
<1>1. Len(s) \in Nat /\ n \in Nat /\ n <= Len(s)
  OBVIOUS
<1>2. a \in Seq(S) /\ Len(a) = n /\ \A k \in 1 .. n : a[k] = s[k]
  BY <1>1
<1>3. b \in Seq(S) /\ Len(b) = Len(s) - n /\ \A k \in 1 .. Len(s) - n : b[k] = s[n + k]
  BY <1>1
<1> HIDE DEF a, b
<1>4. u \in Seq(S) /\ Len(u) = n + 1 /\ u[n + 1] = x /\ \A k \in 1 .. n : u[k] = s[k]
  BY ONLY <1>1, <1>2, x \in S
<1> HIDE DEF u
<1>5. /\ w \in Seq(S) /\ Len(w) = Len(u) + Len(b)
      /\ \A i \in 1 .. Len(u) + Len(b) : w[i] = IF i <= Len(u) THEN u[i] ELSE b[i - Len(u)]
  BY ONLY <1>3, <1>4, ConcatProperties
<1> HIDE DEF w
<1>6. Len(w) = Len(s) + 1 /\ \A i \in 1 .. Len(s) + 1 : w[i] = IF i <= n + 1 THEN u[i] ELSE b[i - (n + 1)]
  BY ONLY <1>1, <1>3, <1>4, <1>5
<1>7. \A k \in 1 .. n : w[k] = s[k]
  BY ONLY <1>1, <1>4, <1>6
<1>8. w[n + 1] = x
  BY ONLY <1>1, <1>4, <1>6
<1>9. \A k \in n + 2 .. Len(s) + 1 : w[k] = s[k - 1]
  <2> TAKE k \in n + 2 .. Len(s) + 1
  <2>1. k - (n + 1) \in 1 .. Len(s) - n /\ n + (k - (n + 1)) = k - 1 /\ k \in 1 .. Len(s) + 1 /\ ~(k <= n + 1)
    BY ONLY <1>1, k \in n + 2 .. Len(s) + 1
  <2>2. QED
    BY <1>3, <1>6, <2>1
<1>10. QED
  BY ONLY <1>0, <1>5, <1>6, <1>7, <1>8, <1>9 DEF t

LEMMA EnqueueOK ==
    ASSUME NEW m \in GoodManager, NEW r \in Good
    PROVE  LET n == _enqueue_request(m, r) IN
           /\ n \in GoodManager /\ n.state = m.state /\ n.in_flight = m.in_flight /\ n.results = m.results
           /\ n.new = m.new /\ n.pending = m.pending /\ n.pid = m.pid /\ n.started = m.started
           /\ n.requests # <<>>
           /\ \A kind : In(n, kind) <=> In(m, kind) \/ r.kind = kind
           /\ (r.kind \notin Ends /\ OneEnd(m)) \/ NoEnds(m) => OneEnd(n)
           /\ r.kind \notin Ends /\ NoEnds(m) => NoEnds(n)
<1> DEFINE s == m.requests
           k == ahead(s, r)
           t == Insert(s, r, k)
           n == [m EXCEPT !.requests = t]
<1>1. s \in Seq(Good) /\ Len(s) \in Nat /\ DOMAIN s = 1 .. Len(s)
  BY DEF GoodManager
<1>2. k \in 0 .. Len(s)
  BY <1>1, AheadOK
<1>3. _enqueue_request(m, r) = n
  BY DEF _enqueue_request, Insert
<1> HIDE DEF k
<1>4. /\ t \in Seq(Good) /\ Len(t) = Len(s) + 1 /\ t[k + 1] = r
      /\ \A j \in 1 .. k : t[j] = s[j]
      /\ \A j \in k + 2 .. Len(s) + 1 : t[j] = s[j - 1]
  <2> HIDE DEF s, t
  <2>1. t \in Seq(Good)
    BY <1>1, <1>2, InsertOK DEF t
  <2>2. Len(t) = Len(s) + 1
    BY <1>1, <1>2, InsertOK DEF t
  <2>3. t[k + 1] = r
    BY <1>1, <1>2, InsertOK DEF t
  <2>4. \A j \in 1 .. k : t[j] = s[j]
    BY <1>1, <1>2, InsertOK DEF t
  <2>5. \A j \in k + 2 .. Len(s) + 1 : t[j] = s[j - 1]
    BY <1>1, <1>2, InsertOK DEF t
  <2>6. QED
    BY <2>1, <2>2, <2>3, <2>4, <2>5
<1> HIDE DEF t
<1>5. /\ n \in GoodManager /\ n.requests = t /\ n.state = m.state /\ n.in_flight = m.in_flight /\ n.results = m.results
      /\ n.new = m.new /\ n.pending = m.pending /\ n.pid = m.pid /\ n.started = m.started
  BY <1>4 DEF GoodManager
<1> HIDE DEF n, s
<1>6. m.requests = s /\ n.requests = t /\ DOMAIN t = 1 .. Len(s) + 1 /\ t # <<>>
  BY <1>1, <1>4, <1>5 DEF s
<1>7. ASSUME NEW kind PROVE In(n, kind) <=> In(m, kind) \/ r.kind = kind
  <2>1. \A j \in 1 .. Len(s) : \E i \in 1 .. Len(s) + 1 : t[i] = s[j]
    <3> TAKE j \in 1 .. Len(s)
    <3>1. CASE j <= k
      BY <1>1, <1>2, <1>4, <3>1
    <3>2. CASE j > k
      <4>1. j + 1 \in k + 2 .. Len(s) + 1 /\ (j + 1) - 1 = j /\ j + 1 \in 1 .. Len(s) + 1
        BY <1>1, <1>2, <3>2
      <4>2. t[j + 1] = s[j]
        BY <1>4, <4>1
      <4>3. QED
        BY <4>1, <4>2
    <3>3. QED
      BY <1>1, <1>2, <3>1, <3>2
  <2>2. \A i \in 1 .. Len(s) + 1 : t[i] = r \/ \E j \in 1 .. Len(s) : t[i] = s[j]
    <3> TAKE i \in 1 .. Len(s) + 1
    <3>1. i \in 1 .. k \/ i = k + 1 \/ (i \in k + 2 .. Len(s) + 1 /\ i - 1 \in 1 .. Len(s))
      BY <1>1, <1>2
    <3>2. k \in Nat /\ \A j \in 1 .. k : j \in 1 .. Len(s)
      BY <1>1, <1>2
    <3>3. QED
      BY <1>4, <3>1, <3>2
  <2>3. k + 1 \in 1 .. Len(s) + 1
    BY <1>1, <1>2
  <2>4. QED
    BY <1>1, <1>4, <1>6, <2>1, <2>2, <2>3 DEF In
<1>8. ASSUME NEW i \in 1 .. Len(s) + 1
      PROVE  \/ i = k + 1
             \/ i < k + 1 /\ i \in 1 .. Len(s) /\ t[i] = s[i]
             \/ i > k + 1 /\ i - 1 \in 1 .. Len(s) /\ t[i] = s[i - 1]
  <2>1. CASE i < k + 1
    BY <1>1, <1>2, <1>4, <2>1
  <2>2. CASE i > k + 1
    BY <1>1, <1>2, <1>4, <2>2
  <2>3. QED
    BY <1>1, <1>2, <2>1, <2>2
<1>9. ASSUME r.kind \notin Ends, OneEnd(m) PROVE OneEnd(n)
  <2>1. \A i, j \in 1 .. Len(s) : s[i].kind \in Ends /\ s[j].kind \in Ends => i = j
    BY <1>1, <1>6, <1>9 DEF OneEnd
  <2>2. ASSUME NEW i \in 1 .. Len(s) + 1, NEW j \in 1 .. Len(s) + 1, t[i].kind \in Ends, t[j].kind \in Ends
        PROVE  i = j
    <3>1. i # k + 1 /\ j # k + 1
      BY <1>4, <1>9, <2>2
    <3>2. CASE i < k + 1 /\ j < k + 1
      BY <1>1, <1>2, <1>8, <2>1, <2>2, <3>2
    <3>3. CASE i > k + 1 /\ j > k + 1
      BY <1>1, <1>2, <1>8, <2>1, <2>2, <3>3
    <3>4. CASE i < k + 1 /\ j > k + 1
      BY <1>1, <1>2, <1>8, <2>1, <2>2, <3>4
    <3>5. CASE i > k + 1 /\ j < k + 1
      BY <1>1, <1>2, <1>8, <2>1, <2>2, <3>5
    <3>6. QED
      BY <1>1, <1>2, <3>1, <3>2, <3>3, <3>4, <3>5
  <2>3. QED
    BY <1>6, <2>2 DEF OneEnd
<1>10. ASSUME NoEnds(m) PROVE \A i \in 1 .. Len(s) + 1 : t[i].kind \in Ends => i = k + 1
  BY <1>1, <1>6, <1>8, <1>10 DEF NoEnds
<1>11. NoEnds(m) => OneEnd(n)
  BY <1>6, <1>10 DEF OneEnd
<1>12. r.kind \notin Ends /\ NoEnds(m) => NoEnds(n)
  BY <1>4, <1>6, <1>10 DEF NoEnds
<1>13. QED
  BY <1>3, <1>5, <1>6, <1>7, <1>9, <1>11, <1>12

\* A request that ends nothing joins the queue.
LEMMA EnqueueOther ==
    ASSUME NEW m, NEW r, NEW a, NEW inc, ManagerInv(m, r, a, inc), NEW q \in Good, q.kind \notin Ends
    PROVE  ManagerInv(_enqueue_request(m, q), r, a, inc)
<1> DEFINE n == _enqueue_request(m, q)
<1>1. m \in GoodManager
  BY DEF ManagerInv
<1>2. /\ n \in GoodManager /\ n.state = m.state /\ n.in_flight = m.in_flight /\ n.results = m.results
      /\ \A kind : In(n, kind) <=> In(m, kind) \/ q.kind = kind
      /\ OneEnd(m) => OneEnd(n)
      /\ NoEnds(m) => NoEnds(n)
  BY <1>1, EnqueueOK
<1> HIDE DEF n
<1>3. \A kind \in Ends : Anywhere(n, r, kind) <=> Anywhere(m, r, kind)
  BY <1>2 DEF Anywhere
<1>4. ManagerInv(n, r, a, inc)
  BY <1>2, <1>3 DEF ManagerInv, Ends
<1>5. QED
  BY <1>4 DEF n

\* The request that is held goes back to the queue.
LEMMA EnqueueHeld ==
    ASSUME NEW m, NEW r \in Good, NEW a, NEW inc, ManagerInv(m, r, a, inc), m.in_flight = NoRequest
    PROVE  ManagerInv(_enqueue_request(m, r), NoRequest, a, inc)
<1> DEFINE n == _enqueue_request(m, r)
<1>1. m \in GoodManager
  BY DEF ManagerInv
<1>2. /\ n \in GoodManager /\ n.state = m.state /\ n.in_flight = m.in_flight /\ n.results = m.results
      /\ \A kind : In(n, kind) <=> In(m, kind) \/ r.kind = kind
      /\ (r.kind \notin Ends /\ OneEnd(m)) \/ NoEnds(m) => OneEnd(n)
  BY <1>1, EnqueueOK
<1>3. OneEnd(n)
  BY <1>2 DEF ManagerInv
<1>4. NoRequest.kind \notin Ends
  BY DEF NoRequest, Ends
<1> HIDE DEF n
<1>5. \A kind \in Ends : Anywhere(n, NoRequest, kind) => Anywhere(m, r, kind)
  BY <1>2, <1>4 DEF Anywhere
<1>6. ManagerInv(n, NoRequest, a, inc)
  BY <1>2, <1>3, <1>4, <1>5 DEF ManagerInv, Ends
<1>7. QED
  BY <1>6 DEF n

\* What else the manager goes through.
LEMMA Changed ==
    ASSUME NEW m, NEW r, NEW a, NEW inc, ManagerInv(m, r, a, inc), NEW s \in {r, NoRequest},
           NEW n \in GoodManager, n.requests = m.requests, n.in_flight = m.in_flight,
           n.results["end"] = m.results["end"] \/ ~Anywhere(m, s, "EndTxn"),
           \/ n.state = m.state \/ n.state = "FATAL_ERROR"
           \/ ~Anywhere(m, s, "InitProducerId") /\ (transactional => n.state \in Open \/ (inc = {} /\ a.at # "append"))
    PROVE  ManagerInv(n, s, a, inc)
<1>1. s.kind \in Ends => s = r
  BY DEF NoRequest, Ends
<1>2. \A kind \in Ends : /\ Anywhere(n, s, kind) <=> Anywhere(m, s, kind)
                         /\ Anywhere(m, s, kind) => Anywhere(m, r, kind)
  BY <1>1 DEF Anywhere, In
<1>3. OneEnd(n) /\ (NoEnds(m) => NoEnds(n))
  BY DEF ManagerInv, OneEnd, NoEnds
<1>4. Anywhere(n, s, "InitProducerId") => n.state \in {"INITIALIZING", "FATAL_ERROR"}
  BY <1>2 DEF ManagerInv, Ends
<1>5. Anywhere(n, s, "EndTxn") => a.at = "wait" /\ a.result = "end" /\ n.results["end"] = "pending"
  BY <1>2 DEF ManagerInv, Ends
<1>6. transactional /\ (inc # {} \/ a.at = "append") => n.state \in Open
  BY DEF ManagerInv, Open
<1>7. s.kind \in Ends \/ n.in_flight.kind \in Ends => NoEnds(n)
  BY <1>1, <1>3 DEF ManagerInv
<1>8. s.kind = "EndTxn" \/ n.in_flight.kind = "EndTxn" => inc = {}
  BY <1>1 DEF ManagerInv, Ends
<1>9. QED
  BY <1>3, <1>4, <1>5, <1>6, <1>7, <1>8 DEF ManagerInv

\* A request that ends something joins where there is none.
LEMMA EnqueueEnd ==
    ASSUME NEW m, NEW r, NEW a, NEW inc, ManagerInv(m, r, a, inc), NEW q \in Good, q.kind \in Ends,
           ~Anywhere(m, r, "EndTxn"), ~Anywhere(m, r, "InitProducerId"),
           q.kind = "EndTxn" => a.at = "wait" /\ a.result = "end" /\ m.results["end"] = "pending",
           q.kind = "InitProducerId" => m.state \in {"INITIALIZING", "FATAL_ERROR"}
    PROVE  ManagerInv(_enqueue_request(m, q), r, a, inc)
<1> DEFINE n == _enqueue_request(m, q)
<1>1. m \in GoodManager
  BY DEF ManagerInv
<1>2. NoEnds(m) /\ r.kind \notin Ends /\ m.in_flight.kind \notin Ends
  BY DEF Anywhere, In, NoEnds, Ends
<1>3. /\ n \in GoodManager /\ n.state = m.state /\ n.in_flight = m.in_flight /\ n.results = m.results
      /\ \A kind : In(n, kind) <=> In(m, kind) \/ q.kind = kind
      /\ OneEnd(n)
  BY <1>1, <1>2, EnqueueOK
<1> HIDE DEF n
<1>4. \A kind \in Ends : Anywhere(n, r, kind) => q.kind = kind
  BY <1>3 DEF Anywhere, Ends
<1>5. ManagerInv(n, r, a, inc)
  BY <1>2, <1>3, <1>4 DEF ManagerInv, Ends
<1>6. QED
  BY <1>5 DEF n

\* The request that is held is dropped.
LEMMA Dropped ==
    ASSUME NEW m, NEW r, NEW a, NEW inc, ManagerInv(m, r, a, inc)
    PROVE  ManagerInv(m, NoRequest, a, inc)
<1>1. NoRequest \in {r, NoRequest} /\ m \in GoodManager
  BY DEF ManagerInv
<1>2. QED
  BY <1>1, Changed

\* The application goes on, with more batches or fewer.
LEMMA AppGoesOn ==
    ASSUME NEW m, NEW r, NEW a, NEW inc, ManagerInv(m, r, a, inc), NEW b, NEW rest,
           ~Anywhere(m, r, "EndTxn") \/ (b = a /\ (inc = {} => rest = {})),
           transactional /\ (rest # {} \/ b.at = "append") => m.state \in Open
    PROVE  ManagerInv(m, r, b, rest)
BY DEF ManagerInv, Anywhere

\* The request that was sent is taken out again; and sent.
LEMMA Freed ==
    ASSUME NEW m, NEW a, NEW inc, ManagerInv(m, NoRequest, a, inc), m.in_flight # NoRequest
    PROVE  /\ m.in_flight \in Good /\ ManagerInv([m EXCEPT !.in_flight = NoRequest], m.in_flight, a, inc)
           /\ [m EXCEPT !.in_flight = NoRequest].in_flight = NoRequest
<1> DEFINE n == [m EXCEPT !.in_flight = NoRequest]
           r == m.in_flight
<1>1. m \in GoodManager /\ r \in Good
  BY DEF ManagerInv, GoodManager
<1>2. /\ n \in GoodManager /\ n.requests = m.requests /\ n.state = m.state /\ n.results = m.results
      /\ n.in_flight = NoRequest
  BY <1>1 DEF GoodManager
<1>3. NoRequest.kind \notin Ends
  BY DEF NoRequest, Ends
<1> HIDE DEF n
<1>4. \A kind \in Ends : Anywhere(n, r, kind) <=> Anywhere(m, NoRequest, kind)
  BY <1>2, <1>3 DEF Anywhere, In
<1>5. OneEnd(n) /\ (NoEnds(m) => NoEnds(n))
  BY <1>2 DEF ManagerInv, OneEnd, NoEnds
<1>6. ManagerInv(n, r, a, inc)
  BY <1>1, <1>2, <1>3, <1>4, <1>5 DEF ManagerInv, Ends
<1>7. QED
  BY <1>1, <1>2, <1>6 DEF n

LEMMA SentOff ==
    ASSUME NEW m, NEW r \in Good, NEW a, NEW inc, ManagerInv(m, r, a, inc), m.in_flight = NoRequest
    PROVE  ManagerInv([m EXCEPT !.in_flight = r], NoRequest, a, inc)
<1> DEFINE n == [m EXCEPT !.in_flight = r]
<1>1. m \in GoodManager
  BY DEF ManagerInv
<1>2. /\ n \in GoodManager /\ n.requests = m.requests /\ n.state = m.state /\ n.results = m.results
      /\ n.in_flight = r
  BY <1>1 DEF GoodManager
<1>3. NoRequest.kind \notin Ends
  BY DEF NoRequest, Ends
<1> HIDE DEF n
<1>4. \A kind \in Ends : Anywhere(n, NoRequest, kind) <=> Anywhere(m, r, kind)
  BY <1>2, <1>3 DEF Anywhere, In
<1>5. OneEnd(n) /\ (NoEnds(m) => NoEnds(n))
  BY <1>2 DEF ManagerInv, OneEnd, NoEnds
<1>6. ManagerInv(n, NoRequest, a, inc)
  BY <1>1, <1>2, <1>3, <1>4, <1>5 DEF ManagerInv, Ends
<1>7. QED
  BY <1>6 DEF n

\* The first of the queue is taken.
LEMMA Popped ==
    ASSUME NEW m, NEW a, NEW inc, ManagerInv(m, NoRequest, a, inc), m.in_flight = NoRequest, m.requests # <<>>,
           Head(m.requests).kind = "EndTxn" => inc = {}
    PROVE  LET n == [m EXCEPT !.requests = Tail(@)] IN
           /\ Head(m.requests) \in Good /\ ManagerInv(n, Head(m.requests), a, inc) /\ n.in_flight = NoRequest
           /\ n.state = m.state /\ n.started = m.started
<1> DEFINE n == [m EXCEPT !.requests = Tail(@)]
           s == m.requests
           t == Tail(s)
           r == Head(s)
<1>1. m \in GoodManager /\ s \in Seq(Good) /\ s # <<>>
  BY DEF ManagerInv, GoodManager
<1>2. /\ r \in Good /\ r = s[1] /\ t \in Seq(Good) /\ DOMAIN s = 1 .. Len(s) /\ Len(s) \in Nat \ {0}
      /\ DOMAIN t = 1 .. Len(s) - 1 /\ \A k \in 1 .. Len(s) - 1 : t[k] = s[k + 1]
  <2> HIDE DEF s
  <2>1. QED
    BY <1>1
<1>3. /\ n \in GoodManager /\ n.requests = t /\ n.state = m.state /\ n.results = m.results /\ n.in_flight = NoRequest
      /\ n.started = m.started
  BY <1>1, <1>2 DEF GoodManager
<1>4. NoRequest.kind \notin Ends
  BY DEF NoRequest, Ends
<1> HIDE DEF n, t, r
<1>5. OneEnd(n) /\ (r.kind \in Ends => NoEnds(n))
  <2>1. \A j, k \in 1 .. Len(s) : s[j].kind \in Ends /\ s[k].kind \in Ends => j = k
    BY <1>2 DEF ManagerInv, OneEnd
  <2>2. ASSUME NEW j \in 1 .. Len(s) - 1 PROVE j + 1 \in 1 .. Len(s) /\ j + 1 # 1 /\ t[j] = s[j + 1]
    BY <1>2
  <2>3. OneEnd(n)
    <3> SUFFICES ASSUME NEW j \in 1 .. Len(s) - 1, NEW k \in 1 .. Len(s) - 1, t[j].kind \in Ends, t[k].kind \in Ends
                 PROVE  j = k
      BY <1>2, <1>3 DEF OneEnd
    <3>1. j + 1 = k + 1
      BY <2>1, <2>2
    <3>2. QED
      BY <1>2, <3>1
  <2>4. r.kind \in Ends => NoEnds(n)
    <3> SUFFICES ASSUME r.kind \in Ends, NEW j \in 1 .. Len(s) - 1, t[j].kind \in Ends PROVE FALSE
      BY <1>2, <1>3 DEF NoEnds
    <3>1. 1 = j + 1
      BY <1>2, <2>1, <2>2
    <3>2. QED
      BY <2>2, <3>1
  <2>5. QED
    BY <2>3, <2>4
<1>6. \A kind : In(n, kind) \/ r.kind = kind => In(m, kind)
  <2>1. \A j \in 1 .. Len(s) - 1 : j + 1 \in 1 .. Len(s) /\ t[j] = s[j + 1]
    BY <1>2
  <2>2. 1 \in 1 .. Len(s)
    BY <1>2
  <2>3. QED
    BY <1>2, <1>3, <2>1, <2>2 DEF In
<1>7. \A kind \in Ends : Anywhere(n, r, kind) => Anywhere(m, NoRequest, kind)
  BY <1>3, <1>4, <1>6 DEF Anywhere
<1>8. ManagerInv(n, r, a, inc)
  BY <1>2, <1>3, <1>4, <1>5, <1>7 DEF ManagerInv, Ends, r
<1>9. QED
  BY <1>2, <1>3, <1>8 DEF n, t, r

(* What becomes of the manager, operator by operator.  First those that change it in place. *)

LEMMA InPlace ==
    ASSUME NEW m, NEW r, NEW a, NEW inc, ManagerInv(m, r, a, inc)
    PROVE  /\ ManagerInv(transition_to_fatal_error(m), r, a, inc)
           /\ ~abortable_error_raises(m) => ManagerInv(transition_to_abortable_error(m), r, a, inc)
           /\ ManagerInv(transition_to_abortable_error(m), r, a, inc)
           /\ ManagerInv(reset_producer_id(m), r, a, inc)
           /\ \A pid \in Nat : ManagerInv(set_producer_id_and_epoch(m, pid), r, a, inc)
           /\ \A p \in Partition : /\ ManagerInv(maybe_add_partition_to_transaction(m, p), r, a, inc)
                                   /\ ManagerInv(reset_sequence_for_partition(m, p), r, a, inc)
           /\ \A p \in Partition, n \in Nat : ManagerInv(increment_sequence_number(m, p, n), r, a, inc)
<1>0. m \in GoodManager /\ r \in {r, NoRequest}
  BY DEF ManagerInv
<1>1. ManagerInv(transition_to_fatal_error(m), r, a, inc)
  <2> DEFINE n == transition_to_fatal_error(m)
  <2>1. n = [m EXCEPT !.state = "FATAL_ERROR"]
    BY DEF transition_to_fatal_error, _transition_to, can_transition_to, is_transition_valid
  <2>2. /\ n \in GoodManager /\ n.state = "FATAL_ERROR" /\ n.requests = m.requests
        /\ n.in_flight = m.in_flight /\ n.results = m.results
    BY <1>0, <2>1 DEF GoodManager, States
  <2> HIDE DEF n
  <2>3. ManagerInv(n, r, a, inc)
    BY <1>0, <2>2, Changed
  <2>4. QED
    BY <2>3 DEF n
<1>2. ManagerInv(transition_to_abortable_error(m), r, a, inc)
  <2>1. CASE is_aborting(m) \/ ~can_transition_to(m, "ABORTABLE_ERROR")
    BY <2>1 DEF transition_to_abortable_error, _transition_to
  <2>2. CASE ~is_aborting(m) /\ can_transition_to(m, "ABORTABLE_ERROR")
    <3> DEFINE n == [m EXCEPT !.state = "ABORTABLE_ERROR"]
    <3>1. transition_to_abortable_error(m) = n
      BY <2>2 DEF transition_to_abortable_error, _transition_to
    <3>2. /\ n \in GoodManager /\ n.state = "ABORTABLE_ERROR" /\ n.requests = m.requests
          /\ n.in_flight = m.in_flight /\ n.results = m.results
      BY <1>0 DEF GoodManager, States
    <3>3. m.state \in {"IN_TRANSACTION", "COMMITTING_TRANSACTION", "ABORTABLE_ERROR"}
      BY <2>2 DEF can_transition_to, is_transition_valid
    <3>4. ~Anywhere(m, r, "InitProducerId")
      BY <3>3 DEF ManagerInv
    <3> HIDE DEF n
    <3>5. n.state \in Open
      BY <3>2 DEF Open
    <3>6. ManagerInv(n, r, a, inc)
      BY <1>0, <3>2, <3>4, <3>5, Changed
    <3>7. QED
      BY <3>1, <3>6
  <2>3. QED
    BY <2>1, <2>2
<1>3. ASSUME NEW n \in GoodManager, n.requests = m.requests, n.in_flight = m.in_flight, n.results = m.results,
             n.state = m.state
      PROVE  ManagerInv(n, r, a, inc)
  BY <1>0, <1>3, Changed
<1>4. ManagerInv(reset_producer_id(m), r, a, inc)
  <2> DEFINE n == [m EXCEPT !.pid = 0, !.seq = [p \in Partition |-> 0]]
  <2>1. /\ n \in GoodManager /\ n.requests = m.requests /\ n.in_flight = m.in_flight /\ n.results = m.results
        /\ n.state = m.state
    BY <1>0 DEF GoodManager
  <2> HIDE DEF n
  <2>2. ManagerInv(n, r, a, inc)
    BY <1>3, <2>1
  <2>3. QED
    BY <2>2 DEF n, reset_producer_id
<1>5. ASSUME NEW pid \in Nat PROVE ManagerInv(set_producer_id_and_epoch(m, pid), r, a, inc)
  <2> DEFINE n == [m EXCEPT !.pid = pid]
  <2>1. /\ n \in GoodManager /\ n.requests = m.requests /\ n.in_flight = m.in_flight /\ n.results = m.results
        /\ n.state = m.state
    BY <1>0 DEF GoodManager
  <2> HIDE DEF n
  <2>2. ManagerInv(n, r, a, inc)
    BY <1>3, <2>1
  <2>3. QED
    BY <2>2 DEF n, set_producer_id_and_epoch
<1>6. ASSUME NEW p \in Partition PROVE ManagerInv(maybe_add_partition_to_transaction(m, p), r, a, inc)
  <2> DEFINE n == [m EXCEPT !.new = @ \cup {p}]
  <2>1. /\ n \in GoodManager /\ n.requests = m.requests /\ n.in_flight = m.in_flight /\ n.results = m.results
        /\ n.state = m.state
    BY <1>0 DEF GoodManager
  <2> HIDE DEF n
  <2>2. ManagerInv(n, r, a, inc)
    BY <1>3, <2>1
  <2>3. QED
    BY <2>2 DEF n, maybe_add_partition_to_transaction
<1>7. ASSUME NEW p \in Partition, NEW v \in Nat PROVE ManagerInv([m EXCEPT !.seq[p] = v], r, a, inc)
  <2> DEFINE n == [m EXCEPT !.seq[p] = v]
  <2>1. /\ n \in GoodManager /\ n.requests = m.requests /\ n.in_flight = m.in_flight /\ n.results = m.results
        /\ n.state = m.state
    BY <1>0 DEF GoodManager
  <2> HIDE DEF n
  <2>2. ManagerInv(n, r, a, inc)
    BY <1>3, <2>1
  <2>3. QED
    BY <2>2 DEF n
<1>8. ASSUME NEW p \in Partition, NEW n \in Nat PROVE ManagerInv(increment_sequence_number(m, p, n), r, a, inc)
  <2> DEFINE v == IF m.seq[p] > MaxInt - n THEN n - (MaxInt - m.seq[p]) - 1 ELSE m.seq[p] + n
  <2>1. m.seq[p] \in Nat
    BY <1>0 DEF GoodManager
  <2>2. v \in Nat
    BY <2>1 DEF MaxInt
  <2>3. increment_sequence_number(m, p, n) = [m EXCEPT !.seq[p] = v]
    BY DEF increment_sequence_number
  <2> HIDE DEF v
  <2>4. QED
    BY <1>7, <2>2, <2>3
<1>9. ASSUME NEW p \in Partition PROVE ManagerInv(reset_sequence_for_partition(m, p), r, a, inc)
  BY <1>7 DEF reset_sequence_for_partition
<1>10. QED
  BY <1>1, <1>2, <1>4, <1>5, <1>6, <1>8, <1>9

\* A result is set for a request that is not kept.
LEMMA ResultSet ==
    ASSUME NEW m, NEW r \in Good, NEW a, NEW inc, ManagerInv(m, NoRequest, a, inc), NEW how \in {"done", "failed"},
           r.result = "end" => ~Anywhere(m, NoRequest, "EndTxn")
    PROVE  LET n == result_done(m, r, how) IN
           ManagerInv(n, NoRequest, a, inc) /\ n.requests = m.requests /\ n.in_flight = m.in_flight /\ n.state = m.state
<1> DEFINE n == [m EXCEPT !.results[r.result] = how]
<1>0. m \in GoodManager /\ NoRequest \in {NoRequest, NoRequest}
  BY DEF ManagerInv
<1>1. CASE r.result = "none"
  BY <1>1 DEF result_done
<1>2. CASE r.result # "none"
  <2>1. r.result \in Results
    BY <1>2 DEF Good, Request
  <2>2. /\ n \in GoodManager /\ n.requests = m.requests /\ n.in_flight = m.in_flight /\ n.state = m.state
        /\ r.result # "end" => n.results["end"] = m.results["end"]
    BY <1>0, <2>1 DEF GoodManager, Results
  <2> HIDE DEF n
  <2>3. ManagerInv(n, NoRequest, a, inc)
    BY <1>0, <2>2, Changed
  <2>4. QED
    BY <1>2, <2>2, <2>3 DEF result_done, n
<1>3. QED
  BY <1>1, <1>2

LEMMA ResultDone ==
    ASSUME NEW m, NEW r \in Good, NEW a, NEW inc, ManagerInv(m, r, a, inc), m.in_flight = NoRequest,
           NEW how \in {"done", "failed"}
    PROVE  LET n == result_done(m, r, how) IN
           /\ ManagerInv(n, NoRequest, a, inc) /\ n.requests = m.requests /\ n.in_flight = NoRequest
           /\ n.state = m.state
<1>1. ManagerInv(m, NoRequest, a, inc)
  BY Dropped
<1>2. r.result = "end" => ~Anywhere(m, NoRequest, "EndTxn")
  BY DEF Good, ManagerInv, Anywhere, In, NoEnds, Ends, NoRequest
<1>3. QED
  BY <1>1, <1>2, ResultSet

LEMMA ErrorOK ==
    ASSUME NEW m, NEW r \in Good, NEW a, NEW inc, ManagerInv(m, r, a, inc), m.in_flight = NoRequest
    PROVE  /\ ManagerInv(fatal_error(m, r), NoRequest, a, inc)
           /\ ManagerInv(abortable_error(m, r), NoRequest, a, inc)
<1> DEFINE f == transition_to_fatal_error(m)
           b == transition_to_abortable_error(m)
<1>1. f.in_flight = NoRequest /\ b.in_flight = NoRequest
  BY DEF transition_to_fatal_error, transition_to_abortable_error, _transition_to, ManagerInv, GoodManager
<1>2. ManagerInv(f, r, a, inc) /\ ManagerInv(b, r, a, inc)
  BY InPlace
<1> HIDE DEF f, b
<1>3. ManagerInv(result_done(f, r, "failed"), NoRequest, a, inc) /\ ManagerInv(result_done(b, r, "failed"), NoRequest, a, inc)
  BY <1>1, <1>2, ResultDone
<1>4. ManagerInv(m, NoRequest, a, inc)
  BY Dropped
<1>5. QED
  BY <1>3, <1>4 DEF fatal_error, abortable_error, f, b

LEMMA NewOK ==
    ASSUME NEW m \in GoodManager, NEW kind \in Kinds
    PROVE  LET q == NewRequest(m, kind) IN
           /\ q.kind = kind /\ q \in Good
           /\ \A key \in Coordinators : [q EXCEPT !.key = key] \in Good /\ [q EXCEPT !.key = key].kind = kind
           /\ \A P \in SUBSET Partition : [q EXCEPT !.parts = P] \in Good /\ [q EXCEPT !.parts = P].kind = kind
           /\ \A res \in {"none", "init", "offsets"} :
                 [q EXCEPT !.result = res] \in Good /\ [q EXCEPT !.result = res].kind = kind
<1> DEFINE q == NewRequest(m, kind)
<1>1. q = [kind |-> kind, parts |-> {}, committed |-> FALSE, pid |-> m.pid, key |-> "transaction", result |-> "none"]
  BY DEF NewRequest
<1>2. m.pid \in Nat /\ "transaction" \in Coordinators /\ Results = {"init", "end", "offsets"}
  BY DEF GoodManager, Coordinators, Results
<1> HIDE DEF q
<1>3. q.kind = kind /\ q \in Good
  BY <1>1, <1>2 DEF Good, Request
<1>4. \A key \in Coordinators : [q EXCEPT !.key = key] \in Good /\ [q EXCEPT !.key = key].kind = kind
  BY <1>1, <1>2 DEF Good, Request
<1>5. \A P \in SUBSET Partition : [q EXCEPT !.parts = P] \in Good /\ [q EXCEPT !.parts = P].kind = kind
  BY <1>1, <1>2 DEF Good, Request
<1>6. \A res \in {"none", "init", "offsets"} :
          [q EXCEPT !.result = res] \in Good /\ [q EXCEPT !.result = res].kind = kind
  BY <1>1, <1>2 DEF Good, Request
<1>7. QED
  BY <1>3, <1>4, <1>5, <1>6 DEF q

LEMMA NewEndOK ==
    ASSUME NEW m \in GoodManager, NEW committed \in BOOLEAN
    PROVE  LET q == [NewRequest(m, "EndTxn") EXCEPT !.committed = committed, !.result = "end"]
           IN  q \in Good /\ q.kind = "EndTxn"
<1> DEFINE n == NewRequest(m, "EndTxn")
<1>1. n = [kind |-> "EndTxn", parts |-> {}, committed |-> FALSE, pid |-> m.pid, key |-> "transaction", result |-> "none"]
  BY DEF NewRequest
<1> HIDE DEF n
<1>2. m.pid \in Nat /\ "transaction" \in Coordinators /\ "end" \in Results /\ "EndTxn" \in Kinds
  BY DEF GoodManager, Coordinators, Results, Kinds
<1> DEFINE q == [n EXCEPT !.committed = committed, !.result = "end"]
<1>3. q \in Good /\ q.kind = "EndTxn"
  BY <1>1, <1>2 DEF Good, Request
<1>4. QED
  BY <1>3 DEF n

\* Those that add a request of their own.
LEMMA LookupOK ==
    ASSUME NEW m, NEW r, NEW a, NEW inc, ManagerInv(m, r, a, inc), NEW key \in Coordinators
    PROVE  LET n == _lookup_coordinator(m, key) IN ManagerInv(n, r, a, inc) /\ n.in_flight = m.in_flight
<1> DEFINE n == [m EXCEPT !.coordinator[key] = FALSE]
           q == [NewRequest(m, "FindCoordinator") EXCEPT !.key = key]
<1>1. m \in GoodManager /\ r \in {r, NoRequest}
  BY DEF ManagerInv
<1>2. /\ n \in GoodManager /\ n.requests = m.requests /\ n.in_flight = m.in_flight /\ n.results = m.results
      /\ n.state = m.state
  BY <1>1 DEF GoodManager
<1>3. q \in Good /\ q.kind = "FindCoordinator"
  <2>1. "FindCoordinator" \in Kinds
    BY DEF Kinds
  <2>2. QED
    BY <1>1, <2>1, NewOK
<1>4. _lookup_coordinator(m, key) = _enqueue_request(n, q)
  BY DEF _lookup_coordinator
<1> HIDE DEF n, q
<1>5. ManagerInv(n, r, a, inc)
  BY <1>1, <1>2, Changed
<1>6. q.kind \notin Ends
  BY <1>3 DEF Ends
<1>7. ManagerInv(_enqueue_request(n, q), r, a, inc)
  BY <1>3, <1>5, <1>6, EnqueueOther
<1>8. _enqueue_request(n, q).in_flight = n.in_flight
  BY <1>2, <1>3, EnqueueOK
<1>9. QED
  BY <1>2, <1>4, <1>7, <1>8

LEMMA JoinedOK ==
    ASSUME NEW m, NEW r, NEW a, NEW inc, ManagerInv(m, r, a, inc)
    PROVE  LET n == _add_partitions_to_transaction_handler(m) IN
           ManagerInv(n, r, a, inc) /\ n.in_flight = m.in_flight /\ n.state = m.state
<1> DEFINE P == m.pending \cup m.new
           n == [m EXCEPT !.pending = P, !.new = {}]
           q == [NewRequest(m, "AddPartitions") EXCEPT !.parts = P]
<1>1. m \in GoodManager /\ r \in {r, NoRequest}
  BY DEF ManagerInv
<1>2. P \in SUBSET Partition
  BY <1>1 DEF GoodManager
<1>3. /\ n \in GoodManager /\ n.requests = m.requests /\ n.in_flight = m.in_flight /\ n.results = m.results
      /\ n.state = m.state /\ n.pending = P
  BY <1>1, <1>2 DEF GoodManager
<1>4. q \in Good /\ q.kind = "AddPartitions"
  <2>1. "AddPartitions" \in Kinds
    BY DEF Kinds
  <2> HIDE DEF P
  <2>2. QED
    BY <1>1, <1>2, <2>1, NewOK
<1>5. _add_partitions_to_transaction_handler(m) = _enqueue_request(n, q)
  BY <1>3 DEF _add_partitions_to_transaction_handler
<1> HIDE DEF n, q
<1>6. ManagerInv(n, r, a, inc)
  BY <1>1, <1>3, Changed
<1>7. q.kind \notin Ends
  BY <1>4 DEF Ends
<1>8. ManagerInv(_enqueue_request(n, q), r, a, inc)
  BY <1>4, <1>6, <1>7, EnqueueOther
<1>9. _enqueue_request(n, q).in_flight = n.in_flight /\ _enqueue_request(n, q).state = n.state
  BY <1>3, <1>4, EnqueueOK
<1>10. QED
  BY <1>3, <1>5, <1>8, <1>9

LEMMA CompletedOK ==
    ASSUME NEW m, NEW r, NEW a, NEW inc, ManagerInv(m, r, a, inc), NoEnds(m), m.in_flight = NoRequest,
           r.kind # "InitProducerId", inc = {}, a.at = "wait"
    PROVE  LET n == _complete_transaction(m) IN
           ManagerInv(n, r, a, inc) /\ n.in_flight = NoRequest /\ n.requests = m.requests
<1> DEFINE n == [m EXCEPT !.state = "READY", !.started = FALSE, !.new = {}, !.pending = {}, !.added = {}]
<1>1. m \in GoodManager /\ r \in {r, NoRequest}
  BY DEF ManagerInv
<1>2. /\ n \in GoodManager /\ n.requests = m.requests /\ n.in_flight = m.in_flight /\ n.results = m.results
  BY <1>1 DEF GoodManager, States
<1>3. _complete_transaction(m) \in {m, n}
  BY DEF _complete_transaction
<1>4. ~Anywhere(m, r, "InitProducerId")
  BY DEF Anywhere, In, NoEnds, Ends, NoRequest
<1> HIDE DEF n
<1>5. ManagerInv(n, r, a, inc)
  BY <1>1, <1>2, <1>4, Changed
<1>6. QED
  BY <1>2, <1>3, <1>5

-----------------------------------------------------------------------------
(* What the sender thread takes out of the queue next.                        *)
LEMMA NextRequestOK ==
    ASSUME NEW m, NEW a, NEW inc, ManagerInv(m, NoRequest, a, inc), m.in_flight = NoRequest
    PROVE  LET n == next_request_handler(m, inc # {}) IN ManagerInv(n.tm, n.request, a, inc) /\ n.tm.in_flight = NoRequest
<1> DEFINE joined == IF m.new # {} THEN _add_partitions_to_transaction_handler(m) ELSE m
           first  == Head(joined.requests)
           popped == [joined EXCEPT !.requests = Tail(@)]
           res(how) == result_done(popped, first, how)
           ended  == _complete_transaction(res("done"))
           n == next_request_handler(m, inc # {})
<1>1. ManagerInv(joined, NoRequest, a, inc) /\ joined.in_flight = NoRequest
  BY JoinedOK
<1>2. n = CASE joined.requests = <<>> -> [tm |-> joined, request |-> NoRequest]
          [] joined.requests # <<>> /\ first.kind = "EndTxn" /\ inc # {} -> [tm |-> joined, request |-> NoRequest]
          [] joined.requests # <<>> /\ ~(first.kind = "EndTxn" /\ inc # {}) /\ terminated_with_error(joined, first) ->
                [tm |-> res("failed"), request |-> NoRequest]
          [] OTHER ->
                IF first.kind # "EndTxn" \/ joined.started THEN [tm |-> popped, request |-> first]
                ELSE IF ended.requests = <<>> THEN [tm |-> ended, request |-> NoRequest]
                ELSE [tm |-> [ended EXCEPT !.requests = Tail(@)], request |-> Head(ended.requests)]
  BY DEF next_request_handler
<1> SUFFICES ManagerInv(n.tm, n.request, a, inc) /\ n.tm.in_flight = NoRequest
  OBVIOUS
<1> HIDE DEF n, joined
<1>3. CASE joined.requests = <<>> \/ (first.kind = "EndTxn" /\ inc # {})
  <2>1. n = [tm |-> joined, request |-> NoRequest]
    BY <1>2, <1>3
  <2>2. QED
    BY <1>1, <2>1
<1>4. CASE joined.requests # <<>> /\ ~(first.kind = "EndTxn" /\ inc # {})
  <2>1. first \in Good /\ ManagerInv(popped, first, a, inc) /\ popped.in_flight = NoRequest
    BY <1>1, <1>4, Popped
  <2> HIDE DEF popped, first
  <2>2. \A how \in {"done", "failed"} :
            /\ ManagerInv(res(how), NoRequest, a, inc) /\ res(how).requests = popped.requests
            /\ res(how).in_flight = NoRequest
    BY <2>1, ResultDone
  <2> HIDE DEF res
  <2>3. CASE terminated_with_error(joined, first)
    <3>1. n = [tm |-> res("failed"), request |-> NoRequest]
      BY <1>2, <1>4, <2>3
    <3>2. QED
      BY <2>2, <3>1
  <2>4. CASE ~terminated_with_error(joined, first) /\ (first.kind # "EndTxn" \/ joined.started)
    <3>1. n = [tm |-> popped, request |-> first]
      BY <1>2, <1>4, <2>4
    <3>2. QED
      BY <2>1, <3>1
  <2>5. CASE ~terminated_with_error(joined, first) /\ ~(first.kind # "EndTxn" \/ joined.started)
    <3>1. n = IF ended.requests = <<>> THEN [tm |-> ended, request |-> NoRequest]
              ELSE [tm |-> [ended EXCEPT !.requests = Tail(@)], request |-> Head(ended.requests)]
      BY <1>2, <1>4, <2>5
    <3>2. NoEnds(popped) /\ inc = {} /\ a.at = "wait"
      BY <2>1, <2>5 DEF ManagerInv, Ends, Anywhere
    <3> DEFINE done == res("done")
    <3>3. ManagerInv(done, NoRequest, a, inc) /\ done.in_flight = NoRequest /\ NoEnds(done)
      BY <2>2, <3>2 DEF NoEnds
    <3>4. NoRequest.kind # "InitProducerId"
      BY DEF NoRequest
    <3> HIDE DEF done
    <3>5. ManagerInv(ended, NoRequest, a, inc) /\ ended.in_flight = NoRequest
      BY <3>2, <3>3, <3>4, CompletedOK DEF done
    <3> HIDE DEF ended
    <3>6. CASE ended.requests = <<>>
      BY <3>1, <3>5, <3>6
    <3>7. CASE ended.requests # <<>>
      <4>1. n = [tm |-> [ended EXCEPT !.requests = Tail(@)], request |-> Head(ended.requests)]
        BY <3>1, <3>7
      <4>2. /\ ManagerInv([ended EXCEPT !.requests = Tail(@)], Head(ended.requests), a, inc)
            /\ [ended EXCEPT !.requests = Tail(@)].in_flight = NoRequest
        BY <3>2, <3>5, <3>7, Popped
      <4>3. QED
        BY <4>1, <4>2
    <3>8. QED
      BY <3>6, <3>7
  <2>6. QED
    BY <2>3, <2>4, <2>5
<1>5. QED
  BY <1>3, <1>4

-----------------------------------------------------------------------------
(* What the answers do, to the manager m that holds the request r again.      *)
LEMMA ReenqueueOK ==
    ASSUME NEW m, NEW r \in Good, NEW a, NEW inc, ManagerInv(m, r, a, inc), m.in_flight = NoRequest
    PROVE  /\ ManagerInv(reenqueue(m, r), NoRequest, a, inc)
           /\ ManagerInv(reenqueue_elsewhere(m, r), NoRequest, a, inc)
           /\ ManagerInv(reenqueue(lookup_coordinator_for_request(m, r), r), NoRequest, a, inc)
           /\ ManagerInv(lookup_coordinator_for_request(m, r), NoRequest, a, inc)
<1>1. ManagerInv(reenqueue(m, r), NoRequest, a, inc)
  BY EnqueueHeld DEF reenqueue
<1>2. ASSUME NEW key \in Coordinators
      PROVE  /\ ManagerInv(_enqueue_request(_lookup_coordinator(m, key), r), NoRequest, a, inc)
             /\ ManagerInv(_lookup_coordinator(m, key), NoRequest, a, inc)
  <2> DEFINE n == _lookup_coordinator(m, key)
  <2>1. ManagerInv(n, r, a, inc) /\ n.in_flight = NoRequest
    BY LookupOK
  <2> HIDE DEF n
  <2>2. ManagerInv(_enqueue_request(n, r), NoRequest, a, inc) /\ ManagerInv(n, NoRequest, a, inc)
    BY <2>1, EnqueueHeld, Dropped
  <2>3. QED
    BY <2>2 DEF n
<1>3. "transaction" \in Coordinators /\ coordinator_type(r) \in Coordinators
  BY DEF Coordinators, coordinator_type
<1>4. QED
  BY <1>1, <1>2, <1>3 DEF reenqueue, reenqueue_elsewhere, lookup_coordinator_for_request

LEMMA InitProducerIdOK ==
    ASSUME NEW m, NEW r \in Good, NEW a, NEW inc, ManagerInv(m, r, a, inc), m.in_flight = NoRequest,
           r.kind = "InitProducerId", NEW error \in Errors, NEW pid \in Nat
    PROVE  ManagerInv(InitProducerId_response(m, r, error, pid), NoRequest, a, inc)
<1>1. CASE error = "none"
  <2> DEFINE s == set_producer_id_and_epoch(m, pid)
             n == _transition_to(s, "READY")
  <2>1. ManagerInv(s, r, a, inc)
    BY InPlace
  <2>2. s.in_flight = NoRequest
    BY DEF set_producer_id_and_epoch, ManagerInv, GoodManager
  <2> HIDE DEF s
  <2>3. ~Anywhere(s, NoRequest, "InitProducerId") /\ ~Anywhere(s, NoRequest, "EndTxn") /\ r.result # "end"
    BY <2>1, <2>2 DEF Anywhere, In, ManagerInv, NoEnds, Ends, NoRequest, Good
  <2>4. s \in GoodManager /\ NoRequest \in {r, NoRequest}
    BY <2>1 DEF ManagerInv
  <2>5. n = s \/ n = [s EXCEPT !.state = "READY"]
    BY DEF _transition_to
  <2>6. n = s \/ s.state = "INITIALIZING"
    <3>1. Anywhere(s, r, "InitProducerId")
      BY DEF Anywhere
    <3>2. s.state \in {"INITIALIZING", "FATAL_ERROR"}
      BY <2>1, <3>1 DEF ManagerInv
    <3>3. QED
      BY <3>2 DEF _transition_to, can_transition_to, is_transition_valid
  <2>7. transactional /\ s.state = "INITIALIZING" => inc = {} /\ a.at # "append"
    BY <2>1 DEF ManagerInv, Open
  <2>8. n \in GoodManager /\ n.requests = s.requests /\ n.in_flight = s.in_flight /\ n.results = s.results
    BY <2>4, <2>5 DEF GoodManager, States
  <2>9. n.state = s.state \/ (transactional => inc = {} /\ a.at # "append")
    BY <2>6, <2>7
  <2> HIDE DEF n
  <2>10. ManagerInv(n, NoRequest, a, inc)
    BY <2>1, <2>3, <2>4, <2>8, <2>9, Changed
  <2>11. ManagerInv(result_done(n, r, "done"), NoRequest, a, inc)
    BY <2>3, <2>10, ResultSet
  <2>12. InitProducerId_response(m, r, error, pid) = result_done(n, r, "done")
    BY <1>1 DEF InitProducerId_response, n, s
  <2>13. QED
    BY <2>11, <2>12
<1>2. CASE error # "none"
  BY <1>2, ReenqueueOK, ErrorOK DEF InitProducerId_response
<1>3. QED
  BY <1>1, <1>2

LEMMA AddPartitionsOK ==
    ASSUME NEW m, NEW r \in Good, NEW a, NEW inc, ManagerInv(m, r, a, inc), m.in_flight = NoRequest, NEW error \in Errors
    PROVE  ManagerInv(AddPartitions_response(m, r, error), NoRequest, a, inc)
<1>0. m \in GoodManager /\ r.parts \in SUBSET Partition /\ r \in {r, NoRequest}
  BY DEF ManagerInv, Good, Request
<1>1. CASE error = "none"
  <2> DEFINE n == [m EXCEPT !.pending = @ \ r.parts, !.added = @ \cup r.parts, !.started = TRUE]
  <2>1. /\ n \in GoodManager /\ n.requests = m.requests /\ n.in_flight = m.in_flight /\ n.results = m.results
        /\ n.state = m.state
    BY <1>0 DEF GoodManager
  <2>2. AddPartitions_response(m, r, error) = n
    BY <1>1 DEF AddPartitions_response
  <2> HIDE DEF n
  <2>3. ManagerInv(n, r, a, inc)
    BY <1>0, <2>1, Changed
  <2>4. QED
    BY <2>2, <2>3, Dropped
<1>2. CASE error = "refused"
  <2> DEFINE n == [m EXCEPT !.pending = @ \ r.parts]
  <2>1. /\ n \in GoodManager /\ n.requests = m.requests /\ n.in_flight = m.in_flight /\ n.results = m.results
        /\ n.state = m.state
    BY <1>0 DEF GoodManager
  <2>2. AddPartitions_response(m, r, error) = abortable_error(n, r)
    BY <1>2 DEF AddPartitions_response
  <2> HIDE DEF n
  <2>3. ManagerInv(n, r, a, inc)
    BY <1>0, <2>1, Changed
  <2>4. QED
    BY <2>1, <2>2, <2>3, ErrorOK
<1>3. CASE error \notin {"none", "refused"}
  BY <1>3, ReenqueueOK, ErrorOK DEF AddPartitions_response
<1>4. QED
  BY <1>1, <1>2, <1>3

LEMMA FindCoordinatorOK ==
    ASSUME NEW m, NEW r \in Good, NEW a, NEW inc, ManagerInv(m, r, a, inc), m.in_flight = NoRequest, NEW error \in Errors
    PROVE  ManagerInv(FindCoordinator_response(m, r, error), NoRequest, a, inc)
<1>0. m \in GoodManager /\ r.key \in Coordinators /\ r \in {r, NoRequest}
  BY DEF ManagerInv, Good, Request
<1>1. CASE error = "none"
  <2> DEFINE n == [m EXCEPT !.coordinator[r.key] = TRUE]
  <2>1. /\ n \in GoodManager /\ n.requests = m.requests /\ n.in_flight = m.in_flight /\ n.results = m.results
        /\ n.state = m.state
    BY <1>0 DEF GoodManager
  <2>2. FindCoordinator_response(m, r, error) = n
    BY <1>1 DEF FindCoordinator_response
  <2> HIDE DEF n
  <2>3. ManagerInv(n, r, a, inc)
    BY <1>0, <2>1, Changed
  <2>4. QED
    BY <2>2, <2>3, Dropped
<1>2. CASE error # "none"
  BY <1>2, ReenqueueOK, ErrorOK DEF FindCoordinator_response
<1>3. QED
  BY <1>1, <1>2

LEMMA EndTxnOK ==
    ASSUME NEW m, NEW r \in Good, NEW a, NEW inc, ManagerInv(m, r, a, inc), m.in_flight = NoRequest,
           r.kind = "EndTxn", NEW error \in Errors
    PROVE  ManagerInv(EndTxn_response(m, r, error), NoRequest, a, inc)
<1>1. CASE error = "none"
  <2> DEFINE n == _complete_transaction(m)
  <2>1. NoEnds(m) /\ inc = {} /\ a.at = "wait"
    BY DEF ManagerInv, Ends, Anywhere
  <2>2. ManagerInv(n, r, a, inc) /\ n.in_flight = NoRequest
    BY <2>1, CompletedOK
  <2>3. EndTxn_response(m, r, error) = IF can_transition_to(m, "READY") THEN result_done(n, r, "done") ELSE m
    BY <1>1 DEF EndTxn_response
  <2> HIDE DEF n
  <2>4. ManagerInv(result_done(n, r, "done"), NoRequest, a, inc)
    BY <2>2, ResultDone
  <2>5. QED
    BY <2>3, <2>4, Dropped
<1>2. CASE error # "none"
  BY <1>2, ReenqueueOK, ErrorOK DEF EndTxn_response
<1>3. QED
  BY <1>1, <1>2

LEMMA AddOffsetsOK ==
    ASSUME NEW m, NEW r \in Good, NEW a, NEW inc, ManagerInv(m, r, a, inc), m.in_flight = NoRequest,
           r.kind = "AddOffsets", NEW error \in Errors
    PROVE  ManagerInv(AddOffsets_response(m, r, error), NoRequest, a, inc)
<1>0. m \in GoodManager /\ r \in {r, NoRequest} /\ r.result \in {"none", "init", "offsets"}
  BY DEF ManagerInv, Good, Request, Results
<1>1. CASE error = "none"
  <2> DEFINE n == [m EXCEPT !.offsets = TRUE, !.started = TRUE]
             q == [NewRequest(m, "TxnOffsetCommit") EXCEPT !.result = r.result]
  <2>1. /\ n \in GoodManager /\ n.requests = m.requests /\ n.in_flight = m.in_flight /\ n.results = m.results
        /\ n.state = m.state
    BY <1>0 DEF GoodManager
  <2>2. AddOffsets_response(m, r, error) = _enqueue_request(n, q)
    BY <1>1 DEF AddOffsets_response
  <2>3. q \in Good /\ q.kind = "TxnOffsetCommit"
    <3>1. "TxnOffsetCommit" \in Kinds
      BY DEF Kinds
    <3>2. \A x \in {"none", "init", "offsets"} :
              /\ [NewRequest(m, "TxnOffsetCommit") EXCEPT !.result = x] \in Good
              /\ [NewRequest(m, "TxnOffsetCommit") EXCEPT !.result = x].kind = "TxnOffsetCommit"
      BY <1>0, <3>1, NewOK
    <3>3. QED
      BY <1>0, <3>2
  <2> HIDE DEF n, q
  <2>4. ManagerInv(n, r, a, inc)
    BY <1>0, <2>1, Changed
  <2>5. q.kind \notin Ends
    BY <2>3 DEF Ends
  <2>6. ManagerInv(_enqueue_request(n, q), r, a, inc)
    BY <2>3, <2>4, <2>5, EnqueueOther
  <2> DEFINE e == _enqueue_request(n, q)
  <2> HIDE DEF e
  <2>7. ManagerInv(e, NoRequest, a, inc)
    BY <2>6, Dropped DEF e
  <2>8. QED
    BY <2>2, <2>7 DEF e
<1>2. CASE error # "none"
  BY <1>2, ReenqueueOK, ErrorOK DEF AddOffsets_response
<1>3. QED
  BY <1>1, <1>2

LEMMA TxnOffsetCommitOK ==
    ASSUME NEW m, NEW r \in Good, NEW a, NEW inc, ManagerInv(m, r, a, inc), m.in_flight = NoRequest
    PROVE  \A error : ManagerInv(TxnOffsetCommit_response(m, r, error), NoRequest, a, inc)
<1>0. m \in GoodManager /\ r \in {r, NoRequest}
  BY DEF ManagerInv
<1> DEFINE n == [m EXCEPT !.offsets = FALSE]
<1>1. /\ n \in GoodManager /\ n.requests = m.requests /\ n.in_flight = m.in_flight /\ n.results = m.results
      /\ n.state = m.state
  BY <1>0 DEF GoodManager
<1>2. \A error : TxnOffsetCommit_response(m, r, error) \in {m, result_done(n, r, "done")}
  BY DEF TxnOffsetCommit_response
<1> HIDE DEF n
<1>3. ManagerInv(n, r, a, inc)
  BY <1>0, <1>1, Changed
<1>4. ManagerInv(result_done(n, r, "done"), NoRequest, a, inc)
  BY <1>1, <1>3, ResultDone
<1>5. QED
  BY <1>2, <1>4, Dropped

LEMMA OnCompleteOK ==
    ASSUME NEW m, NEW a, NEW inc, ManagerInv(m, NoRequest, a, inc), m.in_flight # NoRequest,
           NEW error \in Errors, NEW pid \in Nat, NEW how
    PROVE  ManagerInv(on_complete(m, how, error, pid), NoRequest, a, inc)
<1> DEFINE r == m.in_flight
           free == [m EXCEPT !.in_flight = NoRequest]
<1>1. r \in Good /\ ManagerInv(free, r, a, inc) /\ free.in_flight = NoRequest
  BY Freed
<1>2. on_complete(m, how, error, pid) \in
          {reenqueue(lookup_coordinator_for_request(free, r), r), reenqueue(free, r), fatal_error(free, r),
           handle_response(free, r, error, pid)}
  BY DEF on_complete
<1>3. r.kind \in Kinds
  BY <1>1 DEF Good, Request
<1> HIDE DEF free, r
<1>4. /\ ManagerInv(reenqueue(lookup_coordinator_for_request(free, r), r), NoRequest, a, inc)
      /\ ManagerInv(reenqueue(free, r), NoRequest, a, inc)
      /\ ManagerInv(fatal_error(free, r), NoRequest, a, inc)
  BY <1>1, ReenqueueOK, ErrorOK
<1>5. ManagerInv(handle_response(free, r, error, pid), NoRequest, a, inc)
  <2>1. CASE r.kind = "InitProducerId"
    BY <1>1, <2>1, InitProducerIdOK DEF handle_response
  <2>2. CASE r.kind = "AddPartitions"
    BY <1>1, <2>2, AddPartitionsOK DEF handle_response
  <2>3. CASE r.kind = "FindCoordinator"
    BY <1>1, <2>3, FindCoordinatorOK DEF handle_response
  <2>4. CASE r.kind = "EndTxn"
    BY <1>1, <2>4, EndTxnOK DEF handle_response
  <2>5. CASE r.kind = "AddOffsets"
    BY <1>1, <2>5, AddOffsetsOK DEF handle_response
  <2>6. CASE r.kind = "TxnOffsetCommit"
    BY <1>1, <2>6, TxnOffsetCommitOK DEF handle_response
  <2>7. QED
    BY <1>3, <2>1, <2>2, <2>3, <2>4, <2>5, <2>6 DEF Kinds
<1>6. QED
  BY <1>2, <1>4, <1>5

-----------------------------------------------------------------------------
(* What the application asks for, as it goes from call a to call b.           *)
LEMMA NotWaiting ==
    ASSUME NEW m, NEW r, NEW a, NEW inc, ManagerInv(m, r, a, inc), a.at = "ready"
    PROVE  /\ ~Anywhere(m, r, "EndTxn")
           /\ m.state \notin {"INITIALIZING", "FATAL_ERROR"} => ~Anywhere(m, r, "InitProducerId")
BY DEF ManagerInv

LEMMA InitializeOK ==
    ASSUME NEW m, NEW r, NEW a, NEW inc, ManagerInv(m, r, a, inc), transactional, a.at = "ready", can_initialize(m),
           NEW b, b.at = "wait"
    PROVE  ManagerInv(initialize_transactions(m), r, b, inc)
<1> DEFINE n == [reset_producer_id(m) EXCEPT !.state = "INITIALIZING", !.results["init"] = "pending"]
           q == [NewRequest(m, "InitProducerId") EXCEPT !.result = "init"]
<1>1. m \in GoodManager /\ r \in {r, NoRequest} /\ m.state = "UNINITIALIZED"
  BY DEF ManagerInv, can_initialize, can_transition_to, is_transition_valid
<1>2. /\ n \in GoodManager /\ n.requests = m.requests /\ n.in_flight = m.in_flight /\ n.results["end"] = m.results["end"]
      /\ n.state = "INITIALIZING"
  BY <1>1 DEF GoodManager, States, reset_producer_id, Results
<1>3. q \in Good /\ q.kind = "InitProducerId"
  <2>1. "InitProducerId" \in Kinds
    BY DEF Kinds
  <2>2. QED
    BY <1>1, <2>1, NewOK
<1>4. inc = {} /\ ~Anywhere(m, r, "InitProducerId") /\ ~Anywhere(m, r, "EndTxn")
  BY <1>1 DEF ManagerInv, Open
<1>5. initialize_transactions(m) = _enqueue_request(n, q)
  BY DEF initialize_transactions
<1> HIDE DEF n, q
<1>6. ManagerInv(n, r, a, inc)
  BY <1>1, <1>2, <1>4, Changed
<1>7. ~Anywhere(n, r, "InitProducerId") /\ ~Anywhere(n, r, "EndTxn")
  BY <1>2, <1>4 DEF Anywhere, In
<1>8. ManagerInv(n, r, b, inc)
  BY <1>4, <1>6, <1>7, AppGoesOn
<1>9. ManagerInv(_enqueue_request(n, q), r, b, inc)
  BY <1>2, <1>3, <1>7, <1>8, EnqueueEnd DEF Ends
<1>10. QED
  BY <1>5, <1>9

LEMMA BeginOK ==
    ASSUME NEW m, NEW r, NEW a, NEW inc, ManagerInv(m, r, a, inc), can_begin(m)
    PROVE  ManagerInv(begin_transaction(m), r, a, inc)
<1> DEFINE n == [m EXCEPT !.state = "IN_TRANSACTION"]
<1>1. m \in GoodManager /\ r \in {r, NoRequest} /\ m.state = "READY"
  BY DEF ManagerInv, can_begin, can_transition_to, is_transition_valid
<1>2. /\ n \in GoodManager /\ n.requests = m.requests /\ n.in_flight = m.in_flight /\ n.results = m.results
      /\ n.state \in Open
  BY <1>1 DEF GoodManager, States, Open
<1>3. begin_transaction(m) = n
  BY DEF begin_transaction, _transition_to, can_begin
<1>4. ~Anywhere(m, r, "InitProducerId")
  BY <1>1 DEF ManagerInv
<1> HIDE DEF n
<1>5. ManagerInv(n, r, a, inc)
  BY <1>1, <1>2, <1>4, Changed
<1>6. QED
  BY <1>3, <1>5

\* m is the manager as it begins to complete its transaction.
LEMMA CompletingOK ==
    ASSUME NEW m, NEW r, NEW a, NEW inc, ManagerInv(m, r, a, inc), a.at = "ready",
           m.state \in {"COMMITTING_TRANSACTION", "ABORTING_TRANSACTION"}, NEW committed \in BOOLEAN,
           NEW b, b.at = "wait", b.result = "end"
    PROVE  ManagerInv(_begin_completing_transaction(m, committed), r, b, inc)
<1> DEFINE joined == IF m.new # {} THEN _add_partitions_to_transaction_handler(m) ELSE m
           n == [joined EXCEPT !.results["end"] = "pending"]
           q == [NewRequest(m, "EndTxn") EXCEPT !.committed = committed, !.result = "end"]
<1>1. ManagerInv(joined, r, a, inc) /\ joined.state = m.state
  BY JoinedOK
<1>2. _begin_completing_transaction(m, committed) = _enqueue_request(n, q)
  BY DEF _begin_completing_transaction
<1>3. q \in Good /\ q.kind = "EndTxn"
  <2>1. m \in GoodManager
    BY DEF ManagerInv
  <2>2. QED
    BY <2>1, NewEndOK
<1> HIDE DEF joined, q
<1>4. joined \in GoodManager /\ r \in {r, NoRequest}
  BY <1>1 DEF ManagerInv
<1>5. /\ n \in GoodManager /\ n.requests = joined.requests /\ n.in_flight = joined.in_flight /\ n.state = joined.state
      /\ n.results["end"] = "pending"
  BY <1>4 DEF GoodManager, Results
<1>6. ~Anywhere(joined, r, "EndTxn") /\ ~Anywhere(joined, r, "InitProducerId")
  BY <1>1, NotWaiting
<1> HIDE DEF n
<1>7. ManagerInv(n, r, a, inc)
  BY <1>1, <1>4, <1>5, <1>6, Changed
<1>8. ~Anywhere(n, r, "EndTxn") /\ ~Anywhere(n, r, "InitProducerId")
  BY <1>5, <1>6 DEF Anywhere, In
<1>9. n.state \in Open
  BY <1>1, <1>5 DEF Open
<1>10. ManagerInv(n, r, b, inc)
  BY <1>7, <1>8, <1>9, AppGoesOn
<1>11. ManagerInv(_enqueue_request(n, q), r, b, inc)
  BY <1>3, <1>5, <1>8, <1>10, EnqueueEnd DEF Ends
<1>12. QED
  BY <1>2, <1>11

LEMMA CommitOrAbortOK ==
    ASSUME NEW m, NEW r, NEW a, NEW inc, ManagerInv(m, r, a, inc), a.at = "ready", NEW b, b.at = "wait", b.result = "end"
    PROVE  /\ can_commit(m) => ManagerInv(begin_commit(m), r, b, inc)
           /\ can_abort(m) => ManagerInv(begin_abort(m), r, b, inc)
<1>0. m \in GoodManager /\ r \in {r, NoRequest}
  BY DEF ManagerInv
<1>1. ASSUME NEW n \in GoodManager, n.state \in {"COMMITTING_TRANSACTION", "ABORTING_TRANSACTION"},
             n.requests = m.requests, n.in_flight = m.in_flight, n.results = m.results,
             m.state \in {"IN_TRANSACTION", "ABORTABLE_ERROR"}, NEW committed \in BOOLEAN
      PROVE  ManagerInv(_begin_completing_transaction(n, committed), r, b, inc)
  <2>1. ~Anywhere(m, r, "InitProducerId") /\ n.state \in Open
    BY <1>1, NotWaiting DEF Open
  <2>2. ManagerInv(n, r, a, inc)
    BY <1>0, <1>1, <2>1, Changed
  <2>3. QED
    BY <1>1, <2>2, CompletingOK
<1>2. ASSUME can_commit(m) PROVE ManagerInv(begin_commit(m), r, b, inc)
  <2> DEFINE n == [m EXCEPT !.state = "COMMITTING_TRANSACTION"]
  <2>1. m.state = "IN_TRANSACTION" /\ begin_commit(m) = _begin_completing_transaction(n, TRUE)
    BY <1>2 DEF can_commit, can_transition_to, is_transition_valid, begin_commit, _transition_to
  <2>2. /\ n \in GoodManager /\ n.requests = m.requests /\ n.in_flight = m.in_flight /\ n.results = m.results
        /\ n.state = "COMMITTING_TRANSACTION"
    BY <1>0 DEF GoodManager, States
  <2> HIDE DEF n
  <2>3. QED
    BY <1>1, <2>1, <2>2
<1>3. ASSUME can_abort(m) PROVE ManagerInv(begin_abort(m), r, b, inc)
  <2> DEFINE n == [m EXCEPT !.state = "ABORTING_TRANSACTION", !.new = {}]
  <2>1. m.state \in {"IN_TRANSACTION", "ABORTABLE_ERROR"}
    BY <1>3 DEF can_abort, can_transition_to, is_transition_valid
  <2>2. begin_abort(m) = _begin_completing_transaction([[m EXCEPT !.state = "ABORTING_TRANSACTION"] EXCEPT !.new = {}], FALSE)
    BY <1>3 DEF can_abort, begin_abort, _transition_to
  <2>3. [[m EXCEPT !.state = "ABORTING_TRANSACTION"] EXCEPT !.new = {}] = n
    OBVIOUS
  <2>4. /\ n \in GoodManager /\ n.requests = m.requests /\ n.in_flight = m.in_flight /\ n.results = m.results
        /\ n.state = "ABORTING_TRANSACTION"
    BY <1>0 DEF GoodManager, States
  <2> HIDE DEF n
  <2>5. QED
    BY <1>1, <2>1, <2>2, <2>3, <2>4
<1>4. QED
  BY <1>2, <1>3

LEMMA SendOffsetsOK ==
    ASSUME NEW m, NEW r, NEW a, NEW inc, ManagerInv(m, r, a, inc), a.at = "ready", can_send_offsets(m), NEW b, b.at = "wait"
    PROVE  ManagerInv(send_offsets_to_transaction(m), r, b, inc)
<1> DEFINE n == [m EXCEPT !.results["offsets"] = "pending"]
           q == [NewRequest(m, "AddOffsets") EXCEPT !.result = "offsets"]
<1>1. m \in GoodManager /\ r \in {r, NoRequest} /\ m.state = "IN_TRANSACTION" /\ ~Anywhere(m, r, "EndTxn")
  BY NotWaiting DEF ManagerInv, can_send_offsets
<1>2. /\ n \in GoodManager /\ n.requests = m.requests /\ n.in_flight = m.in_flight
      /\ n.results["end"] = m.results["end"] /\ n.state = m.state
  BY <1>1 DEF GoodManager, Results
<1>3. q \in Good /\ q.kind = "AddOffsets"
  <2>1. "AddOffsets" \in Kinds
    BY DEF Kinds
  <2>2. QED
    BY <1>1, <2>1, NewOK
<1>4. send_offsets_to_transaction(m) = _enqueue_request(n, q)
  BY DEF send_offsets_to_transaction
<1> HIDE DEF n, q
<1>5. ManagerInv(n, r, a, inc)
  BY <1>1, <1>2, Changed
<1>6. ~Anywhere(n, r, "EndTxn") /\ n.state \in Open
  BY <1>1, <1>2 DEF Anywhere, In, Open
<1>7. ManagerInv(n, r, b, inc)
  BY <1>5, <1>6, AppGoesOn
<1>8. q.kind \notin Ends
  BY <1>3 DEF Ends
<1>9. ManagerInv(_enqueue_request(n, q), r, b, inc)
  BY <1>3, <1>7, <1>8, EnqueueOther
<1>10. QED
  BY <1>4, <1>9

\* A batch fails.
LEMMA FailedOK ==
    ASSUME NEW m, NEW r, NEW a, NEW inc, ManagerInv(m, r, a, inc), NEW x, x.tp \in Partition, NEW error
    PROVE  ManagerInv(fail_manager(m, x, error), r, a, inc)
<1>1. fail_manager(m, x, error) \in
          {m, reset_producer_id(m), reset_sequence_for_partition(m, x.tp), transition_to_fatal_error(m),
           transition_to_abortable_error(m)}
  BY DEF fail_manager
<1>2. QED
  BY <1>1, InPlace

-----------------------------------------------------------------------------
(* The inductive invariant.                                                   *)

\* Every batch without a result is in one queue, its partition's, once, or in flight.
BatchRecord ==
    [tp : Partition, count : 1 .. BatchSize, open : BOOLEAN, retry : BOOLEAN, attempts : Nat,
     pid : Nat, seq : Nat, txn : Nat, final : {"none", "SUCCEEDED", "FAILED", "ABORTED"}]
InQueues(qs) == UNION {Elements(qs[p]) : p \in Partition}
Placed(bs, qs, inc, fl) ==
    /\ bs \in Seq(BatchRecord)
    /\ qs \in [Partition -> Seq(DOMAIN bs)]
    /\ inc = {i \in DOMAIN bs : bs[i].final = "none"}
    /\ InQueues(qs) \cup fl = inc /\ InQueues(qs) \cap fl = {}
    /\ \A p \in Partition : Distinct(qs[p]) /\ \A i \in Elements(qs[p]) : bs[i].tp = p

\* What is under way is in one request, or answered once, and in no queue.
Once(w, s, Q) ==
    /\ \A n, o \in Node : \A j \in DOMAIN w[n], k \in DOMAIN w[o] : w[n][j] \cap w[o][k] # {} => n = o /\ j = k
    /\ \A j, k \in DOMAIN s : s[j].b = s[k].b => j = k
    /\ \A n \in Node : \A j \in DOMAIN w[n] : w[n][j] \cap Q = {} /\ \A k \in DOMAIN s : s[k].b \notin w[n][j]
    /\ \A k \in DOMAIN s : s[k].b \notin Q

Answer(ids) == [b : ids, error : {"none", "fatal", "out_of_order", "not_leader", "unauthorized", "disconnected"},
                request : Nat]
Entry(ids) == [b : ids, mark : {"plain", "open", "committed", "aborted"}]
Traffic(ids, w, st, s, l) ==
    /\ w \in [Node -> Seq(SUBSET ids)] /\ st \subseteq ids
    /\ s \in Seq(Answer(ids)) /\ l \in [Partition -> Seq(Entry(ids))]

\* A call that waits for a flush is counted, and a request is held while it awaits its coordinator.
Calls(a, f) ==
    /\ DOMAIN a = {"at", "tp", "waits", "result", "sent"}
    /\ a.at \in {"ready", "append", "flush", "close", "join", "wait", "closed"}
    /\ a.at = "append" => a.tp \in Partition
    /\ f \in Nat /\ (a.at \in {"flush", "close"} => f # 0)
Thread ==
    {s \in [pc : {"run", "acquire", "await", "poll", "closed", "dead"}, running : BOOLEAN, force : BOOLEAN,
            request : Good \cup {NoRequest}] :
     s.pc = "await" <=> s.request # NoRequest}

Fates == {"begun", "commit", "abort", "committed", "aborted"}

IInv ==
    /\ mode \in Modes /\ faults \in 0 .. MaxFaults /\ aged \in 0 .. Len(batch) /\ muted \subseteq Partition
    /\ txn \in Seq(Fates)
    /\ coord.pid \in Nat /\ DOMAIN coord = {"pid", "parts", "fenced"}
    /\ Calls(app, flushes) /\ sender \in Thread
    /\ Placed(batch, queues, incomplete, in_flight_batches)
    /\ Traffic(DOMAIN batch, wire, stray, answers, log)
    /\ Once(wire, answers, InQueues(queues))
    /\ ManagerInv(tm, sender.request, app, incomplete)

-----------------------------------------------------------------------------
(* Batches and queues.                                                        *)
LEMMA SameDomain ==
    ASSUME NEW S, NEW s \in Seq(S), NEW T, NEW f \in [DOMAIN s -> T]
    PROVE  f \in Seq(T) /\ DOMAIN f = DOMAIN s /\ Len(f) = Len(s)
<1>1. Len(s) \in Nat /\ DOMAIN s = 1 .. Len(s)
  OBVIOUS
<1>2. f \in [1 .. Len(s) -> T]
  BY <1>1
<1>3. f \in Seq(T)
  BY <1>1, <1>2, SeqDef
<1>4. Len(f) \in Nat /\ 1 .. Len(f) = 1 .. Len(s)
  BY <1>1, <1>2, <1>3
<1>5. Len(f) = Len(s)
  BY <1>1, <1>4
<1>6. QED
  BY <1>1, <1>2, <1>3, <1>5

LEMMA OneMore ==
    ASSUME NEW S, NEW s \in Seq(S), NEW x \in S
    PROVE  LET t == Append(s, x) IN
           /\ t \in Seq(S) /\ Elements(t) = Elements(s) \cup {x}
           /\ Distinct(s) /\ x \notin Elements(s) => Distinct(t)
<1> DEFINE t == Append(s, x)
           m == Len(s)
<1>1. m \in Nat /\ DOMAIN s = 1 .. m
  OBVIOUS
<1>2. t \in Seq(S) /\ DOMAIN t = 1 .. m + 1 /\ t[m + 1] = x /\ \A k \in 1 .. m : t[k] = s[k]
  BY <1>1
<1> HIDE DEF t, m
<1>3. Elements(t) = Elements(s) \cup {x}
  BY <1>1, <1>2 DEF Elements
<1>4. Distinct(s) /\ x \notin Elements(s) => Distinct(t)
  BY <1>1, <1>2 DEF Elements, Distinct
<1>5. QED
  BY <1>2, <1>3, <1>4 DEF t

LEMMA OneBefore ==
    ASSUME NEW S, NEW s \in Seq(S), NEW x \in S
    PROVE  LET t == <<x>> \o s IN
           /\ t \in Seq(S) /\ Elements(t) = Elements(s) \cup {x}
           /\ Distinct(s) /\ x \notin Elements(s) => Distinct(t)
<1> DEFINE u == <<x>>
           t == u \o s
           m == Len(s)
<1>1. m \in Nat /\ DOMAIN s = 1 .. m /\ u \in Seq(S) /\ Len(u) = 1 /\ u[1] = x
  OBVIOUS
<1> HIDE DEF u
<1>2. t \in Seq(S) /\ Len(t) = 1 + m /\ \A i \in 1 .. 1 + m : t[i] = IF i <= 1 THEN u[i] ELSE s[i - 1]
  <2>1. /\ t \in Seq(S) /\ Len(t) = Len(u) + Len(s)
        /\ \A i \in 1 .. Len(u) + Len(s) : t[i] = IF i <= Len(u) THEN u[i] ELSE s[i - Len(u)]
    BY ONLY <1>1, s \in Seq(S), ConcatProperties
  <2> HIDE DEF t
  <2>2. QED
    BY ONLY <1>1, <2>1
<1> HIDE DEF t, m
<1>3. DOMAIN t = 1 .. m + 1 /\ t[1] = x
  BY <1>1, <1>2
<1>4. \A k \in 1 .. m : k + 1 \in 1 .. m + 1 /\ t[k + 1] = s[k]
  BY <1>1, <1>2
<1>5. \A i \in 1 .. m + 1 : i = 1 \/ (i - 1 \in 1 .. m /\ t[i] = s[i - 1])
  BY <1>1, <1>2
<1>6. Elements(t) = Elements(s) \cup {x}
  <2>1. Elements(t) \subseteq Elements(s) \cup {x}
    BY <1>1, <1>3, <1>5 DEF Elements
  <2>2. Elements(s) \subseteq Elements(t)
    BY <1>1, <1>3, <1>4 DEF Elements
  <2>3. 1 \in 1 .. m + 1
    BY <1>1
  <2>4. x \in Elements(t)
    BY <1>3, <2>3 DEF Elements
  <2>5. QED
    BY <2>1, <2>2, <2>4
<1>7. ASSUME Distinct(s), x \notin Elements(s) PROVE Distinct(t)
  <2> SUFFICES ASSUME NEW i \in 1 .. m + 1, NEW j \in 1 .. m + 1, i # j PROVE t[i] # t[j]
    BY <1>3 DEF Distinct
  <2>1. \A k \in 1 .. m : s[k] # x
    BY <1>1, <1>7 DEF Elements
  <2>2. CASE i = 1 \/ j = 1
    BY <1>3, <1>5, <2>1, <2>2
  <2>3. CASE i # 1 /\ j # 1
    <3>1. i - 1 \in 1 .. m /\ j - 1 \in 1 .. m /\ i - 1 # j - 1
      BY <1>1, <1>5, <2>3
    <3>2. QED
      BY <1>1, <1>5, <1>7, <2>3, <3>1 DEF Distinct
  <2>4. QED
    BY <2>2, <2>3
<1>8. QED
  BY <1>2, <1>6, <1>7 DEF t, u

\* The first ones gone.
LEMMA Behind ==
    ASSUME NEW S, NEW s \in Seq(S), NEW n \in 0 .. Len(s), Distinct(s)
    PROVE  LET t == SubSeq(s, n + 1, Len(s)) IN
           t \in Seq(S) /\ Distinct(t) /\ Elements(t) = Elements(s) \ {s[k] : k \in 1 .. n}
<1> DEFINE t == SubSeq(s, n + 1, Len(s))
           m == Len(s)
<1>1. m \in Nat /\ n \in Nat /\ n <= m /\ DOMAIN s = 1 .. m
  OBVIOUS
<1>2. t \in Seq(S) /\ DOMAIN t = 1 .. m - n /\ \A k \in 1 .. m - n : t[k] = s[n + k]
  BY <1>1
<1> HIDE DEF t, m
<1>3. \A k \in 1 .. m - n : n + k \in 1 .. m /\ n + k \notin 1 .. n
  BY <1>1
<1>4. Distinct(t)
  <2> SUFFICES ASSUME NEW i \in 1 .. m - n, NEW j \in 1 .. m - n, i # j PROVE t[i] # t[j]
    BY <1>2 DEF Distinct
  <2>1. n + i # n + j
    BY <1>1
  <2>2. QED
    BY <1>1, <1>2, <1>3, <2>1 DEF Distinct
<1>5. Elements(t) \subseteq Elements(s) \ {s[k] : k \in 1 .. n}
  <2> SUFFICES ASSUME NEW i \in 1 .. m - n PROVE t[i] \in Elements(s) \ {s[k] : k \in 1 .. n}
    BY <1>2 DEF Elements
  <2>1. t[i] = s[n + i] /\ n + i \in 1 .. m
    BY <1>2, <1>3
  <2>2. \A k \in 1 .. n : k \in 1 .. m /\ k # n + i
    BY <1>1
  <2>3. QED
    BY <1>1, <2>1, <2>2 DEF Elements, Distinct
<1>6. Elements(s) \ {s[k] : k \in 1 .. n} \subseteq Elements(t)
  <2> SUFFICES ASSUME NEW i \in 1 .. m, s[i] \notin {s[k] : k \in 1 .. n} PROVE s[i] \in Elements(t)
    BY <1>1 DEF Elements
  <2>1. i \notin 1 .. n
    OBVIOUS
  <2>2. i - n \in 1 .. m - n /\ n + (i - n) = i
    BY <1>1, <2>1
  <2>3. t[i - n] = s[i]
    BY <1>2, <2>2
  <2>4. QED
    BY <1>2, <2>2, <2>3 DEF Elements
<1>7. QED
  BY <1>2, <1>4, <1>5, <1>6 DEF t, m

LEMMA WithoutHead ==
    ASSUME NEW S, NEW s \in Seq(S), s # <<>>, Distinct(s)
    PROVE  /\ Head(s) \in Elements(s) /\ Tail(s) \in Seq(S) /\ Distinct(Tail(s))
           /\ Elements(Tail(s)) = Elements(s) \ {Head(s)}
<1> DEFINE t == Tail(s)
           m == Len(s)
<1>1. m \in Nat \ {0} /\ DOMAIN s = 1 .. m /\ Head(s) = s[1]
  OBVIOUS
<1>2. t \in Seq(S) /\ DOMAIN t = 1 .. m - 1 /\ \A k \in 1 .. m - 1 : t[k] = s[k + 1]
  BY <1>1
<1> HIDE DEF t, m
<1>3. \A k \in 1 .. m - 1 : k + 1 \in 1 .. m /\ k + 1 # 1
  BY <1>1
<1>4. Distinct(t)
  <2> SUFFICES ASSUME NEW i \in 1 .. m - 1, NEW j \in 1 .. m - 1, i # j PROVE t[i] # t[j]
    BY <1>2 DEF Distinct
  <2>1. i + 1 # j + 1 /\ i + 1 \in 1 .. m /\ j + 1 \in 1 .. m
    BY <1>1
  <2>2. s[i + 1] # s[j + 1]
    BY <1>1, <2>1 DEF Distinct
  <2>3. QED
    BY <1>2, <2>2
<1>5. Elements(t) \subseteq Elements(s) \ {s[1]}
  BY <1>1, <1>2, <1>3 DEF Elements, Distinct
<1>6. Elements(s) \ {s[1]} \subseteq Elements(t)
  <2> SUFFICES ASSUME NEW i \in 1 .. m, s[i] # s[1] PROVE s[i] \in Elements(t)
    BY <1>1 DEF Elements
  <2>1. i - 1 \in 1 .. m - 1 /\ (i - 1) + 1 = i
    BY <1>1
  <2>2. t[i - 1] = s[i]
    BY <1>2, <2>1
  <2>3. QED
    BY <1>2, <2>1, <2>2 DEF Elements
<1>7. s[1] \in Elements(s)
  BY <1>1 DEF Elements
<1>8. QED
  BY <1>1, <1>2, <1>4, <1>5, <1>6, <1>7 DEF t

LEMMA SettledOK ==
    ASSUME NEW bs \in Seq(BatchRecord), NEW D, NEW how \in {"SUCCEEDED", "FAILED", "ABORTED"}
    PROVE  LET ds == settled(bs, D, how) IN
           /\ ds \in Seq(BatchRecord) /\ DOMAIN ds = DOMAIN bs
           /\ \A i \in DOMAIN bs : ds[i].tp = bs[i].tp /\ ds[i].final = IF i \in D THEN how ELSE bs[i].final
<1> DEFINE ds == settled(bs, D, how)
<1>1. \A i \in DOMAIN bs : bs[i] \in BatchRecord
  OBVIOUS
<1>2. ASSUME NEW i \in DOMAIN bs
      PROVE  /\ ds[i] \in BatchRecord /\ ds[i].tp = bs[i].tp
             /\ ds[i].final = IF i \in D THEN how ELSE bs[i].final
  <2>1. ds[i] = IF i \in D THEN [bs[i] EXCEPT !.final = how] ELSE bs[i]
    BY DEF settled
  <2>2. QED
    BY <1>1, <2>1 DEF BatchRecord
<1>3. ds \in [DOMAIN bs -> BatchRecord]
  BY <1>2 DEF settled
<1> HIDE DEF ds
<1>4. ds \in Seq(BatchRecord) /\ DOMAIN ds = DOMAIN bs
  BY <1>3, SameDomain
<1>5. QED
  BY <1>2, <1>4 DEF ds

\* What is said of a batch else does not matter to its place.
LEMMA PlacedSame ==
    ASSUME NEW bs, NEW qs, NEW inc, NEW fl, Placed(bs, qs, inc, fl),
           NEW cs \in Seq(BatchRecord), DOMAIN cs = DOMAIN bs,
           \A i \in DOMAIN bs : cs[i].tp = bs[i].tp /\ cs[i].final = bs[i].final
    PROVE  Placed(cs, qs, inc, fl)
<1>1. \A p \in Partition : \A i \in Elements(qs[p]) : i \in DOMAIN bs
  BY DEF Placed, Elements
<1>2. {i \in DOMAIN cs : cs[i].final = "none"} = inc
  BY DEF Placed
<1>3. QED
  BY <1>1, <1>2 DEF Placed

\* The batches D have their result, and are taken out of the queues.
LEMMA PlacedSettled ==
    ASSUME NEW bs, NEW qs, NEW inc, NEW fl, Placed(bs, qs, inc, fl), NEW D, NEW how \in {"SUCCEEDED", "FAILED", "ABORTED"},
           NEW rs \in [Partition -> Seq(DOMAIN bs)],
           \A p \in Partition : Distinct(rs[p]) /\ Elements(rs[p]) = Elements(qs[p]) \ D
    PROVE  Placed(settled(bs, D, how), rs, inc \ D, fl \ D)
<1> DEFINE ds == settled(bs, D, how)
<1>1. bs \in Seq(BatchRecord)
  BY DEF Placed
<1>2. /\ ds \in Seq(BatchRecord) /\ DOMAIN ds = DOMAIN bs
      /\ \A i \in DOMAIN bs : ds[i].tp = bs[i].tp /\ ds[i].final = IF i \in D THEN how ELSE bs[i].final
  BY <1>1, SettledOK
<1> HIDE DEF ds
<1>3. \A p \in Partition : \A i \in Elements(qs[p]) : i \in DOMAIN bs /\ bs[i].tp = p
  BY DEF Placed, Elements
<1>4. {i \in DOMAIN ds : ds[i].final = "none"} = inc \ D
  BY <1>2 DEF Placed
<1>5. InQueues(rs) = InQueues(qs) \ D
  BY DEF InQueues
<1>6. Placed(ds, rs, inc \ D, fl \ D)
  BY <1>2, <1>3, <1>4, <1>5 DEF Placed
<1>7. QED
  BY <1>6 DEF ds

\* A batch begins, at the end of a queue.
LEMMA PlacedNew ==
    ASSUME NEW bs, NEW qs, NEW inc, NEW fl, Placed(bs, qs, inc, fl), NEW x \in BatchRecord, x.final = "none"
    PROVE  LET new == Len(bs) + 1
               rs == [qs EXCEPT ![x.tp] = Append(@, new)]
           IN  /\ Placed(Append(bs, x), rs, inc \cup {new}, fl) /\ InQueues(rs) = InQueues(qs) \cup {new}
               /\ DOMAIN Append(bs, x) = DOMAIN bs \cup {new} /\ new \notin DOMAIN bs
<1> DEFINE new == Len(bs) + 1
           cs == Append(bs, x)
           p == x.tp
           q == Append(qs[p], new)
           rs == [qs EXCEPT ![p] = q]
<1>1. bs \in Seq(BatchRecord) /\ Len(bs) \in Nat /\ DOMAIN bs = 1 .. Len(bs) /\ p \in Partition
  BY DEF Placed, BatchRecord
<1>2. /\ cs \in Seq(BatchRecord) /\ DOMAIN cs = 1 .. Len(bs) + 1 /\ cs[new] = x
      /\ \A i \in DOMAIN bs : cs[i] = bs[i]
  BY <1>1
<1>3. DOMAIN cs = DOMAIN bs \cup {new} /\ new \notin DOMAIN bs
  BY <1>1, <1>2
<1> HIDE DEF cs, new
<1>4. \A r \in Partition : qs[r] \in Seq(DOMAIN cs) /\ Elements(qs[r]) \subseteq DOMAIN bs
  BY <1>3 DEF Placed, Elements
<1>5. /\ q \in Seq(DOMAIN cs) /\ Elements(q) = Elements(qs[p]) \cup {new}
      /\ Distinct(qs[p]) /\ new \notin Elements(qs[p]) => Distinct(q)
  BY <1>1, <1>3, <1>4, OneMore
<1>6. Distinct(q)
  BY <1>1, <1>3, <1>4, <1>5 DEF Placed
<1> HIDE DEF q, p
<1>7. /\ rs \in [Partition -> Seq(DOMAIN cs)]
      /\ \A r \in Partition : rs[r] = IF r = p THEN q ELSE qs[r]
  BY <1>1, <1>4, <1>5 DEF Placed
<1> HIDE DEF rs
<1>8. InQueues(rs) = InQueues(qs) \cup {new}
  BY <1>1, <1>5, <1>7 DEF InQueues
<1>9. {i \in DOMAIN cs : cs[i].final = "none"} = inc \cup {new}
  BY <1>2, <1>3 DEF Placed
<1>10. fl \subseteq DOMAIN bs /\ inc \subseteq DOMAIN bs /\ InQueues(qs) \subseteq DOMAIN bs
  BY DEF Placed
<1>11. /\ InQueues(rs) \cup fl = inc \cup {new} /\ InQueues(rs) \cap fl = {}
  BY <1>3, <1>8, <1>10 DEF Placed
<1>12. \A r \in Partition : Distinct(rs[r]) /\ \A i \in Elements(rs[r]) : cs[i].tp = r
  <2> SUFFICES ASSUME NEW r \in Partition, NEW i \in Elements(rs[r])
               PROVE  Distinct(rs[r]) /\ cs[i].tp = r
    BY <1>6, <1>7 DEF Placed
  <2>1. Distinct(rs[r])
    BY <1>6, <1>7 DEF Placed
  <2>2. CASE i = new /\ r = p
    BY <1>2, <2>1, <2>2 DEF p
  <2>3. CASE i \in Elements(qs[r])
    BY <1>2, <1>4, <2>1, <2>3 DEF Placed
  <2>4. QED
    BY <1>5, <1>7, <2>2, <2>3
<1>13. Placed(cs, rs, inc \cup {new}, fl)
  BY <1>2, <1>7, <1>9, <1>11, <1>12 DEF Placed
<1>14. QED
  BY <1>3, <1>8, <1>13 DEF cs, rs, q, p, new

\* A batch in flight is put back.
PutBack(bs, qs, i) == [qs EXCEPT ![bs[i].tp] = <<i>> \o @]
LEMMA PlacedBack ==
    ASSUME NEW bs, NEW qs, NEW inc, NEW fl, Placed(bs, qs, inc, fl), NEW i \in fl, NEW rest \in SUBSET fl,
           i \notin rest, \A j \in fl : j = i \/ j \in rest
    PROVE  Placed(bs, PutBack(bs, qs, i), inc, rest) /\ InQueues(PutBack(bs, qs, i)) = InQueues(qs) \cup {i}
<1> DEFINE p == bs[i].tp
           q == <<i>> \o qs[p]
           rs == [qs EXCEPT ![p] = q]
<1>0. PutBack(bs, qs, i) = rs
  BY DEF PutBack
<1>1. i \in DOMAIN bs /\ i \notin InQueues(qs) /\ bs \in Seq(BatchRecord)
  BY DEF Placed
<1>2. p \in Partition
  <2>1. bs[i] \in BatchRecord
    BY <1>1
  <2>2. QED
    BY <2>1 DEF BatchRecord
<1>3. qs[p] \in Seq(DOMAIN bs) /\ Distinct(qs[p]) /\ i \notin Elements(qs[p])
  BY <1>1, <1>2 DEF Placed, InQueues
<1>4. q \in Seq(DOMAIN bs) /\ Elements(q) = Elements(qs[p]) \cup {i} /\ Distinct(q)
  BY <1>1, <1>3, OneBefore
<1> HIDE DEF q
<1>5. /\ rs \in [Partition -> Seq(DOMAIN bs)]
      /\ \A r \in Partition : rs[r] = IF r = p THEN q ELSE qs[r]
  BY <1>4 DEF Placed
<1> HIDE DEF rs
<1>6. InQueues(rs) = InQueues(qs) \cup {i}
  BY <1>2, <1>4, <1>5 DEF InQueues
<1>7. InQueues(rs) \cup rest = inc /\ InQueues(rs) \cap rest = {}
  BY <1>1, <1>6 DEF Placed
<1>8. \A r \in Partition : Distinct(rs[r]) /\ \A j \in Elements(rs[r]) : bs[j].tp = r
  BY <1>4, <1>5 DEF Placed
<1>9. Placed(bs, rs, inc, rest)
  BY <1>5, <1>7, <1>8 DEF Placed
<1>10. QED
  BY <1>0, <1>6, <1>9 DEF rs, q

\* The first ones of the queues P are taken.
Firsts(qs, P) == {Head(qs[p]) : p \in P}
Rests(qs, P) == [p \in Partition |-> IF p \in P THEN Tail(qs[p]) ELSE qs[p]]
LEMMA PlacedDrained ==
    ASSUME NEW bs, NEW qs, NEW inc, NEW fl, Placed(bs, qs, inc, fl), NEW P \in SUBSET Partition,
           \A p \in P : qs[p] # <<>>
    PROVE  /\ Placed(bs, Rests(qs, P), inc, fl \cup Firsts(qs, P))
           /\ InQueues(Rests(qs, P)) = InQueues(qs) \ Firsts(qs, P) /\ Firsts(qs, P) \subseteq InQueues(qs)
<1> DEFINE drained == {Head(qs[p]) : p \in P}
           rs == [p \in Partition |-> IF p \in P THEN Tail(qs[p]) ELSE qs[p]]
<1>0. Firsts(qs, P) = drained /\ Rests(qs, P) = rs
  BY DEF Firsts, Rests
<1>1. \A p \in P : /\ Head(qs[p]) \in Elements(qs[p]) /\ Tail(qs[p]) \in Seq(DOMAIN bs) /\ Distinct(Tail(qs[p]))
                   /\ Elements(Tail(qs[p])) = Elements(qs[p]) \ {Head(qs[p])}
  <2> SUFFICES ASSUME NEW p \in P
               PROVE  /\ Head(qs[p]) \in Elements(qs[p]) /\ Tail(qs[p]) \in Seq(DOMAIN bs) /\ Distinct(Tail(qs[p]))
                      /\ Elements(Tail(qs[p])) = Elements(qs[p]) \ {Head(qs[p])}
    OBVIOUS
  <2>1. qs[p] \in Seq(DOMAIN bs) /\ qs[p] # <<>> /\ Distinct(qs[p])
    BY DEF Placed
  <2>2. QED
    BY <2>1, WithoutHead
<1>2. \A p \in Partition : \A i \in Elements(qs[p]) : bs[i].tp = p
  BY DEF Placed
<1>3. \A p \in Partition : /\ rs[p] \in Seq(DOMAIN bs) /\ Distinct(rs[p])
                           /\ Elements(rs[p]) = Elements(qs[p]) \ drained
  <2> SUFFICES ASSUME NEW p \in Partition
               PROVE  rs[p] \in Seq(DOMAIN bs) /\ Distinct(rs[p]) /\ Elements(rs[p]) = Elements(qs[p]) \ drained
    OBVIOUS
  <2>1. CASE p \in P
    <3>0. ASSUME NEW r \in P, Head(qs[r]) \in Elements(qs[p]) PROVE r = p
      <4>1. r \in Partition /\ Head(qs[r]) \in Elements(qs[r])
        BY <1>1
      <4>2. bs[Head(qs[r])].tp = r /\ bs[Head(qs[r])].tp = p
        BY <1>2, <3>0, <4>1
      <4>3. QED
        BY <4>2
    <3>1. Elements(qs[p]) \cap drained = {Head(qs[p])}
      BY <1>1, <2>1, <3>0
    <3>2. QED
      BY <1>1, <2>1, <3>1
  <2>2. CASE p \notin P
    <3>1. Elements(qs[p]) \cap drained = {}
      BY <1>1, <1>2, <2>2
    <3>2. qs[p] \in Seq(DOMAIN bs) /\ Distinct(qs[p])
      BY DEF Placed
    <3>3. QED
      BY <2>2, <3>1, <3>2
  <2>3. QED
    BY <2>1, <2>2
<1>4. drained \subseteq InQueues(qs)
  BY <1>1 DEF InQueues
<1>5. rs \in [Partition -> Seq(DOMAIN bs)]
  BY <1>3
<1> HIDE DEF rs, drained
<1>6. InQueues(rs) = InQueues(qs) \ drained
  BY <1>3 DEF InQueues
<1>7. Placed(bs, rs, inc, fl \cup drained)
  BY <1>2, <1>3, <1>4, <1>5, <1>6 DEF Placed
<1>8. QED
  BY <1>0, <1>4, <1>6, <1>7

-----------------------------------------------------------------------------
(* What is under way.                                                         *)
Adds(w, v, e, S, T) ==
    /\ \A n \in Node : v[n] = w[n] \/ (e[n] \in S /\ v[n] = Append(w[n], e[n]) /\ e[n] \subseteq T)
    /\ \A n, o \in Node : n # o => e[n] \cap e[o] = {}
LEMMA OnceSent ==
    ASSUME NEW S, NEW w \in [Node -> Seq(S)], NEW v \in [Node -> Seq(S)], NEW Q, NEW R \in SUBSET Q,
           NEW s, DOMAIN s = {}, Once(w, s, Q), NEW e, Adds(w, v, e, S, Q \ R)
    PROVE  Once(v, s, R)
<1> DEFINE Old(n, j) == j \in DOMAIN w[n] /\ v[n][j] = w[n][j]
           New(n, j) == j = Len(w[n]) + 1 /\ v[n][j] = e[n] /\ e[n] \subseteq Q \ R
<1>0. /\ \A n \in Node : v[n] = w[n] \/ (e[n] \in S /\ v[n] = Append(w[n], e[n]) /\ e[n] \subseteq Q \ R)
      /\ \A n, o \in Node : n # o => e[n] \cap e[o] = {}
  BY DEF Adds
<1>1. \A n \in Node : \A j \in DOMAIN v[n] : Old(n, j) \/ New(n, j)
  <2> SUFFICES ASSUME NEW n \in Node, NEW j \in DOMAIN v[n] PROVE Old(n, j) \/ New(n, j)
    OBVIOUS
  <2>1. CASE v[n] = w[n]
    BY <2>1
  <2>2. CASE e[n] \in S /\ v[n] = Append(w[n], e[n]) /\ e[n] \subseteq Q \ R
    <3>1. w[n] \in Seq(S) /\ Len(w[n]) \in Nat /\ DOMAIN w[n] = 1 .. Len(w[n])
      OBVIOUS
    <3>2. DOMAIN v[n] = 1 .. Len(w[n]) + 1 /\ v[n][Len(w[n]) + 1] = e[n] /\ \A k \in 1 .. Len(w[n]) : v[n][k] = w[n][k]
      BY <2>2, <3>1
    <3>3. QED
      BY <2>2, <3>1, <3>2
  <2>3. QED
    BY <1>0, <2>1, <2>2
<1>2. \A n, o \in Node : \A j \in DOMAIN w[n], k \in DOMAIN w[o] : w[n][j] \cap w[o][k] # {} => n = o /\ j = k
  BY DEF Once
<1>3. \A n \in Node : \A j \in DOMAIN w[n] : w[n][j] \cap Q = {}
  BY DEF Once
<1>4. ASSUME NEW n \in Node, NEW o \in Node, NEW j \in DOMAIN v[n], NEW k \in DOMAIN v[o], v[n][j] \cap v[o][k] # {}
      PROVE  n = o /\ j = k
  <2> HIDE DEF Old, New
  <2>1. Old(n, j) \/ New(n, j)
    BY <1>1
  <2>2. Old(o, k) \/ New(o, k)
    BY <1>1
  <2>3. CASE Old(n, j) /\ Old(o, k)
    BY <1>2, <1>4, <2>3 DEF Old
  <2>4. CASE Old(n, j) /\ New(o, k)
    BY <1>3, <1>4, <2>4 DEF Old, New
  <2>5. CASE New(n, j) /\ Old(o, k)
    BY <1>3, <1>4, <2>5 DEF Old, New
  <2>6. CASE New(n, j) /\ New(o, k)
    BY <1>0, <1>4, <2>6 DEF New
  <2>7. QED
    BY <2>1, <2>2, <2>3, <2>4, <2>5, <2>6
<1>5. \A n \in Node : \A j \in DOMAIN v[n] : v[n][j] \cap R = {}
  <2> SUFFICES ASSUME NEW n \in Node, NEW j \in DOMAIN v[n] PROVE v[n][j] \cap R = {}
    OBVIOUS
  <2> HIDE DEF Old, New
  <2>1. CASE Old(n, j)
    BY <1>3, <2>1 DEF Old
  <2>2. CASE New(n, j)
    BY <2>2 DEF New
  <2>3. QED
    BY <1>1, <2>1, <2>2
<1>6. QED
  BY <1>4, <1>5 DEF Once

\* The answer s to the first request to a node, or to all of them if the connection is lost.
LEMMA OnceAnswered ==
    ASSUME NEW w, NEW v, NEW Q, Once(w, <<>>, Q), NEW s, NEW n \in Node, \A o \in Node \ {n} : v[o] = w[o],
           \A j \in DOMAIN v[n] : j \in Nat \ {0} /\ j + 1 \in DOMAIN w[n] /\ v[n][j] = w[n][j + 1],
           \A k \in DOMAIN s : \E l \in DOMAIN w[n] : s[k].b \in w[n][l] /\ (l = 1 \/ DOMAIN v[n] = {}),
           \A j, k \in DOMAIN s : s[j].b = s[k].b => j = k
    PROVE  Once(v, s, Q)
<1>1. \A o, x \in Node : \A j \in DOMAIN w[o], k \in DOMAIN w[x] : w[o][j] \cap w[x][k] # {} => o = x /\ j = k
  BY DEF Once
<1>2. \A o \in Node : \A j \in DOMAIN w[o] : w[o][j] \cap Q = {}
  BY DEF Once
<1>3. \A o \in Node : \A j \in DOMAIN v[o] : \E l \in DOMAIN w[o] : v[o][j] = w[o][l] /\ IF o = n THEN j \in Nat \ {0} /\ l = j + 1 ELSE l = j
  OBVIOUS
<1>4. ASSUME NEW o \in Node, NEW x \in Node, NEW j \in DOMAIN v[o], NEW k \in DOMAIN v[x], v[o][j] \cap v[x][k] # {}
      PROVE  o = x /\ j = k
  <2>1. PICK l \in DOMAIN w[o] : v[o][j] = w[o][l] /\ IF o = n THEN j \in Nat \ {0} /\ l = j + 1 ELSE l = j
    BY <1>3
  <2>2. PICK m \in DOMAIN w[x] : v[x][k] = w[x][m] /\ IF x = n THEN k \in Nat \ {0} /\ m = k + 1 ELSE m = k
    BY <1>3
  <2>3. o = x /\ l = m
    BY <1>1, <1>4, <2>1, <2>2
  <2>4. QED
    BY <2>1, <2>2, <2>3
<1>5. ASSUME NEW o \in Node, NEW j \in DOMAIN v[o]
      PROVE  v[o][j] \cap Q = {} /\ \A k \in DOMAIN s : s[k].b \notin v[o][j]
  <2>1. PICK l \in DOMAIN w[o] : v[o][j] = w[o][l] /\ IF o = n THEN j \in Nat \ {0} /\ l = j + 1 ELSE l = j
    BY <1>3
  <2>2. ASSUME NEW k \in DOMAIN s, s[k].b \in v[o][j] PROVE FALSE
    <3>1. PICK m \in DOMAIN w[n] : s[k].b \in w[n][m] /\ (m = 1 \/ DOMAIN v[n] = {})
      OBVIOUS
    <3>2. o = n /\ l = m
      BY <1>1, <2>1, <2>2, <3>1
    <3>3. QED
      BY <2>1, <3>1, <3>2
  <2>3. QED
    BY <1>2, <2>1, <2>2
<1>6. \A k \in DOMAIN s : s[k].b \notin Q
  BY <1>2
<1>7. QED
  BY <1>4, <1>5, <1>6 DEF Once

\* The first few answers are dropped.
LEMMA OnceLater ==
    ASSUME NEW w, NEW S, NEW s \in Seq(S), NEW n \in DOMAIN s, NEW Q, Once(w, s, Q)
    PROVE  LET t == SubSeq(s, n + 1, Len(s)) IN
           t \in Seq(S) /\ Once(w, t, Q) /\ \A k \in DOMAIN t : \E l \in DOMAIN s : t[k] = s[l]
<1> DEFINE t == SubSeq(s, n + 1, Len(s))
<1>1. Len(s) \in Nat /\ DOMAIN s = 1 .. Len(s) /\ n \in 1 .. Len(s)
  OBVIOUS
<1>2. t \in Seq(S) /\ DOMAIN t = 1 .. Len(s) - n /\ \A k \in 1 .. Len(s) - n : t[k] = s[k + n]
  BY <1>1
<1> HIDE DEF t
<1>3. \A k \in DOMAIN t : k \in Nat /\ k + n \in DOMAIN s /\ t[k] = s[k + n]
  BY <1>1, <1>2
<1>4. \A j, k \in DOMAIN t : t[j].b = t[k].b => j = k
  <2> SUFFICES ASSUME NEW j \in DOMAIN t, NEW k \in DOMAIN t, t[j].b = t[k].b PROVE j = k
    OBVIOUS
  <2>1. \A l, m \in DOMAIN s : s[l].b = s[m].b => l = m
    BY DEF Once
  <2>2. j + n = k + n
    BY <1>3, <2>1
  <2>3. QED
    BY <1>1, <1>3, <2>2
<1>5. \A o \in Node : \A j \in DOMAIN w[o] : w[o][j] \cap Q = {} /\ \A k \in DOMAIN t : t[k].b \notin w[o][j]
  BY <1>3 DEF Once
<1>6. \A k \in DOMAIN t : t[k].b \notin Q
  BY <1>3 DEF Once
<1>7. Once(w, t, Q)
  BY <1>4, <1>5, <1>6 DEF Once
<1>8. QED
  BY <1>2, <1>3, <1>7 DEF t

\* The first batch of the answer is done with, or is put into a queue.
LEMMA OnceNext ==
    ASSUME NEW w, NEW S, NEW s \in Seq(S), s # <<>>, NEW Q, NEW R, Once(w, s, Q), R \subseteq Q \cup {Head(s).b}
    PROVE  Once(w, Tail(s), R) /\ \A n \in Node : \A j \in DOMAIN w[n] : Head(s).b \notin w[n][j]
<1> DEFINE t == Tail(s)
<1>1. Len(s) \in Nat \ {0} /\ DOMAIN s = 1 .. Len(s) /\ 1 \in DOMAIN s /\ Head(s) = s[1]
  OBVIOUS
<1>2. DOMAIN t = 1 .. Len(s) - 1 /\ \A k \in 1 .. Len(s) - 1 : t[k] = s[k + 1]
  BY <1>1
<1> HIDE DEF t
<1>3. \A k \in DOMAIN t : k \in Nat /\ k + 1 \in DOMAIN s /\ k + 1 # 1 /\ t[k] = s[k + 1]
  BY <1>1, <1>2
<1>4. \A n \in Node : \A j \in DOMAIN w[n] : w[n][j] \cap Q = {} /\ \A k \in DOMAIN s : s[k].b \notin w[n][j]
  BY DEF Once
<1>5. \A j, k \in DOMAIN s : s[j].b = s[k].b => j = k
  BY DEF Once
<1>6. \A j, k \in DOMAIN t : t[j].b = t[k].b => j = k
  <2> SUFFICES ASSUME NEW j \in DOMAIN t, NEW k \in DOMAIN t, t[j].b = t[k].b PROVE j = k
    OBVIOUS
  <2>1. j + 1 = k + 1
    BY <1>3, <1>5
  <2>2. QED
    BY <1>3, <2>1
<1>7. \A k \in DOMAIN t : t[k].b \notin R
  BY <1>1, <1>3, <1>5 DEF Once
<1>8. \A n \in Node : \A j \in DOMAIN w[n] : w[n][j] \cap R = {}
  BY <1>1, <1>4
<1>9. Once(w, t, R)
  BY <1>3, <1>4, <1>6, <1>7, <1>8 DEF Once
<1>10. QED
  BY <1>1, <1>4, <1>9 DEF t

LEMMA TrafficGrows ==
    ASSUME NEW I, NEW J, I \subseteq J, NEW w, NEW st, NEW s, NEW l, Traffic(I, w, st, s, l)
    PROVE  Traffic(J, w, st, s, l)
<1>1. SUBSET I \subseteq SUBSET J /\ Answer(I) \subseteq Answer(J) /\ Entry(I) \subseteq Entry(J)
  BY DEF Answer, Entry
<1>2. \A n \in Node : w[n] \in Seq(SUBSET J)
  <2> SUFFICES ASSUME NEW n \in Node PROVE w[n] \in Seq(SUBSET J)
    OBVIOUS
  <2>1. w[n] \in Seq(SUBSET I)
    BY DEF Traffic
  <2>2. QED
    BY <1>1, <2>1, SeqMonotonic
<1>3. \A p \in Partition : l[p] \in Seq(Entry(J))
  <2> SUFFICES ASSUME NEW p \in Partition PROVE l[p] \in Seq(Entry(J))
    OBVIOUS
  <2>1. l[p] \in Seq(Entry(I))
    BY DEF Traffic
  <2>2. QED
    BY <1>1, <2>1, SeqMonotonic
<1>4. s \in Seq(Answer(J))
  <2>1. s \in Seq(Answer(I))
    BY DEF Traffic
  <2>2. QED
    BY <1>1, <2>1, SeqMonotonic
<1>5. QED
  BY <1>2, <1>3, <1>4 DEF Traffic

LEMMA InOrder ==
    ASSUME NEW n \in Nat, NEW I \in SUBSET (1 .. n), NEW s \in [1 .. Cardinality(I) -> Answer(1 .. n)]
    PROVE  s \in Seq(Answer(1 .. n)) /\ DOMAIN s = 1 .. Cardinality(I)
<1>1. IsFiniteSet(1 .. n)
  BY FS_Interval
<1>2. IsFiniteSet(I)
  BY <1>1, FS_Subset
<1>3. Cardinality(I) \in Nat
  BY <1>2, FS_CardinalityType
<1>4. QED
  BY <1>3, SeqDef

Logs == [Partition -> Seq(Entry(DOMAIN batch))]
LEMMA WithBatchesOK ==
    ASSUME log \in Logs, NEW B \in SUBSET DOMAIN batch
    PROVE  WithBatches(B) \in Logs
<1> SUFFICES ASSUME NEW p \in Partition PROVE WithBatches(B)[p] \in Seq(Entry(DOMAIN batch))
  BY DEF Logs, WithBatches
<1>1. log[p] \in Seq(Entry(DOMAIN batch))
  BY DEF Logs
<1>2. CASE \E i \in B : batch[i].tp = p
  <2> DEFINE i == CHOOSE j \in B : batch[j].tp = p
             x == [b |-> i, mark |-> IF transactional THEN "open" ELSE "plain"]
  <2>1. i \in DOMAIN batch
    BY <1>2
  <2>2. WithBatches(B)[p] = WithBatch(log[p], i)
    BY <1>2 DEF WithBatches
  <2> HIDE DEF i
  <2>3. x \in Entry(DOMAIN batch)
    BY <2>1 DEF Entry
  <2>4. WithBatch(log[p], i) \in {log[p], Append(log[p], x)}
    BY DEF WithBatch
  <2> HIDE DEF x
  <2>5. Append(log[p], x) \in Seq(Entry(DOMAIN batch))
    BY <1>1, <2>3
  <2>6. QED
    BY <1>1, <2>2, <2>4, <2>5
<1>3. CASE ~\E i \in B : batch[i].tp = p
  BY <1>1, <1>3 DEF WithBatches
<1>4. QED
  BY <1>2, <1>3

LEMMA EndedOK ==
    ASSUME log \in Logs, NEW parts, NEW mark \in {"committed", "aborted"}
    PROVE  Ended(parts, mark) \in Logs
<1> SUFFICES ASSUME NEW p \in Partition PROVE Ended(parts, mark)[p] \in Seq(Entry(DOMAIN batch))
  BY DEF Logs, Ended
<1> DEFINE l == log[p]
           f == Ended(parts, mark)[p]
<1>1. l \in Seq(Entry(DOMAIN batch))
  BY DEF Logs
<1>2. f = [k \in DOMAIN l |-> IF p \in parts /\ l[k].mark = "open" THEN [l[k] EXCEPT !.mark = mark] ELSE l[k]]
  BY DEF Ended
<1>3. \A k \in DOMAIN l : l[k] \in Entry(DOMAIN batch)
  BY <1>1
<1>4. f \in [DOMAIN l -> Entry(DOMAIN batch)]
  BY <1>2, <1>3 DEF Entry
<1> HIDE DEF f, l
<1>5. f \in Seq(Entry(DOMAIN batch))
  BY <1>1, <1>4, SameDomain
<1>6. QED
  BY <1>5 DEF f

-----------------------------------------------------------------------------
(* The steps.                                                                 *)

\* The invariant after a step, of the variables' next values: the mode is for ever.
LEMMA Afterwards ==
    ASSUME mode \in Modes, mode' = mode, faults' \in 0 .. MaxFaults, aged' \in 0 .. Len(batch'), muted' \subseteq Partition,
           txn' \in Seq(Fates), coord'.pid \in Nat, DOMAIN coord' = {"pid", "parts", "fenced"},
           Calls(app', flushes'), sender' \in Thread,
           Placed(batch', queues', incomplete', in_flight_batches'),
           Traffic(DOMAIN batch', wire', stray', answers', log'),
           Once(wire', answers', InQueues(queues')),
           ManagerInv(tm', sender'.request, app', incomplete')
    PROVE  IInv'
<1>1. ManagerInv(tm, sender.request, app, incomplete)'
  BY DEF ManagerInv, Anywhere, In, OneEnd, NoEnds, transactional
<1>2. Placed(batch, queues, incomplete, in_flight_batches)'
  BY DEF Placed, InQueues
<1>3. Traffic(DOMAIN batch, wire, stray, answers, log)' /\ Once(wire, answers, InQueues(queues))'
  BY DEF Traffic, Once, InQueues
<1>4. Calls(app, flushes)' /\ (sender \in Thread)'
  BY DEF Calls, Thread
<1>5. QED
  BY <1>1, <1>2, <1>3, <1>4 DEF IInv

LEMMA SendStep == ASSUME IInv, NEW p \in Partition, send(p) PROVE IInv'
<1>1. /\ tm' \in {tm, maybe_add_partition_to_transaction(tm, p)} /\ app.at = "ready"
      /\ app' = [app EXCEPT !.at = "append", !.tp = p, !.sent = @ + 1]
      /\ transactional => tm.state = "IN_TRANSACTION"
  BY DEF send, idle, ready_for_send
<1>2. Calls(app', flushes') /\ app'.at = "append"
  BY <1>1 DEF IInv, Calls, send, accumulator
<1>3. ManagerInv(tm, sender.request, app, incomplete)
  BY DEF IInv
<1>4. ~Anywhere(tm, sender.request, "EndTxn")
  BY <1>1, <1>3, NotWaiting
<1>5. transactional => tm.state \in Open
  BY <1>1 DEF Open
<1>6. ManagerInv(tm, sender.request, app', incomplete)
  BY <1>3, <1>4, <1>5, AppGoesOn
<1>7. ManagerInv(tm', sender.request, app', incomplete)
  BY <1>1, <1>6, InPlace
<1>8. QED
  BY <1>2, <1>7, Afterwards DEF IInv, send, accumulator, brokers

LEMMA AppendStep == ASSUME IInv, append PROVE IInv'
<1> DEFINE p == app.tp
           last == queues[p][Len(queues[p])]
           new == Len(batch) + 1
           x == ProducerBatch(p)
           rs == [queues EXCEPT ![p] = Append(@, new)]
           r == sender.request
<1>1. /\ p \in Partition /\ app.at = "append" /\ app' = [app EXCEPT !.at = "ready"] /\ batch \in Seq(BatchRecord)
      /\ Placed(batch, queues, incomplete, in_flight_batches) /\ ManagerInv(tm, r, app, incomplete)
      /\ Traffic(DOMAIN batch, wire, stray, answers, log) /\ Once(wire, answers, InQueues(queues))
  BY DEF append, IInv, Calls, Placed
<1>2. Calls(app', flushes') /\ app'.at = "ready"
  BY <1>1 DEF IInv, Calls, append
<1>3. ~Anywhere(tm, r, "EndTxn") /\ (transactional => tm.state \in Open)
  BY <1>1 DEF ManagerInv
<1>4. \A rest : ManagerInv(tm, r, app', rest)
  BY <1>1, <1>2, <1>3, AppGoesOn
<1>5. mode' = mode /\ faults' = faults /\ aged' = aged /\ muted' = muted /\ txn' = txn /\ coord' = coord
      /\ sender' = sender /\ tm' = tm /\ in_flight_batches' = in_flight_batches /\ wire' = wire /\ stray' = stray
      /\ answers' = answers /\ log' = log
  BY DEF append, brokers
<1>6. ManagerInv(tm', sender'.request, app', incomplete')
  BY <1>4, <1>5
<1>7. CASE /\ queues[p] # <<>> /\ try_append(last)
           /\ batch' = [batch EXCEPT ![last].count = @ + 1]
           /\ UNCHANGED <<queues, incomplete>>
  <2>1. last \in DOMAIN batch /\ batch[last] \in BatchRecord
    <3>1. queues[p] \in Seq(DOMAIN batch)
      BY <1>1 DEF Placed
    <3>2. last \in DOMAIN batch
      BY <1>7, <3>1
    <3>3. QED
      BY <1>1, <3>2
  <2> HIDE DEF last
  <2>2. batch[last].count + 1 \in 1 .. BatchSize
    BY <1>7, <2>1, ProducerAssumption DEF try_append, BatchRecord
  <2>3. [batch[last] EXCEPT !.count = @ + 1] \in BatchRecord
    BY <2>1, <2>2 DEF BatchRecord
  <2>4. batch' \in Seq(BatchRecord) /\ DOMAIN batch' = DOMAIN batch /\ Len(batch') = Len(batch)
    <3>1. batch' = [batch EXCEPT ![last] = [batch[last] EXCEPT !.count = @ + 1]]
      BY <1>7
    <3>2. QED
      BY <1>1, <2>1, <2>3, <3>1
  <2>5. \A i \in DOMAIN batch : batch'[i].tp = batch[i].tp /\ batch'[i].final = batch[i].final
    BY <1>1, <1>7, <2>1 DEF BatchRecord
  <2>6. Placed(batch', queues', incomplete', in_flight_batches')
    BY <1>1, <1>5, <1>7, <2>4, <2>5, PlacedSame
  <2>7. QED
    BY <1>1, <1>2, <1>5, <1>6, <1>7, <2>4, <2>6, Afterwards DEF IInv
<1>8. CASE batch' = Append(batch, x) /\ queues' = rs /\ incomplete' = incomplete \cup {new}
  <2>1. x \in BatchRecord /\ x.final = "none" /\ x.tp = p
    <3>1. 1 \in 1 .. BatchSize
      BY ProducerAssumption
    <3>2. Current \in Nat
      BY DEF IInv, Current
    <3>3. QED
      BY <1>1, <3>1, <3>2 DEF ProducerBatch, BatchRecord
  <2> HIDE DEF x, p
  <2>2. /\ Placed(Append(batch, x), rs, incomplete \cup {new}, in_flight_batches)
        /\ InQueues(rs) = InQueues(queues) \cup {new}
        /\ DOMAIN Append(batch, x) = DOMAIN batch \cup {new} /\ new \notin DOMAIN batch
    BY <1>1, <2>1, PlacedNew
  <2>3. Traffic(DOMAIN batch', wire', stray', answers', log')
    BY <1>1, <1>5, <1>8, <2>2, TrafficGrows
  <2>4. \A n \in Node : \A j \in DOMAIN wire[n] : wire[n][j] \subseteq DOMAIN batch
    BY <1>1 DEF Traffic
  <2>5. \A k \in DOMAIN answers : answers[k].b \in DOMAIN batch
    <3>1. \A k \in DOMAIN answers : answers[k] \in Answer(DOMAIN batch)
      BY <1>1 DEF Traffic
    <3>2. QED
      BY <3>1 DEF Answer
  <2>6. Once(wire, answers, InQueues(queues) \cup {new})
    BY <1>1, <2>2, <2>4, <2>5 DEF Once
  <2>7. Len(batch') = Len(batch) + 1 /\ Len(batch) \in Nat
    BY <1>1, <1>8
  <2>8. aged' \in 0 .. Len(batch')
    BY <1>5, <2>7 DEF IInv
  <2>9. QED
    BY <1>2, <1>5, <1>6, <1>8, <2>2, <2>3, <2>6, <2>8, Afterwards DEF IInv
<1>9. QED
  BY <1>7, <1>8 DEF append

\* The steps of the application that leave the batches and the manager alone.
LEMMA AppStep ==
    ASSUME IInv, Calls(app', flushes'), app'.at # "append", ~Anywhere(tm, sender.request, "EndTxn"),
           sender' \in Thread, sender'.request = sender.request, txn' \in Seq(Fates), tm' = tm,
           UNCHANGED <<batch, queues, incomplete, muted, in_flight_batches, answers, wire, brokers, aged, mode, faults>>
    PROVE  IInv'
<1>1. ManagerInv(tm, sender.request, app, incomplete)
  BY DEF IInv
<1>2. transactional /\ (incomplete # {} \/ app'.at = "append") => tm.state \in Open
  BY <1>1 DEF ManagerInv
<1>3. ManagerInv(tm, sender.request, app', incomplete)
  BY <1>1, <1>2, AppGoesOn
<1>4. QED
  BY <1>3, Afterwards DEF IInv, brokers

LEMMA FlushStep == ASSUME IInv, NEW then \in {"flush", "close"}, flush(then) PROVE IInv'
<1>1. app.at = "ready" /\ app' = [app EXCEPT !.at = then, !.waits = incomplete] /\ flushes' = flushes + 1 /\ flushes \in Nat
  BY DEF flush, idle, IInv, Calls
<1>2. Calls(app', flushes') /\ app'.at = then
  BY <1>1 DEF IInv, Calls
<1>3. ~Anywhere(tm, sender.request, "EndTxn")
  BY <1>1 DEF IInv, ManagerInv
<1>4. sender' = sender /\ sender \in Thread /\ txn' = txn /\ txn \in Seq(Fates)
  BY DEF flush, IInv
<1>5. QED
  BY <1>2, <1>3, <1>4, AppStep DEF flush

\* The thread's flags are for nothing else.
LEMMA Flagged ==
    ASSUME sender \in Thread
    PROVE  \A s \in {sender, [sender EXCEPT !.running = FALSE], [sender EXCEPT !.force = TRUE]} :
              s \in Thread /\ s.request = sender.request
BY DEF Thread

LEMMA FlushedStep == ASSUME IInv, await_flush_completion \/ flush_times_out \/ join PROVE IInv'
<1>1. /\ app.at \in {"flush", "close", "join"} /\ flushes \in Nat /\ (app.at # "join" => flushes # 0)
      /\ flushes' = IF app.at = "join" THEN flushes ELSE flushes - 1
  BY DEF await_flush_completion, flush_times_out, join, accumulator, IInv, Calls
<1>2. \E at \in {"ready", "join", "closed"} : app' = [app EXCEPT !.at = at]
  BY DEF await_flush_completion, flush_times_out, join
<1>3. Calls(app', flushes') /\ app'.at # "append"
  BY <1>1, <1>2 DEF IInv, Calls
<1>4. ~Anywhere(tm, sender.request, "EndTxn")
  BY <1>1 DEF IInv, ManagerInv
<1>5. sender' \in {sender, [sender EXCEPT !.running = FALSE], [sender EXCEPT !.force = TRUE]}
  BY DEF await_flush_completion, flush_times_out, join
<1>6. sender' \in Thread /\ sender'.request = sender.request
  BY <1>5, Flagged DEF IInv
<1>7. txn' = txn /\ txn \in Seq(Fates)
  BY DEF await_flush_completion, flush_times_out, join, IInv
<1>8. UNCHANGED <<batch, queues, incomplete, muted, in_flight_batches, answers, tm, wire, brokers, aged, mode, faults>>
  BY DEF await_flush_completion, flush_times_out, join, accumulator
<1>9. QED
  BY <1>3, <1>4, <1>6, <1>7, <1>8, AppStep

LEMMA Noted == ASSUME NEW S, NEW s \in Seq(S), NEW k, NEW x \in S PROVE [s EXCEPT ![k] = x] \in Seq(S)
<1>1. Len(s) \in Nat /\ s \in [1 .. Len(s) -> S] /\ DOMAIN s = 1 .. Len(s)
  OBVIOUS
<1>2. [s EXCEPT ![k] = x] \in [DOMAIN s -> S]
  BY <1>1
<1>3. QED
  BY <1>2, SameDomain

LEMMA ReturnStep == ASSUME IInv, call_returns PROVE IInv'
<1>1. /\ app.at = "wait" /\ (tm.results[app.result] \in {"done", "failed"} \/ app.result = "init")
      /\ app' = [app EXCEPT !.at = "ready"]
  BY DEF call_returns
<1>2. Calls(app', flushes') /\ app'.at # "append"
  BY <1>1 DEF IInv, Calls, call_returns, accumulator
<1>3. ~Anywhere(tm, sender.request, "EndTxn")
  BY <1>1 DEF IInv, ManagerInv
<1>4. txn' \in Seq(Fates)
  <2>1. txn \in Seq(Fates)
    BY DEF IInv
  <2>2. \A v \in Fates : [txn EXCEPT ![Current] = v] \in Seq(Fates)
    BY <2>1, Noted
  <2>3. txn' \in {txn, [txn EXCEPT ![Current] = "committed"], [txn EXCEPT ![Current] = "aborted"]}
    BY DEF call_returns
  <2>4. [txn EXCEPT ![Current] = "committed"] \in Seq(Fates)
    BY <2>2 DEF Fates
  <2>5. [txn EXCEPT ![Current] = "aborted"] \in Seq(Fates)
    BY <2>2 DEF Fates
  <2>6. QED
    BY <2>1, <2>3, <2>4, <2>5
<1>5. sender' = sender /\ sender \in Thread
  BY DEF call_returns, IInv
<1>6. QED
  BY <1>2, <1>3, <1>4, <1>5, AppStep DEF call_returns, accumulator

\* The steps that change the manager and nothing else of the batches.
LEMMA ManagerStep ==
    ASSUME IInv, mode' = mode, faults' \in 0 .. MaxFaults, aged' = aged, muted' \subseteq Partition, txn' \in Seq(Fates),
           coord'.pid \in Nat, DOMAIN coord' = {"pid", "parts", "fenced"},
           Calls(app', flushes'), sender' \in Thread, ManagerInv(tm', sender'.request, app', incomplete),
           UNCHANGED <<batch, queues, incomplete, in_flight_batches, answers, wire, stray>>, log' \in Logs
    PROVE  IInv'
<1>1. Traffic(DOMAIN batch', wire', stray', answers', log')
  BY DEF IInv, Traffic, Logs
<1>2. QED
  BY <1>1, Afterwards DEF IInv

LEMMA CallStep ==
    ASSUME IInv, NEW result, calls_manager(result), app.at = "ready",
           \A b : b.at = "wait" /\ b.result = result => ManagerInv(tm', sender.request, b, incomplete),
           txn' \in Seq(Fates)
    PROVE  IInv'
<1>1. app' = [app EXCEPT !.at = "wait", !.result = result] /\ UNCHANGED <<accumulator, sender, wire, answers, brokers>>
  BY DEF calls_manager
<1>2. Calls(app', flushes') /\ app'.at = "wait" /\ app'.result = result
  BY <1>1 DEF IInv, Calls, accumulator
<1>3. ManagerInv(tm', sender'.request, app', incomplete)
  BY <1>1, <1>2
<1>4. log' \in Logs
  BY <1>1 DEF IInv, Traffic, Logs, brokers
<1>5. QED
  BY <1>1, <1>2, <1>3, <1>4, ManagerStep DEF IInv, calls_manager, accumulator, brokers

LEMMA CallsStep ==
    ASSUME IInv, init_transactions \/ commit_transaction \/ abort_transaction \/ offsets_to_transaction
    PROVE  IInv'
<1> DEFINE r == sender.request
<1>1. /\ app.at = "ready" /\ transactional /\ ManagerInv(tm, r, app, incomplete) /\ txn \in Seq(Fates)
  BY DEF IInv, init_transactions, commit_transaction, abort_transaction, offsets_to_transaction, idle
<1>2. \A v \in Fates : [txn EXCEPT ![Current] = v] \in Seq(Fates)
  BY <1>1, Noted
<1>3. CASE init_transactions
  <2>1. txn' = txn /\ calls_manager("init")
    BY <1>3 DEF init_transactions
  <2>2. ASSUME NEW b, b.at = "wait" PROVE ManagerInv(tm', r, b, incomplete)
    <3>1. CASE can_initialize(tm) /\ tm' = initialize_transactions(tm)
      BY <1>1, <2>2, <3>1, InitializeOK
    <3>2. CASE tm.results["init"] = "pending" /\ tm' = tm
      <4>1. ~Anywhere(tm, r, "EndTxn")
        BY <1>1, NotWaiting
      <4>2. transactional /\ (incomplete # {} \/ b.at = "append") => tm.state \in Open
        BY <1>1, <2>2 DEF ManagerInv
      <4>3. ManagerInv(tm, r, b, incomplete)
        BY <1>1, <4>1, <4>2, AppGoesOn
      <4>4. QED
        BY <3>2, <4>3
    <3>3. QED
      BY <1>3, <3>1, <3>2 DEF init_transactions
  <2>3. QED
    BY <1>1, <2>1, <2>2, CallStep
<1>4. CASE commit_transaction
  <2>1. txn' = [txn EXCEPT ![Current] = "commit"] /\ calls_manager("end") /\ can_commit(tm) /\ tm' = begin_commit(tm)
    BY <1>4 DEF commit_transaction
  <2>2. txn' \in Seq(Fates)
    BY <1>2, <2>1 DEF Fates
  <2>3. \A b : b.at = "wait" /\ b.result = "end" => ManagerInv(tm', r, b, incomplete)
    BY <1>1, <2>1, CommitOrAbortOK
  <2>4. QED
    BY <1>1, <2>1, <2>2, <2>3, CallStep
<1>5. CASE abort_transaction
  <2>1. txn' = [txn EXCEPT ![Current] = "abort"] /\ calls_manager("end") /\ can_abort(tm) /\ tm' = begin_abort(tm)
    BY <1>5 DEF abort_transaction
  <2>2. txn' \in Seq(Fates)
    BY <1>2, <2>1 DEF Fates
  <2>3. \A b : b.at = "wait" /\ b.result = "end" => ManagerInv(tm', r, b, incomplete)
    BY <1>1, <2>1, CommitOrAbortOK
  <2>4. QED
    BY <1>1, <2>1, <2>2, <2>3, CallStep
<1>6. CASE offsets_to_transaction
  <2>1. txn' = txn /\ calls_manager("offsets") /\ can_send_offsets(tm) /\ tm' = send_offsets_to_transaction(tm)
    BY <1>6 DEF offsets_to_transaction
  <2>2. \A b : b.at = "wait" => ManagerInv(tm', r, b, incomplete)
    BY <1>1, <2>1, SendOffsetsOK
  <2>3. QED
    BY <1>1, <2>1, <2>2, CallStep
<1>7. QED
  BY <1>3, <1>4, <1>5, <1>6

LEMMA BeginStep == ASSUME IInv, begin PROVE IInv'
<1>1. can_begin(tm) /\ tm' = begin_transaction(tm) /\ txn' = Append(txn, "begun")
  BY DEF begin
<1>2. ManagerInv(tm', sender.request, app, incomplete)
  BY <1>1, BeginOK DEF IInv
<1>3. txn' \in Seq(Fates)
  <2>1. txn \in Seq(Fates) /\ "begun" \in Fates
    BY DEF IInv, Fates
  <2>2. QED
    BY <1>1, <2>1
<1>4. Calls(app', flushes') /\ log' \in Logs
  BY DEF IInv, Traffic, Logs, begin, brokers, accumulator
<1>5. QED
  BY <1>2, <1>3, <1>4, ManagerStep DEF IInv, begin, accumulator, brokers

LEMMA ApplicationStep == ASSUME IInv, Application PROVE IInv'
BY SendStep, AppendStep, FlushStep, FlushedStep, ReturnStep, CallsStep, BeginStep DEF Application

(* The sender thread. *)

Places == {"run", "acquire", "poll", "closed", "dead"}
LEMMA Going ==
    ASSUME sender \in Thread, sender.pc # "await", NEW pc \in Places, goes(pc)
    PROVE  sender' \in Thread /\ sender.request = NoRequest /\ sender'.request = NoRequest
BY DEF Thread, Places, goes

LEMMA FewerOK ==
    ASSUME NEW m, NEW r, NEW a, NEW inc, ManagerInv(m, r, a, inc), NEW D
    PROVE  ManagerInv(m, r, a, inc \ D)
<1>1. transactional /\ (inc \ D # {} \/ a.at = "append") => m.state \in Open
  BY DEF ManagerInv
<1>2. QED
  BY <1>1, AppGoesOn

LEMMA AfterAskingOK ==
    ASSUME ManagerInv(tm, NoRequest, app, incomplete), nothing_to_ask
    PROVE  ManagerInv(after_asking, NoRequest, app, incomplete)
<1>1. CASE ~transactional
  BY <1>1 DEF after_asking
<1>2. CASE transactional
  <2>1. tm.in_flight = NoRequest /\ next_request_handler(tm, incomplete # {}).request = NoRequest
    BY <1>2 DEF nothing_to_ask, asks, has_in_flight_transactional_request
  <2>2. LET n == next_request_handler(tm, incomplete # {}) IN ManagerInv(n.tm, n.request, app, incomplete)
    BY <2>1, NextRequestOK
  <2>3. QED
    BY <1>2, <2>1, <2>2 DEF after_asking
<1>3. QED
  BY <1>1, <1>2

LEMMA WaitsStep == ASSUME IInv, waits_for_producer_id \/ _maybe_wait_for_producer_id \/ poll_returns PROVE IInv'
<1>1. sender.pc # "await" /\ \E pc \in Places : goes(pc)
  BY DEF waits_for_producer_id, _maybe_wait_for_producer_id, poll_returns, runs, Places
<1>2. sender' \in Thread /\ sender.request = NoRequest /\ sender'.request = NoRequest
  BY <1>1, Going DEF IInv
<1>3. ManagerInv(tm, NoRequest, app, incomplete) /\ coord.pid \in Nat /\ DOMAIN coord = {"pid", "parts", "fenced"}
  BY <1>2 DEF IInv
<1>4. /\ tm' \in {tm, transition_to_fatal_error(tm), set_producer_id_and_epoch(tm, coord.pid + 1)}
      /\ coord' \in {coord, [coord EXCEPT !.pid = @ + 1]}
      /\ faults' \in {faults, faults + 1} /\ (faults' = faults \/ faults < MaxFaults)
  BY DEF waits_for_producer_id, _maybe_wait_for_producer_id, poll_returns, brokers
<1>5. ManagerInv(tm', sender'.request, app, incomplete)
  <2>1. coord.pid + 1 \in Nat
    BY <1>3
  <2>2. ManagerInv(set_producer_id_and_epoch(tm, coord.pid + 1), NoRequest, app, incomplete)
    BY <1>3, <2>1, InPlace
  <2>3. ManagerInv(transition_to_fatal_error(tm), NoRequest, app, incomplete)
    BY <1>3, InPlace
  <2>4. QED
    BY <1>2, <1>3, <1>4, <2>2, <2>3
<1>6. coord'.pid \in Nat /\ DOMAIN coord' = {"pid", "parts", "fenced"}
  BY <1>3, <1>4
<1>7. faults' \in 0 .. MaxFaults
  BY <1>4, ProducerAssumption DEF IInv
<1>8. /\ UNCHANGED <<accumulator, answers, client, wire, aged, mode>> /\ stray' = stray /\ log' = log
  BY DEF waits_for_producer_id, _maybe_wait_for_producer_id, poll_returns, brokers
<1>9. log' \in Logs
  BY <1>8 DEF IInv, Traffic, Logs
<1>10. Calls(app', flushes') /\ app' = app
  BY <1>8 DEF IInv, accumulator, client
<1>11. QED
  BY <1>2, <1>5, <1>6, <1>7, <1>8, <1>9, <1>10, ManagerStep DEF IInv, accumulator, client

\* What has not been sent is aborted.
LEMMA AbortedOK ==
    ASSUME IInv, NEW A, abortable(A), abort(A), in_flight_batches' = in_flight_batches
    PROVE  /\ Placed(batch', queues', incomplete', in_flight_batches') /\ DOMAIN batch' = DOMAIN batch
           /\ Len(batch') = Len(batch) /\ InQueues(queues') \subseteq InQueues(queues)
<1>1. /\ Placed(batch, queues, incomplete, in_flight_batches) /\ batch \in Seq(BatchRecord)
      /\ queues \in [Partition -> Seq(DOMAIN batch)] /\ \A p \in Partition : Distinct(queues[p])
  BY DEF IInv, Placed
<1>2. batch' = settled(batch, A, "ABORTED") /\ queues' = without(A) /\ incomplete' = incomplete \ A
  BY DEF abort
<1>3. queues' \in [Partition -> Seq(DOMAIN batch)]
      /\ \A p \in Partition : Distinct(queues'[p]) /\ Elements(queues'[p]) = Elements(queues[p]) \ A
  <2>1. \A p \in Partition : queues[p] \in Seq(DOMAIN batch)
    BY <1>1
  <2>2. \A p \in Partition : /\ Kept(queues[p], A) \in Seq(DOMAIN batch)
                             /\ Elements(Kept(queues[p], A)) = Elements(queues[p]) \ A
                             /\ Distinct(Kept(queues[p], A))
    BY <1>1, <2>1, KeptOK
  <2>3. QED
    BY <1>2, <2>2 DEF without
<1>4. Placed(settled(batch, A, "ABORTED"), queues', incomplete \ A, in_flight_batches \ A)
  BY <1>1, <1>3, PlacedSettled
<1>5. Queued = InQueues(queues)
  BY DEF Queued, InQueues, Elements
<1>6. in_flight_batches \ A = in_flight_batches
  BY <1>1, <1>5 DEF abortable, Placed
<1>7. InQueues(queues') \subseteq InQueues(queues)
  BY <1>3 DEF InQueues
<1>8. DOMAIN batch' = DOMAIN batch /\ batch' \in Seq(BatchRecord)
  BY <1>1, <1>2, SettledOK
<1>9. Len(batch') = Len(batch)
  BY <1>1, <1>8
<1>10. QED
  BY <1>2, <1>4, <1>6, <1>7, <1>8, <1>9

LEMMA OnceFewer == ASSUME NEW w, NEW s, NEW Q, NEW R, Once(w, s, Q), R \subseteq Q PROVE Once(w, s, R)
BY DEF Once

LEMMA AbortsStep ==
    ASSUME IInv, UNCHANGED <<muted, in_flight_batches, answers, client, wire, brokers, aged, mode, faults>>,
           flushes' = flushes, sender' \in Thread, ManagerInv(tm', sender'.request, app, incomplete),
           NEW A, abortable(A), abort(A)
    PROVE  IInv'
<1>1. /\ Placed(batch', queues', incomplete', in_flight_batches') /\ DOMAIN batch' = DOMAIN batch
      /\ Len(batch') = Len(batch) /\ InQueues(queues') \subseteq InQueues(queues)
  BY AbortedOK
<1>2. Once(wire', answers', InQueues(queues'))
  <2>1. Once(wire, answers, InQueues(queues))
    BY DEF IInv
  <2>2. Once(wire, answers, InQueues(queues'))
    BY <1>1, <2>1, OnceFewer
  <2>3. QED
    BY <2>2
<1>3. ManagerInv(tm', sender'.request, app', incomplete')
  BY FewerOK DEF abort, client
<1>4. Calls(app', flushes')
  BY DEF IInv, client
<1>5. Traffic(DOMAIN batch', wire', stray', answers', log')
  BY <1>1 DEF IInv, brokers
<1>6. QED
  BY <1>1, <1>2, <1>3, <1>4, <1>5, Afterwards DEF IInv, brokers, client

LEMMA AbortingStep == ASSUME IInv, aborts_batches \/ aborts_undrained \/ run_ends PROVE IInv'
<1>1. sender.pc = "run" /\ sender \in Thread /\ ManagerInv(tm, sender.request, app, incomplete)
  BY DEF aborts_batches, aborts_undrained, run_ends, runs, IInv
<1>2. sender.request = NoRequest
  BY <1>1 DEF Thread
<1>3. /\ UNCHANGED <<muted, in_flight_batches, answers, client, wire, brokers, aged, mode, faults>>
      /\ flushes' = flushes
  BY DEF aborts_batches, aborts_undrained, run_ends
<1>4. CASE aborts_batches
  BY <1>1, <1>3, <1>4, AbortsStep DEF aborts_batches
<1>5. CASE aborts_undrained
  <2>1. ManagerInv(tm', sender'.request, app, incomplete)
    BY <1>1, <1>2, <1>5, AfterAskingOK DEF aborts_undrained
  <2>2. QED
    BY <1>1, <1>3, <1>5, <2>1, AbortsStep DEF aborts_undrained
<1>6. CASE run_ends
  <2>1. \E pc \in Places : goes(pc)
    BY <1>6 DEF run_ends, Places
  <2>2. sender' \in Thread /\ sender'.request = NoRequest
    BY <1>1, <2>1, Going
  <2>3. ManagerInv(tm', sender'.request, app, incomplete) /\ tm' = tm
    BY <1>1, <1>2, <1>6, <2>2 DEF run_ends
  <2>4. CASE sender.force
    BY <1>3, <1>6, <2>2, <2>3, <2>4, AbortsStep DEF run_ends
  <2>5. CASE ~sender.force
    <3>1. UNCHANGED <<batch, queues, incomplete>>
      BY <1>6, <2>5 DEF run_ends
    <3>2. log' \in Logs /\ Calls(app', flushes') /\ app' = app
      BY <1>3 DEF IInv, Traffic, Logs, client, brokers
    <3>3. QED
      BY <1>3, <2>2, <2>3, <3>1, <3>2, ManagerStep DEF IInv, client, brokers
  <2>6. QED
    BY <2>4, <2>5
<1>7. QED
  BY <1>4, <1>5, <1>6

\* The steps that only change the manager, in the sender thread.
LEMMA AskingStep ==
    ASSUME IInv, UNCHANGED <<batch, queues, incomplete, muted, in_flight_batches, answers, client, wire, brokers, aged, mode>>,
           faults' \in 0 .. MaxFaults, flushes' \in {flushes, 1}, sender' \in Thread,
           ManagerInv(tm', sender'.request, app, incomplete)
    PROVE  IInv'
<1>1. log' \in Logs /\ app' = app
  BY DEF IInv, Traffic, Logs, client, brokers
<1>2. Calls(app', flushes')
  BY DEF IInv, Calls, client
<1>3. QED
  BY <1>1, <1>2, ManagerStep DEF IInv, client, brokers

LEMMA AsksStep == ASSUME IInv, _maybe_send_transactional_request PROVE IInv'
<1> DEFINE next == next_request_handler(tm, incomplete # {})
<1>1. /\ sender \in Thread /\ sender.pc = "run" /\ tm.in_flight = NoRequest /\ next.request # NoRequest /\ tm' = next.tm
      /\ sender' = [sender EXCEPT !.pc = "await", !.request = next.request]
  BY DEF _maybe_send_transactional_request, runs, asks, has_in_flight_transactional_request, IInv
<1>2. ManagerInv(tm, NoRequest, app, incomplete)
  BY <1>1 DEF IInv, Thread
<1>3. ManagerInv(next.tm, next.request, app, incomplete)
  BY <1>1, <1>2, NextRequestOK
<1> HIDE DEF next
<1>4. next.request \in Good \cup {NoRequest}
  BY <1>3 DEF ManagerInv
<1>5. sender' \in Thread /\ sender'.request = next.request
  BY <1>1, <1>4 DEF Thread
<1>6. ManagerInv(tm', sender'.request, app, incomplete)
  BY <1>1, <1>3, <1>5
<1>7. flushes' \in {flushes, 1} /\ faults' \in 0 .. MaxFaults
  BY DEF _maybe_send_transactional_request, IInv
<1>8. QED
  BY <1>5, <1>6, <1>7, AskingStep DEF _maybe_send_transactional_request

LEMMA RequestStep == ASSUME IInv, request_sent \/ request_put_off PROVE IInv'
<1> DEFINE r == sender.request
<1>1. /\ sender \in Thread /\ sender.pc = "await" /\ sender' = [sender EXCEPT !.pc = "poll", !.request = NoRequest]
      /\ ManagerInv(tm, r, app, incomplete)
  BY DEF request_sent, request_put_off, IInv
<1>2. r \in Good /\ r # NoRequest
  BY <1>1 DEF Thread
<1>3. tm.in_flight = NoRequest
  BY <1>1, <1>2 DEF ManagerInv
<1>4. sender' \in Thread /\ sender'.request = NoRequest
  BY <1>1 DEF Thread
<1>5. tm' \in {[tm EXCEPT !.in_flight = r], reenqueue(lookup_coordinator_for_request(tm, r), r),
               lookup_coordinator_for_request(tm, r)}
  BY DEF request_sent, request_put_off, reenqueue
<1> HIDE DEF r
<1>6. ManagerInv([tm EXCEPT !.in_flight = r], NoRequest, app, incomplete)
  BY <1>1, <1>2, <1>3, SentOff
<1>7. /\ ManagerInv(reenqueue(lookup_coordinator_for_request(tm, r), r), NoRequest, app, incomplete)
      /\ ManagerInv(lookup_coordinator_for_request(tm, r), NoRequest, app, incomplete)
  BY <1>1, <1>2, <1>3, ReenqueueOK
<1>8. ManagerInv(tm', sender'.request, app, incomplete)
  BY <1>4, <1>5, <1>6, <1>7
<1>9. faults' \in 0 .. MaxFaults
  BY ProducerAssumption DEF request_sent, request_put_off, IInv
<1>10. UNCHANGED <<accumulator, answers, client, wire, brokers, aged, mode>>
  BY DEF request_sent, request_put_off
<1>11. QED
  BY <1>4, <1>8, <1>9, <1>10, AskingStep DEF accumulator

LEMMA PollsStep == ASSUME IInv, only_polls PROVE IInv'
<1>1. sender \in Thread /\ sender.pc = "run" /\ goes("poll") /\ "poll" \in Places
  BY DEF only_polls, runs, IInv, Places
<1>2. sender' \in Thread /\ sender.request = NoRequest /\ sender'.request = NoRequest
  BY <1>1, Going
<1>3. ManagerInv(tm, NoRequest, app, incomplete)
  BY <1>2 DEF IInv
<1>4. ManagerInv(tm', sender'.request, app, incomplete)
  BY <1>2, <1>3, AfterAskingOK DEF only_polls
<1>5. flushes' \in {flushes, 1} /\ faults' \in 0 .. MaxFaults
  BY DEF only_polls, flushes_after, IInv
<1>6. QED
  BY <1>2, <1>4, <1>5, AskingStep DEF only_polls

LEMMA FinishOK ==
    ASSUME Placed(batch, queues, incomplete, in_flight_batches), NEW i, i \notin InQueues(queues),
           NEW how \in {"SUCCEEDED", "FAILED"}, finish(i, how), queues' = queues
    PROVE  /\ Placed(batch', queues', incomplete', in_flight_batches') /\ DOMAIN batch' = DOMAIN batch
           /\ Len(batch') = Len(batch) /\ \E D : incomplete' = incomplete \ D
<1>1. CASE UNCHANGED <<batch, in_flight_batches, incomplete>>
  <2>1. incomplete' = incomplete \ {}
    BY <1>1
  <2>2. QED
    BY <1>1, <2>1
<1>2. CASE /\ batch' = settled(batch, {i}, how)
           /\ in_flight_batches' = in_flight_batches \ {i}
           /\ incomplete' = incomplete \ {i}
  <2>1. /\ batch \in Seq(BatchRecord) /\ queues \in [Partition -> Seq(DOMAIN batch)]
        /\ \A p \in Partition : Distinct(queues[p])
    BY DEF Placed
  <2>2. \A p \in Partition : Elements(queues[p]) = Elements(queues[p]) \ {i}
    BY DEF InQueues
  <2>3. Placed(settled(batch, {i}, how), queues, incomplete \ {i}, in_flight_batches \ {i})
    BY <2>1, <2>2, PlacedSettled
  <2>4. batch' \in Seq(BatchRecord) /\ DOMAIN batch' = DOMAIN batch
    BY <1>2, <2>1, SettledOK
  <2>5. Len(batch') = Len(batch)
    BY <2>1, <2>4
  <2>6. QED
    BY <1>2, <2>3, <2>4, <2>5
<1>3. QED
  BY <1>1, <1>2 DEF finish

LEMMA RetriedOK ==
    ASSUME Placed(batch, queues, incomplete, in_flight_batches), NEW i, i \in DOMAIN batch, batch[i].final = "none",
           i \notin InQueues(queues), reenqueue_batch(i), in_flight_batches' = in_flight_batches \ {i},
           incomplete' = incomplete
    PROVE  /\ Placed(batch', queues', incomplete', in_flight_batches') /\ DOMAIN batch' = DOMAIN batch
           /\ Len(batch') = Len(batch) /\ InQueues(queues') = InQueues(queues) \cup {i}
<1> DEFINE rs == PutBack(batch, queues, i)
           b == [batch[i] EXCEPT !.retry = TRUE, !.attempts = @ + 1]
<1>1. i \in in_flight_batches /\ batch \in Seq(BatchRecord)
  BY DEF Placed
<1>3. batch' = [batch EXCEPT ![i] = b] /\ queues' = rs
  BY DEF reenqueue_batch, PutBack
<1>2. Placed(batch, rs, incomplete, in_flight_batches \ {i}) /\ InQueues(rs) = InQueues(queues) \cup {i}
  <2> DEFINE rest == in_flight_batches \ {i}
  <2>0. rest \in SUBSET in_flight_batches /\ i \notin rest /\ \A j \in in_flight_batches : j = i \/ j \in rest
    OBVIOUS
  <2> HIDE DEF rest
  <2>1. Placed(batch, rs, incomplete, rest)
    BY <1>1, <2>0, PlacedBack
  <2>2. InQueues(rs) = InQueues(queues) \cup {i}
    BY <1>1, <2>0, PlacedBack
  <2>3. QED
    BY <2>1, <2>2 DEF rest
<1>4. b \in BatchRecord /\ b.tp = batch[i].tp /\ b.final = batch[i].final
  <2>1. batch[i] \in BatchRecord
    BY <1>1
  <2>2. ASSUME NEW x \in BatchRecord
        PROVE  LET y == [x EXCEPT !.retry = TRUE, !.attempts = @ + 1] IN
               y \in BatchRecord /\ y.tp = x.tp /\ y.final = x.final
    <3>1. x.attempts + 1 \in Nat
      BY DEF BatchRecord
    <3> DEFINE n == x.attempts + 1
    <3> HIDE DEF n
    <3>2. LET y == [x EXCEPT !.retry = TRUE, !.attempts = n] IN
          y \in BatchRecord /\ y.tp = x.tp /\ y.final = x.final
      BY <3>1 DEF BatchRecord, n
    <3>3. QED
      BY <3>2 DEF n
  <2>3. QED
    BY <2>1, <2>2
<1> HIDE DEF b, rs
<1>5. batch' \in Seq(BatchRecord) /\ DOMAIN batch' = DOMAIN batch /\ Len(batch') = Len(batch)
  BY <1>1, <1>3, <1>4
<1>6. \A j \in DOMAIN batch : batch'[j].tp = batch[j].tp /\ batch'[j].final = batch[j].final
  BY <1>1, <1>3, <1>4
<1>7. Placed(batch', rs, incomplete, in_flight_batches \ {i})
  BY <1>2, <1>5, <1>6, PlacedSame
<1>8. QED
  BY <1>2, <1>3, <1>5, <1>7

LEMMA CompletesStep == ASSUME IInv, completes PROVE IInv'
<1> DEFINE a == Head(answers)
           i == a.b
           r == sender.request
<1>1. /\ Placed(batch, queues, incomplete, in_flight_batches) /\ batch \in Seq(BatchRecord)
      /\ Traffic(DOMAIN batch, wire, stray, answers, log) /\ answers \in Seq(Answer(DOMAIN batch)) /\ answers # <<>>
      /\ Once(wire, answers, InQueues(queues)) /\ ManagerInv(tm, r, app, incomplete) /\ muted \subseteq Partition
  BY DEF IInv, Placed, Traffic, completes
<1>2. /\ UNCHANGED <<flushes, sender, app, txn, wire, stray, log, coord, aged, mode, faults>>
  BY DEF completes, client, brokers
<1>3. i \in DOMAIN batch /\ batch[i] \in BatchRecord /\ i \notin InQueues(queues)
  <2>1. a \in Answer(DOMAIN batch) /\ a = answers[1] /\ 1 \in DOMAIN answers
    BY <1>1
  <2>2. i \in DOMAIN batch
    BY <2>1 DEF Answer
  <2>3. QED
    BY <1>1, <2>1, <2>2 DEF Once
<1>4. Tail(answers) \in Seq(Answer(DOMAIN batch))
  BY <1>1
<1>5. ASSUME NEW R, R \subseteq InQueues(queues) \cup {i} PROVE Once(wire, Tail(answers), R)
  BY <1>1, <1>5, OnceNext
<1>6. ASSUME Placed(batch', queues', incomplete', in_flight_batches'), DOMAIN batch' = DOMAIN batch,
             Len(batch') = Len(batch), Once(wire, answers', InQueues(queues')),
             answers' \in Seq(Answer(DOMAIN batch)), muted' \subseteq Partition, ManagerInv(tm', r, app, incomplete')
      PROVE  IInv'
  <2>1. Traffic(DOMAIN batch', wire', stray', answers', log')
    BY <1>1, <1>2, <1>6 DEF Traffic
  <2>2. QED
    BY <1>2, <1>6, <2>1, Afterwards DEF IInv
<1>7. CASE _complete_batch(i, a.error) /\ answers' = Tail(answers)
  <2> DEFINE finished == \E how \in {"SUCCEEDED", "FAILED"} : finish(i, how) /\ queues' = queues
             retried == /\ batch[i].final = "none" /\ reenqueue_batch(i) /\ incomplete' = incomplete /\ tm' = tm
                        /\ in_flight_batches' = in_flight_batches \ {i}
  <2>1. muted' = muted \ {batch[i].tp}
    BY <1>7 DEF _complete_batch, acknowledge
  <2>2. finished \/ retried
    BY <1>7 DEF _complete_batch, _can_retry
  <2>3. tm' \in {tm, increment_sequence_number(tm, batch[i].tp, batch[i].count), fail_manager(tm, batch[i], a.error)}
    BY <1>7 DEF _complete_batch, acknowledge
  <2>4. ManagerInv(tm', r, app, incomplete)
    <3>1. batch[i].tp \in Partition /\ batch[i].count \in Nat
      BY <1>3, ProducerAssumption DEF BatchRecord
    <3>2. ManagerInv(increment_sequence_number(tm, batch[i].tp, batch[i].count), r, app, incomplete)
      BY <1>1, <3>1, InPlace
    <3>3. ManagerInv(fail_manager(tm, batch[i], a.error), r, app, incomplete)
      BY <1>1, <3>1, FailedOK
    <3>4. QED
      BY <1>1, <2>3, <3>2, <3>3
  <2>5. CASE finished
    <3>1. /\ Placed(batch', queues', incomplete', in_flight_batches') /\ DOMAIN batch' = DOMAIN batch
          /\ Len(batch') = Len(batch) /\ \E D : incomplete' = incomplete \ D
      BY <1>1, <1>3, <2>5, FinishOK
    <3>2. ManagerInv(tm', r, app, incomplete')
      <4>1. PICK D : incomplete' = incomplete \ D
        BY <3>1
      <4>2. QED
        BY <2>4, <4>1, FewerOK
    <3>3. Once(wire, answers', InQueues(queues'))
      BY <1>5, <1>7, <2>5
    <3>4. QED
      BY <1>1, <1>4, <1>6, <1>7, <2>1, <3>1, <3>2, <3>3
  <2>6. CASE retried
    <3>1. /\ Placed(batch', queues', incomplete', in_flight_batches') /\ DOMAIN batch' = DOMAIN batch
          /\ Len(batch') = Len(batch) /\ InQueues(queues') = InQueues(queues) \cup {i}
      BY <1>1, <1>3, <2>6, RetriedOK
    <3>2. Once(wire, answers', InQueues(queues'))
      BY <1>5, <1>7, <3>1
    <3>3. QED
      BY <1>1, <1>4, <1>6, <1>7, <2>1, <2>4, <2>6, <3>1, <3>2
  <2>7. QED
    BY <2>2, <2>5, <2>6
<1>8. ASSUME NEW n \in DOMAIN answers, answers' = SubSeq(answers, n + 1, Len(answers)),
             UNCHANGED <<batch, queues, incomplete, muted, in_flight_batches, tm>>
      PROVE  IInv'
  <2>1. answers' \in Seq(Answer(DOMAIN batch)) /\ Once(wire, answers', InQueues(queues))
    BY <1>1, <1>8, OnceLater
  <2>2. QED
    BY <1>1, <1>6, <1>8, <2>1
<1>9. QED
  BY <1>7, <1>8 DEF completes

(* Sending: m is the manager after what there was to ask. *)

LEMMA NotRaised ==
    ASSUME NEW m, NEW a, ManagerInv(m, NoRequest, a, incomplete), incomplete # {}, ~failed(m)
    PROVE  ~fail_raises(m, "timeout")
<1>1. CASE ~transactional
  BY <1>1 DEF fail_raises
<1>2. CASE transactional
  <2>1. managed
    BY <1>2 DEF managed, transactional
  <2>2. m.state \in Open /\ m.state # "FATAL_ERROR"
    BY <1>2, <2>1 DEF ManagerInv, failed, has_fatal_error
  <2>3. QED
    BY <2>2 DEF Open, fail_raises, abortable_error_raises, is_aborting, can_transition_to, is_transition_valid
<1>3. QED
  BY <1>1, <1>2

LEMMA StampedOK ==
    ASSUME batch \in Seq(BatchRecord), tm \in GoodManager, NEW ids
    PROVE  LET sent == [i \in DOMAIN batch |-> IF i \in ids THEN stamped(batch[i]) ELSE batch[i]] IN
           /\ sent \in Seq(BatchRecord) /\ DOMAIN sent = DOMAIN batch /\ Len(sent) = Len(batch)
           /\ \A i \in DOMAIN batch : sent[i].tp = batch[i].tp /\ sent[i].final = batch[i].final
<1> DEFINE sent == [i \in DOMAIN batch |-> IF i \in ids THEN stamped(batch[i]) ELSE batch[i]]
<1>1. ASSUME NEW b \in BatchRecord
      PROVE  stamped(b) \in BatchRecord /\ stamped(b).tp = b.tp /\ stamped(b).final = b.final
  <2>1. tm.pid \in Nat /\ tm.seq[b.tp] \in Nat
    BY DEF GoodManager, BatchRecord
  <2> DEFINE q == tm.seq[b.tp]
  <2> HIDE DEF q
  <2>2. q \in Nat
    BY <2>1 DEF q
  <2>3. LET c == [b EXCEPT !.open = FALSE, !.pid = tm.pid, !.seq = q] IN
        c \in BatchRecord /\ c.tp = b.tp /\ c.final = b.final
    BY <2>1, <2>2 DEF BatchRecord
  <2>4. LET c == [b EXCEPT !.open = FALSE] IN c \in BatchRecord /\ c.tp = b.tp /\ c.final = b.final
    BY DEF BatchRecord
  <2>5. stamped(b) \in {[b EXCEPT !.open = FALSE, !.pid = tm.pid, !.seq = q], [b EXCEPT !.open = FALSE]}
    BY DEF stamped, q
  <2>6. QED
    BY <2>3, <2>4, <2>5
<1>2. \A i \in DOMAIN batch : batch[i] \in BatchRecord
  OBVIOUS
<1>3. \A i \in DOMAIN batch :
        sent[i] \in BatchRecord /\ sent[i].tp = batch[i].tp /\ sent[i].final = batch[i].final
  BY <1>1, <1>2
<1>4. sent \in [DOMAIN batch -> BatchRecord]
  BY <1>3
<1> HIDE DEF sent
<1>5. sent \in Seq(BatchRecord) /\ DOMAIN sent = DOMAIN batch /\ Len(sent) = Len(batch)
  BY <1>4, SameDomain
<1>6. QED
  BY <1>3, <1>5 DEF sent

\* The batches that have expired: the first ones of the queues qs, and some in flight.
Trimmed(qs) == [p \in Partition |-> SubSeq(qs[p], late(qs[p]) + 1, Len(qs[p]))]
Late(qs) == UNION {{qs[p][k] : k \in 1 .. late(qs[p])} : p \in Partition}
Expired(qs, F) == Late(qs) \cup F
LEMMA ExpiredOK ==
    ASSUME NEW bs, NEW qs, NEW inc, NEW fl, Placed(bs, qs, inc, fl), NEW F \in SUBSET fl, aged \in Nat
    PROVE  /\ Placed(settled(bs, Expired(qs, F), "FAILED"), Trimmed(qs), inc \ Expired(qs, F), fl \ Expired(qs, F))
           /\ Expired(qs, F) \subseteq inc /\ InQueues(Trimmed(qs)) \subseteq InQueues(qs)
<1> DEFINE expired == Late(qs) \cup F
           first(p) == {qs[p][k] : k \in 1 .. late(qs[p])}
           rs == Trimmed(qs)
<1>1. bs \in Seq(BatchRecord) /\ DOMAIN bs \subseteq Nat
  BY DEF Placed
<1>2. \A p \in Partition : /\ qs[p] \in Seq(DOMAIN bs) /\ qs[p] \in Seq(Nat) /\ Distinct(qs[p])
                           /\ \A i \in Elements(qs[p]) : bs[i].tp = p
  BY <1>1 DEF Placed
<1>3. \A p \in Partition : late(qs[p]) \in 0 .. Len(qs[p])
  BY <1>2, LateOK
<1>4. \A p \in Partition : /\ rs[p] \in Seq(DOMAIN bs) /\ Distinct(rs[p])
                           /\ Elements(rs[p]) = Elements(qs[p]) \ first(p)
  <2> SUFFICES ASSUME NEW p \in Partition
               PROVE  rs[p] \in Seq(DOMAIN bs) /\ Distinct(rs[p]) /\ Elements(rs[p]) = Elements(qs[p]) \ first(p)
    OBVIOUS
  <2> DEFINE q == qs[p]
             n == late(q)
  <2>1. q \in Seq(DOMAIN bs) /\ Distinct(q) /\ n \in 0 .. Len(q)
    BY <1>2, <1>3
  <2>2. rs[p] = SubSeq(q, n + 1, Len(q))
    BY DEF Trimmed
  <2> HIDE DEF q, n
  <2>3. /\ SubSeq(q, n + 1, Len(q)) \in Seq(DOMAIN bs) /\ Distinct(SubSeq(q, n + 1, Len(q)))
        /\ Elements(SubSeq(q, n + 1, Len(q))) = Elements(q) \ {q[k] : k \in 1 .. n}
    BY <2>1, Behind
  <2>4. QED
    BY <2>2, <2>3 DEF q, n
<1>5. \A p \in Partition : first(p) \subseteq Elements(qs[p])
  <2> SUFFICES ASSUME NEW p \in Partition, NEW k \in 1 .. late(qs[p]) PROVE qs[p][k] \in Elements(qs[p])
    OBVIOUS
  <2>1. k \in 1 .. Len(qs[p])
    BY <1>2, <1>3
  <2>2. QED
    BY <1>2, <2>1 DEF Elements
<1>6. \A p \in Partition : Elements(qs[p]) \cap expired = first(p)
  <2> SUFFICES ASSUME NEW p \in Partition PROVE Elements(qs[p]) \cap expired = first(p)
    OBVIOUS
  <2>1. first(p) \subseteq expired
    BY DEF Late
  <2>2. ASSUME NEW i \in Elements(qs[p]), i \in F PROVE FALSE
    BY <2>2 DEF Placed, InQueues
  <2>3. ASSUME NEW i \in Elements(qs[p]), i \in Late(qs) PROVE i \in first(p)
    <3>1. PICK r \in Partition : i \in first(r)
      BY <2>3 DEF Late
    <3>2. r = p
      BY <1>2, <1>5, <3>1
    <3>3. QED
      BY <3>1, <3>2
  <2>4. QED
    BY <1>5, <2>1, <2>2, <2>3
<1>7. rs \in [Partition -> Seq(DOMAIN bs)]
  BY <1>4 DEF Trimmed
<1>8. Late(qs) \subseteq InQueues(qs)
  BY <1>5 DEF Late, InQueues
<1>9. expired \subseteq inc
  BY <1>8 DEF Placed
<1>10. InQueues(rs) \subseteq InQueues(qs)
  BY <1>4 DEF InQueues
<1>11. \A p \in Partition : Distinct(rs[p]) /\ Elements(rs[p]) = Elements(qs[p]) \ expired
  BY <1>4, <1>6
<1> HIDE DEF expired, rs
<1>12. Placed(settled(bs, expired, "FAILED"), rs, inc \ expired, fl \ expired)
  BY <1>7, <1>11, PlacedSettled
<1>13. QED
  BY <1>9, <1>10, <1>12 DEF expired, rs, Expired

LEMMA RequestsOK ==
    ASSUME NEW w \in [Node -> Seq(SUBSET DOMAIN batch)], w = wire, NEW Q, NEW R, NEW s, DOMAIN s = {}, Once(w, s, Q), R \subseteq Q,
           NEW drained, drained \subseteq Q \ R, drained \subseteq DOMAIN batch
    PROVE  requests(drained) \in [Node -> Seq(SUBSET DOMAIN batch)] /\ Once(requests(drained), s, R)
<1> DEFINE e == [n \in Node |-> produce_request(n, drained)]
           v == requests(drained)
<1>1. \A n \in Node : e[n] \subseteq drained
  BY DEF produce_request
<1>2. \A n, o \in Node : n # o => e[n] \cap e[o] = {}
  BY DEF produce_request
<1>3. \A n \in Node : v[n] = w[n] \/ v[n] = Append(w[n], e[n])
  BY DEF requests
<1>4. \A n \in Node : e[n] \in SUBSET DOMAIN batch /\ e[n] \subseteq Q \ R
  BY <1>1
<1>5. \A n \in Node : v[n] \in Seq(SUBSET DOMAIN batch)
  <2> SUFFICES ASSUME NEW n \in Node PROVE v[n] \in Seq(SUBSET DOMAIN batch)
    OBVIOUS
  <2>1. w[n] \in Seq(SUBSET DOMAIN batch) /\ e[n] \in SUBSET DOMAIN batch
    BY <1>4
  <2> HIDE DEF e
  <2>2. Append(w[n], e[n]) \in Seq(SUBSET DOMAIN batch)
    BY <2>1
  <2>3. QED
    BY <1>3, <2>1, <2>2
<1>6. v \in [Node -> Seq(SUBSET DOMAIN batch)]
  <2>1. v = [n \in Node |-> v[n]]
    BY DEF requests
  <2> HIDE DEF v
  <2>2. QED
    BY <1>5, <2>1
<1>7. \A n \in Node : v[n] = w[n] \/ (e[n] \in SUBSET DOMAIN batch /\ v[n] = Append(w[n], e[n]) /\ e[n] \subseteq Q \ R)
  BY <1>3, <1>4
<1> DEFINE S == SUBSET DOMAIN batch
<1> HIDE DEF v, e
<1>8. Once(v, s, R)
  <2>1. w \in [Node -> Seq(S)] /\ v \in [Node -> Seq(S)]
    BY <1>6
  <2>2. Adds(w, v, e, S, Q \ R)
    BY <1>2, <1>7 DEF Adds
  <2> HIDE DEF S
  <2>3. QED
    BY <2>1, <2>2, OnceSent
<1>9. QED
  BY <1>6, <1>8 DEF v

LEMMA SendsStep == ASSUME IInv, sends_data PROVE IInv'
<1>1. /\ Placed(batch, queues, incomplete, in_flight_batches) /\ batch \in Seq(BatchRecord)
      /\ Traffic(DOMAIN batch, wire, stray, answers, log) /\ wire \in [Node -> Seq(SUBSET DOMAIN batch)]
      /\ Once(wire, answers, InQueues(queues)) /\ aged \in 0 .. Len(batch) /\ aged \in Nat /\ muted \subseteq Partition
      /\ InQueues(queues) \subseteq DOMAIN batch /\ sender \in Thread /\ ManagerInv(tm, sender.request, app, incomplete)
  BY DEF IInv, Placed, Traffic
<1>2. /\ sender.pc = "run" /\ answers = <<>> /\ nothing_to_ask /\ ~failed(after_asking)
      /\ flushes' \in {flushes, 1} /\ UNCHANGED <<answers, client, brokers, aged, mode, faults>>
  BY DEF sends_data, runs, flushes_after
<1>3. sender.request = NoRequest
  BY <1>1, <1>2 DEF Thread
<1> DEFINE m == after_asking
<1>4. ManagerInv(m, NoRequest, app, incomplete)
  BY <1>1, <1>2, <1>3, AfterAskingOK
<1>5. PICK D \in SUBSET {p \in Partition : drainable(p)} : _send_producer_data(D, m)
  BY DEF sends_data
<1> DEFINE drained == Firsts(queues, D)
           rest    == Rests(queues, D)
           flying  == in_flight_batches \cup drained
           F       == expired_in_flight(flying)
           expired == Expired(rest, F)
           sent    == [i \in DOMAIN batch |-> IF i \in drained THEN stamped(batch[i]) ELSE batch[i]]
           raises  == expired # {} /\ fail_raises(m, "timeout")
           after   == transition_to_abortable_error(m)
<1>6. /\ queues' = Trimmed(rest) /\ in_flight_batches' = flying \ expired
      /\ muted' \in {muted, muted \cup D}
      /\ batch' = IF raises THEN sent ELSE settled(sent, expired, "FAILED")
      /\ incomplete' = IF raises THEN incomplete ELSE incomplete \ expired
      /\ tm' \in {m, after, reset_producer_id(m), reset_producer_id(after)}
      /\ wire' \in {wire, requests(drained)}
      /\ goes("run") \/ goes("poll")
  <2> HIDE DEF m
  <2>1. queues' = Trimmed(rest)
    BY <1>5 DEF _send_producer_data, Rests, Trimmed
  <2>2. in_flight_batches' = flying \ expired
    BY <1>5 DEF _send_producer_data, Firsts, Rests, Late, Expired
  <2>3. muted' \in {muted, muted \cup D}
    <3>1. mute(D)
      BY <1>5 DEF _send_producer_data
    <3>2. QED
      BY <3>1 DEF mute
  <2>4. batch' = IF raises THEN sent ELSE settled(sent, expired, "FAILED")
    BY <1>5 DEF _send_producer_data, Firsts, Rests, Late, Expired
  <2>5. incomplete' = IF raises THEN incomplete ELSE incomplete \ expired
    BY <1>5 DEF _send_producer_data, Firsts, Rests, Late, Expired
  <2>6. tm' \in {m, after, reset_producer_id(m), reset_producer_id(after)}
    BY <1>5 DEF _send_producer_data
  <2>7. wire' \in {wire, requests(drained)}
    BY <1>5 DEF _send_producer_data, Firsts
  <2>8. goes("run") \/ goes("poll")
    BY <1>5 DEF _send_producer_data
  <2>9. QED
    BY <2>1, <2>2, <2>3, <2>4, <2>5, <2>6, <2>7, <2>8
<1> HIDE DEF m, drained, rest, F, sent, after
<1>7. /\ Placed(batch, rest, incomplete, flying)
      /\ InQueues(rest) = InQueues(queues) \ drained /\ drained \subseteq InQueues(queues)
  <2>1. D \in SUBSET Partition /\ \A p \in D : queues[p] # <<>>
    BY DEF drainable
  <2>2. QED
    BY <1>1, <2>1, PlacedDrained DEF drained, rest
<1>8. /\ sent \in Seq(BatchRecord) /\ DOMAIN sent = DOMAIN batch /\ Len(sent) = Len(batch)
      /\ \A i \in DOMAIN batch : sent[i].tp = batch[i].tp /\ sent[i].final = batch[i].final
  BY <1>1, StampedOK DEF sent, ManagerInv
<1>9. Placed(sent, rest, incomplete, flying)
  BY <1>7, <1>8, PlacedSame
<1>10. F \in SUBSET flying
  BY DEF F, expired_in_flight
<1> HIDE DEF flying
<1>11. /\ Placed(settled(sent, expired, "FAILED"), Trimmed(rest), incomplete \ expired, flying \ expired)
       /\ expired \subseteq incomplete /\ InQueues(Trimmed(rest)) \subseteq InQueues(rest)
  <2>1. Placed(settled(sent, expired, "FAILED"), Trimmed(rest), incomplete \ expired, flying \ expired)
    BY <1>1, <1>9, <1>10, ExpiredOK
  <2>2. expired \subseteq incomplete
    BY <1>1, <1>9, <1>10, ExpiredOK
  <2>3. InQueues(Trimmed(rest)) \subseteq InQueues(rest)
    BY <1>1, <1>9, <1>10, ExpiredOK
  <2>4. QED
    BY <2>1, <2>2, <2>3
<1>12. ~raises
  BY <1>2, <1>4, <1>11, NotRaised DEF m
<1> HIDE DEF raises, expired
<1>13. Placed(batch', queues', incomplete', in_flight_batches')
  BY <1>6, <1>11, <1>12
<1>14. DOMAIN batch' = DOMAIN batch /\ Len(batch') = Len(batch)
  <2>1. batch' = settled(sent, expired, "FAILED")
    BY <1>6, <1>12
  <2>2. batch' \in Seq(BatchRecord) /\ DOMAIN batch' = DOMAIN sent
    BY <1>8, <2>1, SettledOK
  <2>3. QED
    BY <1>8, <2>2
<1>15. InQueues(queues') \subseteq InQueues(queues) /\ drained \subseteq InQueues(queues) \ InQueues(queues')
  BY <1>6, <1>7, <1>11
<1>16. wire' \in [Node -> Seq(SUBSET DOMAIN batch)] /\ Once(wire', answers', InQueues(queues'))
  <2>0. DOMAIN answers = {}
    BY <1>2
  <2>1. Once(wire, answers, InQueues(queues)) /\ Once(wire, answers, InQueues(queues'))
    BY <1>1, <1>15, OnceFewer
  <2>2. drained \subseteq DOMAIN batch
    BY <1>1, <1>15
  <2>3. requests(drained) \in [Node -> Seq(SUBSET DOMAIN batch)] /\ Once(requests(drained), answers, InQueues(queues'))
    BY <1>1, <1>15, <2>0, <2>1, <2>2, RequestsOK
  <2>4. QED
    BY <1>1, <1>2, <1>6, <2>1, <2>3
<1>17. Traffic(DOMAIN batch', wire', stray', answers', log')
  BY <1>1, <1>2, <1>14, <1>16 DEF Traffic, brokers
<1>18. sender' \in Thread /\ sender'.request = NoRequest
  BY <1>1, <1>2, <1>6, Going DEF Places
<1>19. ManagerInv(tm', sender'.request, app', incomplete')
  <2>1. ManagerInv(after, NoRequest, app, incomplete)
    BY <1>4, InPlace DEF after
  <2>2. ManagerInv(reset_producer_id(m), NoRequest, app, incomplete)
    BY <1>4, InPlace
  <2>3. ManagerInv(reset_producer_id(after), NoRequest, app, incomplete)
    BY <2>1, InPlace
  <2>4. ManagerInv(tm', NoRequest, app, incomplete)
    BY <1>4, <1>6, <2>1, <2>2, <2>3
  <2>5. ManagerInv(tm', NoRequest, app, incomplete \ expired)
    BY <2>4, FewerOK
  <2>6. QED
    BY <1>2, <1>6, <1>12, <1>18, <2>5 DEF client
<1>20. Calls(app', flushes') /\ muted' \subseteq Partition
  BY <1>1, <1>2, <1>6 DEF IInv, Calls, client
<1>21. QED
  BY <1>1, <1>2, <1>13, <1>14, <1>16, <1>17, <1>18, <1>19, <1>20, Afterwards DEF IInv, brokers, client

LEMMA SenderStep == ASSUME IInv, Sender PROVE IInv'
BY WaitsStep, AbortingStep, AsksStep, RequestStep, PollsStep, SendsStep, CompletesStep DEF Sender

(* The brokers. *)

LEMMA BrokersStep ==
    ASSUME IInv, UNCHANGED <<accumulator, sender, client, aged, mode>>, faults' \in 0 .. MaxFaults,
           coord'.pid \in Nat, DOMAIN coord' = {"pid", "parts", "fenced"},
           ManagerInv(tm', sender.request, app, incomplete), log' \in Logs, stray' \subseteq DOMAIN batch,
           wire' \in [Node -> Seq(SUBSET DOMAIN batch)], answers' \in Seq(Answer(DOMAIN batch)),
           Once(wire', answers', InQueues(queues))
    PROVE  IInv'
<1>1. Traffic(DOMAIN batch', wire', stray', answers', log')
  BY DEF Traffic, Logs, accumulator
<1>2. QED
  BY <1>1, Afterwards DEF IInv, accumulator, client

LEMMA ErrorOfOK == ASSUME NEW i PROVE ErrorOf(i) \in {"none", "fatal", "out_of_order"}
<1>1. Verdict(log[batch[i].tp], i) \in {"fatal", "duplicate", "out_of_order", "append"}
  BY DEF Verdict
<1>2. QED
  BY <1>1 DEF ErrorOf

\* Every batch of ids is answered once.
Answered(s, ids) ==
    s \in [1 .. Cardinality(ids) -> Answer(ids)] /\ \A j, k \in DOMAIN s : s[j].b = s[k].b => j = k
Orders(ids) == {f \in [1 .. Cardinality(ids) -> ids] : \A j, k \in DOMAIN f : j # k => f[j] # f[k]}
LEMMA InOrders ==
    ASSUME NEW ids, NEW f \in [1 .. Cardinality(ids) -> ids], \A j, k \in DOMAIN f : j < k => f[j] # f[k]
    PROVE  f \in Orders(ids)
<1>1. \A j, k \in DOMAIN f : j \in Int /\ k \in Int
  OBVIOUS
<1>2. \A j, k \in DOMAIN f : j # k => j < k \/ k < j
  BY <1>1
<1>3. \A j, k \in DOMAIN f : j # k => f[j] # f[k]
  BY <1>2
<1>4. QED
  BY <1>3 DEF Orders

LEMMA AnsweredOK ==
    ASSUME NEW ids, NEW f \in Orders(ids),
           NEW s \in [1 .. Cardinality(ids) -> Answer(ids)], \A k \in DOMAIN f : s[k].b = f[k]
    PROVE  Answered(s, ids)
BY DEF Answered, Orders

LEMMA AnswersStep ==
    ASSUME IInv, UNCHANGED <<accumulator, sender, tm, client, coord, aged, mode>>, polling, at_fault \/ no_fault,
           NEW n \in Node, wire[n] # <<>>, NEW ids, Answered(answers', ids),
           \/ ids = Head(wire[n]) /\ wire' = [wire EXCEPT ![n] = Tail(@)]
           \/ ids = UNION {wire[n][k] : k \in DOMAIN wire[n]} /\ wire' = [wire EXCEPT ![n] = <<>>],
           log' \in Logs, stray' \subseteq stray \cup ids
    PROVE  IInv'
<1> DEFINE S == SUBSET DOMAIN batch
           q == wire[n]
           s == answers'
<1>1. /\ wire \in [Node -> Seq(S)] /\ stray \subseteq DOMAIN batch /\ Once(wire, answers, InQueues(queues))
      /\ answers = <<>> /\ batch \in Seq(BatchRecord)
  BY DEF IInv, Traffic, Placed, polling
<1>2. q \in Seq(S) /\ q # <<>> /\ Len(q) \in Nat \ {0} /\ DOMAIN q = 1 .. Len(q) /\ 1 \in DOMAIN q
  BY <1>1
<1>3. \A l \in DOMAIN q : q[l] \subseteq DOMAIN batch
  BY <1>2
<1>4. ids \subseteq DOMAIN batch /\ \A i \in ids : \E l \in DOMAIN q : i \in q[l] /\ (l = 1 \/ wire' = [wire EXCEPT ![n] = <<>>])
  BY <1>2, <1>3
<1>5. s \in [1 .. Cardinality(ids) -> Answer(ids)] /\ \A j, k \in DOMAIN s : s[j].b = s[k].b => j = k
  BY DEF Answered
<1>6. s \in Seq(Answer(DOMAIN batch)) /\ DOMAIN s = 1 .. Cardinality(ids)
  <2>1. s \in [1 .. Cardinality(ids) -> Answer(DOMAIN batch)]
    BY <1>4, <1>5 DEF Answer
  <2>2. DOMAIN batch = 1 .. Len(batch) /\ Len(batch) \in Nat
    BY <1>1
  <2> HIDE DEF s
  <2>3. QED
    BY <1>4, <2>1, <2>2, InOrder
<1>7. \A k \in DOMAIN s : s[k].b \in ids
  BY <1>5 DEF Answer
<1> DEFINE v == wire'
<1>8. v \in [Node -> Seq(S)] /\ \A o \in Node \ {n} : v[o] = wire[o]
  <2>1. Tail(q) \in Seq(S) /\ <<>> \in Seq(S)
    BY <1>2
  <2> HIDE DEF S
  <2>2. QED
    BY <1>1, <2>1
<1>9. \A j \in DOMAIN v[n] : j \in Nat \ {0} /\ j + 1 \in DOMAIN q /\ v[n][j] = q[j + 1]
  <2>1. v[n] = Tail(q) \/ v[n] = <<>>
    BY <1>1
  <2>2. DOMAIN Tail(q) = 1 .. Len(q) - 1 /\ \A j \in 1 .. Len(q) - 1 : Tail(q)[j] = q[j + 1]
    BY <1>2
  <2> HIDE DEF v, q
  <2>3. CASE v[n] = Tail(q)
    BY <1>2, <2>2, <2>3
  <2>4. CASE v[n] = <<>>
    BY <2>4
  <2>5. QED
    BY <2>1, <2>3, <2>4
<1>10. \A k \in DOMAIN s : \E l \in DOMAIN q : s[k].b \in q[l] /\ (l = 1 \/ DOMAIN v[n] = {})
  <2>1. wire' = [wire EXCEPT ![n] = <<>>] => DOMAIN v[n] = {}
    BY <1>1
  <2>2. QED
    BY <1>4, <1>7, <2>1
<1> DEFINE Q == InQueues(queues)
<1>11. Once(wire, <<>>, Q)
  BY <1>1
<1> HIDE DEF v, s, S, Q
<1>12. Once(v, s, Q)
  BY <1>5, <1>8, <1>9, <1>10, <1>11, OnceAnswered DEF q
<1>13. faults' \in 0 .. MaxFaults
  BY ProducerAssumption DEF IInv, at_fault, no_fault
<1>14. ManagerInv(tm', sender.request, app, incomplete)
  BY DEF IInv
<1>15. QED
  BY <1>1, <1>4, <1>6, <1>8, <1>12, <1>13, <1>14, BrokersStep DEF IInv, v, s, S, Q

LEMMA AnswerOrLossStep == ASSUME IInv, NEW n \in Node, BrokerAnswers(n) \/ ConnectionLost(n) PROVE IInv'
<1> DEFINE q == wire[n]
<1>1. q \in Seq(SUBSET DOMAIN batch) /\ q # <<>> /\ log \in Logs
  BY DEF IInv, Traffic, Logs, BrokerAnswers, ConnectionLost
<1>2. q[1] \subseteq DOMAIN batch /\ Head(q) = q[1] /\ \A k \in DOMAIN q : q[k] \subseteq DOMAIN batch
  BY <1>1
<1>3. \A B : B \subseteq DOMAIN batch => WithBatches(B) \in Logs
  BY <1>1, WithBatchesOK
<1>4. UNCHANGED <<accumulator, sender, tm, client, coord, aged, mode>> /\ polling
  BY DEF BrokerAnswers, ConnectionLost
<1>5. CASE BrokerAnswers(n)
  <2> DEFINE ids == Head(q)
  <2>1. ids \subseteq DOMAIN batch
    BY <1>2
  <2>2. wire' = [wire EXCEPT ![n] = Tail(@)] /\ stray' = stray
    BY <1>5 DEF BrokerAnswers
  <2>3. \/ answers' \in InSomeOrder(ids, ErrorOf, Only) /\ log' = WithBatches(ids) /\ no_fault
        \/ \E i \in ids, e \in {"not_leader", "unauthorized"} :
              /\ answers' \in InSomeOrder(ids, LAMBDA j : IF j = i THEN e ELSE ErrorOf(j), Only)
              /\ log' = WithBatches(ids \ {i}) /\ at_fault
    BY <1>5 DEF BrokerAnswers
  <2> DEFINE s == answers'
  <2>4. Answered(s, ids)
    <3> HIDE DEF ids
    <3>0. \A f \in Orders(ids) : f \in [1 .. Cardinality(ids) -> ids]
      BY DEF Orders
    <3>1. CASE s \in InSomeOrder(ids, ErrorOf, Only)
      <4>1. PICK f \in Orders(ids) :
                s = [k \in DOMAIN f |-> [b |-> f[k], error |-> ErrorOf(f[k]), request |-> 1]]
        BY <3>1, InOrders DEF InSomeOrder, Only
      <4> HIDE DEF s
      <4>2. s \in [1 .. Cardinality(ids) -> Answer(ids)] /\ \A k \in DOMAIN f : s[k].b = f[k]
        BY <3>0, <4>1, ErrorOfOK DEF Answer
      <4>3. QED
        BY <4>2, AnsweredOK
    <3>2. CASE \E i \in ids, e \in {"not_leader", "unauthorized"} :
                  s \in InSomeOrder(ids, LAMBDA j : IF j = i THEN e ELSE ErrorOf(j), Only)
      <4>1. PICK i \in ids, e \in {"not_leader", "unauthorized"} :
                s \in InSomeOrder(ids, LAMBDA j : IF j = i THEN e ELSE ErrorOf(j), Only)
        BY <3>2
      <4>2. PICK f \in Orders(ids) :
                s = [k \in DOMAIN f |->
                       [b |-> f[k], error |-> IF f[k] = i THEN e ELSE ErrorOf(f[k]), request |-> 1]]
        BY <4>1, InOrders DEF InSomeOrder, Only
      <4> HIDE DEF s
      <4>3. s \in [1 .. Cardinality(ids) -> Answer(ids)] /\ \A k \in DOMAIN f : s[k].b = f[k]
        BY <3>0, <4>2, ErrorOfOK DEF Answer
      <4>4. QED
        BY <4>3, AnsweredOK
    <3>3. QED
      BY <2>3, <3>1, <3>2
  <2>5. at_fault \/ no_fault
    BY <2>3
  <2>6. log' \in Logs
    BY <1>3, <2>1, <2>3
  <2>7. QED
    BY <1>1, <1>4, <2>2, <2>4, <2>5, <2>6, AnswersStep
<1>6. CASE ConnectionLost(n)
  <2> DEFINE ids == UNION {q[k] : k \in DOMAIN q}
  <2>1. ids \subseteq DOMAIN batch
    BY <1>2
  <2>2. wire' = [wire EXCEPT ![n] = <<>>] /\ at_fault /\ stray' \subseteq stray \cup ids
    BY <1>6 DEF ConnectionLost
  <2>3. answers' \in InSomeOrder(ids, LAMBDA i : "disconnected", LAMBDA i : CHOOSE k \in DOMAIN q : i \in q[k])
    BY <1>6 DEF ConnectionLost
  <2> DEFINE s == answers'
  <2>4. Answered(s, ids)
    <3> HIDE DEF ids
    <3> DEFINE R(i) == CHOOSE k \in DOMAIN q : i \in q[k]
    <3>0. \A i \in ids : R(i) \in Nat
      <4>1. \A i \in ids : R(i) \in DOMAIN q
        BY DEF ids
      <4>2. DOMAIN q \subseteq Nat
        BY <1>1
      <4>3. QED
        BY <4>1, <4>2
    <3>1. PICK f \in Orders(ids) : s = [k \in DOMAIN f |-> [b |-> f[k], error |-> "disconnected", request |-> R(f[k])]]
      <4>1. s \in {[k \in DOMAIN f |-> [b |-> f[k], error |-> "disconnected", request |-> R(f[k])]] :
                     f \in {g \in [1 .. Cardinality(ids) -> ids] :
                              \A j, k \in DOMAIN g : j < k => g[j] # g[k] /\ R(g[j]) <= R(g[k])}}
        BY <2>3 DEF InSomeOrder
      <4> HIDE DEF s, R
      <4>2. QED
        BY <4>1, InOrders
    <3>2. f \in [1 .. Cardinality(ids) -> ids]
      BY DEF Orders
    <3> HIDE DEF s, R
    <3>3. s \in [1 .. Cardinality(ids) -> Answer(ids)] /\ \A k \in DOMAIN f : s[k].b = f[k]
      BY <3>0, <3>1, <3>2 DEF Answer
    <3>4. QED
      BY <3>3, AnsweredOK
  <2>5. log' \in Logs
    BY <1>1, <1>2, <1>3, <1>6 DEF ConnectionLost
  <2>6. QED
    BY <1>1, <1>4, <2>2, <2>4, <2>5, AnswersStep
<1>7. QED
  BY <1>5, <1>6

LEMMA EffectOK ==
    ASSUME IInv, NEW r, Effect(r) \/ UNCHANGED <<log, coord>>
    PROVE  log' \in Logs /\ coord'.pid \in Nat /\ DOMAIN coord' = {"pid", "parts", "fenced"}
<1>1. log \in Logs /\ coord.pid \in Nat /\ DOMAIN coord = {"pid", "parts", "fenced"}
  BY DEF IInv, Traffic, Logs
<1>2. Ended(coord.parts, "aborted") \in Logs /\ Ended(coord.parts, "committed") \in Logs
  BY <1>1, EndedOK
<1>3. log' \in {log, Ended(coord.parts, "aborted"), Ended(coord.parts, "committed")}
  BY DEF Effect
<1>4. coord' \in {coord, [coord EXCEPT !.pid = @ + 1, !.parts = {}], [coord EXCEPT !.parts = @ \cup r.parts],
                  [coord EXCEPT !.parts = {}]}
  BY DEF Effect
<1>5. log' \in Logs
  BY <1>1, <1>2, <1>3
<1>6. \A parts : LET d == [coord EXCEPT !.pid = @ + 1, !.parts = parts]
                     e == [coord EXCEPT !.parts = parts]
                 IN  d.pid \in Nat /\ e.pid \in Nat /\ DOMAIN d = DOMAIN coord /\ DOMAIN e = DOMAIN coord
  BY <1>1
<1>7. QED
  BY <1>1, <1>4, <1>5, <1>6

LEMMA CoordinatorStep == ASSUME IInv, StrayWritten \/ CoordinatorAnswers \/ OtherProducer PROVE IInv'
<1>1. /\ log \in Logs /\ coord.pid \in Nat /\ DOMAIN coord = {"pid", "parts", "fenced"} /\ faults \in 0 .. MaxFaults
      /\ stray \subseteq DOMAIN batch /\ wire \in [Node -> Seq(SUBSET DOMAIN batch)]
      /\ answers \in Seq(Answer(DOMAIN batch)) /\ Once(wire, answers, InQueues(queues))
      /\ ManagerInv(tm, sender.request, app, incomplete)
  BY DEF IInv, Traffic, Logs
<1>2. CASE StrayWritten
  <2>1. log' \in Logs /\ stray' \subseteq DOMAIN batch
    BY <1>1, <1>2, WithBatchesOK DEF StrayWritten
  <2>2. QED
    BY <1>1, <1>2, <2>1, BrokersStep DEF StrayWritten
<1>3. CASE CoordinatorAnswers
  <2> DEFINE r == tm.in_flight
  <2>1. r # NoRequest /\ UNCHANGED <<accumulator, sender, answers, client, wire, stray, aged, mode>>
    BY <1>3 DEF CoordinatorAnswers
  <2>2. sender.request = NoRequest
    BY <1>1, <2>1 DEF ManagerInv
  <2>3. \/ tm' = on_complete(tm, "answered", "none", coord.pid + 1)
        \/ tm' = on_complete(tm, "answered", "fatal", 0)
        \/ \E e \in Errors \ {"none"} : tm' = on_complete(tm, "answered", e, 0)
        \/ tm' = on_complete(tm, "failed", "none", 0)
        \/ tm' = on_complete(tm, "lost", "none", 0)
    BY <1>3 DEF CoordinatorAnswers
  <2>4. Effect(r) \/ UNCHANGED <<log, coord>>
    BY <1>3 DEF CoordinatorAnswers
  <2>5. faults' \in 0 .. MaxFaults
    BY <1>1, <1>3, ProducerAssumption DEF CoordinatorAnswers, at_fault, no_fault
  <2>6. ManagerInv(tm', sender.request, app, incomplete)
    <3>1. coord.pid + 1 \in Nat /\ 0 \in Nat /\ "none" \in Errors /\ "fatal" \in Errors
      BY <1>1 DEF Errors
    <3>2. \A error \in Errors, pid \in Nat : \A how :
            ManagerInv(on_complete(tm, how, error, pid), sender.request, app, incomplete)
      BY <1>1, <2>1, <2>2, OnCompleteOK
    <3>3. QED
      BY <2>3, <3>1, <3>2
  <2> HIDE DEF r
  <2>7. log' \in Logs /\ coord'.pid \in Nat /\ DOMAIN coord' = {"pid", "parts", "fenced"}
    BY <2>4, EffectOK
  <2>8. QED
    BY <1>1, <2>1, <2>5, <2>6, <2>7, BrokersStep
<1>4. CASE OtherProducer
  <2>1. log' \in Logs
    BY <1>1, <1>4, EndedOK DEF OtherProducer
  <2>2. coord'.pid \in Nat /\ DOMAIN coord' = {"pid", "parts", "fenced"}
    BY <1>1, <1>4 DEF OtherProducer
  <2>3. faults' \in 0 .. MaxFaults
    BY <1>1, <1>4, ProducerAssumption DEF OtherProducer, at_fault
  <2>4. QED
    BY <1>1, <1>4, <2>1, <2>2, <2>3, BrokersStep DEF OtherProducer
<1>5. QED
  BY <1>2, <1>3, <1>4

LEMMA TimeStep == ASSUME IInv, TimePasses PROVE IInv'
<1>1. aged' \in 0 .. Len(batch') /\ batch' = batch
  <2>1. aged \in 0 .. Len(batch) /\ Len(batch) \in Nat /\ aged < Len(batch) /\ aged' = aged + 1
    BY DEF IInv, Placed, TimePasses
  <2>2. QED
    BY <2>1 DEF TimePasses, accumulator
<1>2. QED
  BY <1>1, Afterwards DEF IInv, TimePasses, accumulator, client, brokers

-----------------------------------------------------------------------------
(* The theorem.                                                               *)

LEMMA Initially == ASSUME Init PROVE IInv
<1>1. Placed(batch, queues, incomplete, in_flight_batches)
  BY DEF Init, Placed, InQueues, Elements, Distinct
<1>2. Traffic(DOMAIN batch, wire, stray, answers, log)
  BY DEF Init, Traffic
<1>3. Once(wire, answers, InQueues(queues))
  BY DEF Init, Once
<1>4. Calls(app, flushes)
  BY DEF Init, Calls
<1>5. sender \in Thread /\ sender.request = NoRequest
  BY DEF Init, Thread, NoRequest, Good, Request
<1>6. tm \in GoodManager
  BY DEF Init, TransactionManager, GoodManager, States, Results, Coordinators
<1>7. ManagerInv(tm, sender.request, app, incomplete)
  <2>1. tm.requests = <<>> /\ tm.in_flight = NoRequest /\ incomplete = {} /\ app.at = "ready"
    BY DEF Init, TransactionManager
  <2>2. NoRequest.kind = "none"
    BY DEF NoRequest
  <2>3. QED
    BY <1>5, <1>6, <2>1, <2>2 DEF ManagerInv, Anywhere, In, OneEnd, NoEnds, Ends
<1>8. faults \in 0 .. MaxFaults /\ aged \in 0 .. Len(batch) /\ muted \subseteq Partition /\ txn \in Seq(Fates)
      /\ coord.pid \in Nat /\ DOMAIN coord = {"pid", "parts", "fenced"} /\ mode \in Modes
  BY ProducerAssumption DEF Init
<1>9. QED
  BY <1>1, <1>2, <1>3, <1>4, <1>5, <1>7, <1>8 DEF IInv

LEMMA Stutters == ASSUME IInv, UNCHANGED vars PROVE IInv'
BY Afterwards DEF IInv, vars, accumulator, client, brokers

LEMMA Invariantly == Spec => []IInv
<1>1. IInv /\ [Next]_vars => IInv'
  <2> SUFFICES ASSUME IInv, [Next]_vars PROVE IInv'
    OBVIOUS
  <2>1. CASE UNCHANGED vars
    BY <2>1, Stutters
  <2>2. CASE Next
    BY <2>2, ApplicationStep, SenderStep, AnswerOrLossStep, CoordinatorStep, TimeStep DEF Next, Broker
  <2>3. QED
    BY <2>1, <2>2
<1>2. QED
  BY <1>1, Initially, PTL DEF Spec

LEMMA Tracked == ASSUME IInv PROVE BatchesTracked
<1>1. NothingForgotten
  <2>1. Queued = InQueues(queues) /\ Placed(batch, queues, incomplete, in_flight_batches)
    BY DEF IInv, Queued, InQueues, Elements
  <2>2. QED
    BY <2>1 DEF NothingForgotten, Unfinished, Placed, Distinct
<1>2. TypeOK
  <2>1. /\ mode \in Modes /\ faults \in 0 .. MaxFaults /\ aged \in 0 .. Len(batch) /\ flushes \in Nat
        /\ muted \subseteq Partition
    BY DEF IInv, Calls
  <2>2. /\ batch \in Seq(BatchRecord) /\ queues \in [Partition -> Seq(Id)]
        /\ incomplete \subseteq Id /\ in_flight_batches \subseteq Id
    BY DEF IInv, Placed, Id
  <2>3. /\ wire \in [Node -> Seq(SUBSET Id)] /\ stray \subseteq Id
        /\ answers \in Seq(Answer(Id)) /\ log \in [Partition -> Seq(Entry(Id))]
    BY DEF IInv, Traffic, Id
  <2>4. /\ tm.state \in States /\ tm.seq \in [Partition -> Nat]
        /\ tm.new \cup tm.pending \cup tm.added \subseteq Partition
    BY DEF IInv, ManagerInv, GoodManager
  <2>5. /\ sender.pc \in {"run", "acquire", "await", "poll", "closed", "dead"}
        /\ app.at \in {"ready", "append", "flush", "close", "join", "wait", "closed"}
    BY DEF IInv, Thread, Calls
  <2>6. QED
    BY <2>1, <2>2, <2>3, <2>4, <2>5 DEF TypeOK, BatchRecord, Answer, Entry
<1>3. QED
  BY <1>1, <1>2 DEF BatchesTracked

\* Sender, RecordAccumulator: at every moment, whatever is retried, expires, is aborted or
\* lost, a batch without a result is in one queue, once, or in flight, and counted as
\* incomplete, so that a flush waits for it; one with a result is in none of these.  It
\* is so of any number of partitions, nodes, batches and faults, in every allowed mode.
THEOREM BatchesAlwaysTracked == Spec => []BatchesTracked
<1>1. IInv => BatchesTracked
  BY Tracked
<1>2. QED
  BY <1>1, Invariantly, PTL

(* What the manager's operators do to its numbers. *)

HasNumbers(m) == {"pid", "seq"} \subseteq DOMAIN m
Like(m, n) == DOMAIN n = DOMAIN m /\ n.pid = m.pid /\ n.seq = m.seq

LEMMA LikeOther ==
    ASSUME NEW m, HasNumbers(m), NEW f, f \notin {"pid", "seq"}, NEW e
    PROVE  Like(m, [m EXCEPT ![f] = e])
BY DEF HasNumbers, Like

LEMMA LikeLike == ASSUME NEW m, NEW n, NEW o, HasNumbers(m), Like(m, n) PROVE HasNumbers(n) /\ (Like(n, o) => Like(m, o))
BY DEF HasNumbers, Like

LEMMA LikeEnqueue == ASSUME NEW m, HasNumbers(m), NEW r PROVE Like(m, _enqueue_request(m, r))
BY LikeOther DEF _enqueue_request

LEMMA LikeState ==
    ASSUME NEW m, HasNumbers(m)
    PROVE  /\ \A target : Like(m, _transition_to(m, target))
           /\ Like(m, transition_to_fatal_error(m)) /\ Like(m, transition_to_abortable_error(m))
           /\ Like(m, _complete_transaction(m)) /\ Like(m, begin_transaction(m))
           /\ \A p : Like(m, maybe_add_partition_to_transaction(m, p))
<1>0. Like(m, m)
  BY DEF Like
<1>1. \A target : Like(m, _transition_to(m, target))
  BY <1>0 DEF _transition_to, HasNumbers, Like
<1>2. Like(m, transition_to_fatal_error(m)) /\ Like(m, transition_to_abortable_error(m)) /\ Like(m, begin_transaction(m))
  BY <1>0, <1>1 DEF transition_to_fatal_error, transition_to_abortable_error, begin_transaction
<1>3. Like(m, _complete_transaction(m))
  BY <1>0 DEF _complete_transaction, HasNumbers, Like
<1>4. \A p : Like(m, maybe_add_partition_to_transaction(m, p))
  BY <1>0 DEF maybe_add_partition_to_transaction, HasNumbers, Like
<1>5. QED
  BY <1>1, <1>2, <1>3, <1>4

LEMMA LikeResult == ASSUME NEW m, HasNumbers(m), NEW r, NEW how PROVE Like(m, result_done(m, r, how))
BY DEF result_done, HasNumbers, Like

LEMMA LikeError ==
    ASSUME NEW m, HasNumbers(m), NEW r
    PROVE  Like(m, fatal_error(m, r)) /\ Like(m, abortable_error(m, r))
<1>1. Like(m, fatal_error(m, r))
  <2> DEFINE n == transition_to_fatal_error(m)
  <2>1. Like(m, n)
    BY LikeState
  <2> HIDE DEF n
  <2>2. Like(n, result_done(n, r, "failed"))
    BY <2>1, LikeLike, LikeResult
  <2>3. QED
    BY <2>1, <2>2, LikeLike DEF fatal_error, n
<1>2. Like(m, abortable_error(m, r))
  <2> DEFINE n == transition_to_abortable_error(m)
  <2>1. Like(m, n)
    BY LikeState
  <2> HIDE DEF n
  <2>2. Like(n, result_done(n, r, "failed"))
    BY <2>1, LikeLike, LikeResult
  <2>3. Like(m, result_done(n, r, "failed")) /\ Like(m, m)
    BY <2>1, <2>2, LikeLike DEF Like
  <2>4. QED
    BY <2>3 DEF abortable_error, n
<1>3. QED
  BY <1>1, <1>2

LEMMA LikeLookup ==
    ASSUME NEW m, HasNumbers(m), NEW key
    PROVE  Like(m, _lookup_coordinator(m, key))
<1> DEFINE n == [m EXCEPT !.coordinator[key] = FALSE]
<1>1. Like(m, n)
  BY DEF HasNumbers, Like
<1> HIDE DEF n
<1>2. \A r : Like(n, _enqueue_request(n, r))
  BY <1>1, LikeLike, LikeEnqueue
<1>3. \A r : Like(m, _enqueue_request(n, r))
  BY <1>1, <1>2, LikeLike
<1>4. QED
  BY <1>3 DEF _lookup_coordinator, n

LEMMA LikeReenqueue ==
    ASSUME NEW m, HasNumbers(m), NEW r
    PROVE  /\ Like(m, reenqueue(m, r)) /\ Like(m, reenqueue_elsewhere(m, r))
           /\ Like(m, lookup_coordinator_for_request(m, r))
           /\ Like(m, _enqueue_request(lookup_coordinator_for_request(m, r), r))
<1>1. \A key : Like(m, _lookup_coordinator(m, key))
  BY LikeLookup
<1>2. \A key : Like(_lookup_coordinator(m, key), _enqueue_request(_lookup_coordinator(m, key), r))
  BY <1>1, LikeLike, LikeEnqueue
<1>3. \A key : Like(m, _enqueue_request(_lookup_coordinator(m, key), r))
  BY <1>1, <1>2, LikeLike
<1>4. QED
  BY <1>1, <1>3, LikeEnqueue DEF reenqueue, reenqueue_elsewhere, lookup_coordinator_for_request

LEMMA LikeJoined ==
    ASSUME NEW m, HasNumbers(m)
    PROVE  Like(m, IF m.new # {} THEN _add_partitions_to_transaction_handler(m) ELSE m)
<1> DEFINE n == [m EXCEPT !.pending = @ \cup m.new, !.new = {}]
<1>1. Like(m, n)
  BY DEF HasNumbers, Like
<1> HIDE DEF n
<1>2. \A r : Like(n, _enqueue_request(n, r))
  BY <1>1, LikeLike, LikeEnqueue
<1>3. \A r : Like(m, _enqueue_request(n, r))
  BY <1>1, <1>2, LikeLike
<1>4. Like(m, _add_partitions_to_transaction_handler(m)) /\ Like(m, m)
  BY <1>3 DEF _add_partitions_to_transaction_handler, n, Like
<1>5. QED
  BY <1>4

LEMMA LikeEnding ==
    ASSUME NEW m, HasNumbers(m)
    PROVE  Like(m, begin_commit(m)) /\ Like(m, begin_abort(m)) /\ Like(m, send_offsets_to_transaction(m))
<1>1. ASSUME NEW n, Like(m, n), NEW committed PROVE Like(m, _begin_completing_transaction(n, committed))
  <2> DEFINE joined == IF n.new # {} THEN _add_partitions_to_transaction_handler(n) ELSE n
             o == [joined EXCEPT !.results["end"] = "pending"]
  <2>1. HasNumbers(n)
    BY <1>1, LikeLike
  <2>2. Like(n, joined)
    BY <2>1, LikeJoined
  <2> HIDE DEF joined
  <2>3. Like(m, joined)
    BY <1>1, <2>1, <2>2, LikeLike
  <2>4. HasNumbers(joined)
    BY <2>3, LikeLike
  <2>5. Like(joined, o)
    BY <2>4 DEF HasNumbers, Like
  <2> HIDE DEF o
  <2>6. Like(m, o) /\ HasNumbers(o)
    BY <2>3, <2>4, <2>5, LikeLike
  <2>7. \A r : Like(m, _enqueue_request(o, r))
    BY <2>6, LikeLike, LikeEnqueue
  <2>8. QED
    BY <2>7 DEF _begin_completing_transaction, joined, o
<1>2. Like(m, begin_commit(m))
  BY <1>1, LikeState DEF begin_commit
<1>3. Like(m, begin_abort(m))
  <2> DEFINE t == _transition_to(m, "ABORTING_TRANSACTION")
             n == [t EXCEPT !.new = {}]
  <2>1. Like(m, t)
    BY LikeState
  <2> HIDE DEF t
  <2>2. Like(t, n)
    BY <2>1, LikeLike, LikeOther
  <2> HIDE DEF n
  <2>3. Like(m, n)
    BY <2>1, <2>2, LikeLike
  <2>4. QED
    BY <1>1, <2>3 DEF begin_abort, n, t
<1>4. Like(m, send_offsets_to_transaction(m))
  <2> DEFINE n == [m EXCEPT !.results["offsets"] = "pending"]
  <2>1. Like(m, n)
    BY DEF HasNumbers, Like
  <2> HIDE DEF n
  <2>2. \A r : Like(m, _enqueue_request(n, r))
    BY <2>1, LikeLike, LikeEnqueue
  <2>3. QED
    BY <2>2 DEF send_offsets_to_transaction, n
<1>5. QED
  BY <1>2, <1>3, <1>4

LEMMA LikeNext == ASSUME NEW m, HasNumbers(m), NEW inc PROVE Like(m, next_request_handler(m, inc).tm)
<1> DEFINE joined == IF m.new # {} THEN _add_partitions_to_transaction_handler(m) ELSE m
           first  == Head(joined.requests)
           popped == [joined EXCEPT !.requests = Tail(@)]
           done   == result_done(popped, first, "done")
           ended  == _complete_transaction(done)
<1>1. Like(m, joined) /\ HasNumbers(joined)
  BY LikeJoined, LikeLike
<1> HIDE DEF joined
<1>2. Like(joined, popped)
  BY <1>1, LikeOther
<1> HIDE DEF popped, first
<1>3. Like(m, popped) /\ HasNumbers(popped)
  BY <1>1, <1>2, LikeLike
<1>4. Like(m, done) /\ HasNumbers(done) /\ Like(m, result_done(popped, first, "failed"))
  BY <1>3, LikeResult, LikeLike
<1> HIDE DEF done
<1>5. Like(m, ended) /\ HasNumbers(ended)
  BY <1>4, LikeState, LikeLike
<1> HIDE DEF ended
<1>6. Like(m, [ended EXCEPT !.requests = Tail(@)])
  <2>1. Like(ended, [ended EXCEPT !.requests = Tail(@)])
    BY <1>5 DEF Like, HasNumbers
  <2>2. QED
    BY <1>5, <2>1, LikeLike
<1>7. next_request_handler(m, inc).tm \in
        {joined, popped, ended, result_done(popped, first, "failed"), [ended EXCEPT !.requests = Tail(@)]}
  BY DEF next_request_handler, joined, popped, ended, done, first
<1>8. QED
  BY <1>1, <1>3, <1>4, <1>5, <1>6, <1>7

\* Only the answer to an InitProducerId sets the producer id.
LEMMA LikeCompleted ==
    ASSUME NEW m, HasNumbers(m), NEW how, NEW error, NEW pid
    PROVE  LET n == on_complete(m, how, error, pid) IN
           \/ Like(m, n)
           \/ /\ how \notin {"lost", "failed"} /\ error = "none" /\ m.in_flight.kind = "InitProducerId"
              /\ n.pid = pid
<1> DEFINE r == m.in_flight
           free == [m EXCEPT !.in_flight = NoRequest]
           n == on_complete(m, how, error, pid)
<1>1. Like(m, free) /\ HasNumbers(free)
  BY LikeOther, LikeLike
<1> HIDE DEF free
<1>2. \A o : Like(free, o) => Like(m, o)
  BY <1>1, LikeLike
<1>3. /\ Like(free, free) /\ Like(free, reenqueue(free, r)) /\ Like(free, reenqueue_elsewhere(free, r))
      /\ Like(free, fatal_error(free, r)) /\ Like(free, abortable_error(free, r))
  BY <1>1, LikeReenqueue, LikeError DEF Like
<1>4. Like(free, reenqueue(lookup_coordinator_for_request(free, r), r))
  BY <1>1, LikeReenqueue DEF reenqueue
<1>5. CASE how \in {"lost", "failed"}
  <2>1. n \in {reenqueue(lookup_coordinator_for_request(free, r), r), reenqueue(free, r), fatal_error(free, r)}
    BY <1>5 DEF on_complete, free
  <2>2. QED
    BY <1>2, <1>3, <1>4, <2>1
<1>6. CASE how \notin {"lost", "failed"}
  <2>0. n = handle_response(free, r, error, pid)
    BY <1>6 DEF on_complete, free
  <2> HIDE DEF n, r
  <2>1. \/ Like(free, InitProducerId_response(free, r, error, pid))
        \/ error = "none" /\ InitProducerId_response(free, r, error, pid).pid = pid
    <3> DEFINE o == set_producer_id_and_epoch(free, pid)
               t == _transition_to(o, "READY")
    <3>1. o.pid = pid /\ HasNumbers(o)
      BY <1>1 DEF set_producer_id_and_epoch, HasNumbers
    <3> HIDE DEF o
    <3>2. Like(o, t) /\ HasNumbers(t)
      BY <3>1, LikeState, LikeLike
    <3> HIDE DEF t
    <3>3. Like(t, result_done(t, r, "done"))
      BY <3>2, LikeResult
    <3>4. result_done(t, r, "done").pid = pid
      BY <3>1, <3>2, <3>3 DEF Like
    <3>5. QED
      BY <1>3, <3>4 DEF InitProducerId_response, o, t
  <2>2. Like(free, AddPartitions_response(free, r, error))
    <3>1. Like(free, [free EXCEPT !.pending = @ \ r.parts, !.added = @ \cup r.parts, !.started = TRUE])
      BY <1>1 DEF HasNumbers, Like
    <3> DEFINE o == [free EXCEPT !.pending = @ \ r.parts]
    <3>2. Like(free, o) /\ HasNumbers(o)
      BY <1>1, LikeOther, LikeLike
    <3> HIDE DEF o
    <3>3. Like(free, abortable_error(o, r))
      BY <1>1, <3>2, LikeError, LikeLike
    <3>4. QED
      BY <1>3, <3>1, <3>3 DEF AddPartitions_response, o
  <2>3. Like(free, FindCoordinator_response(free, r, error))
    <3>1. Like(free, [free EXCEPT !.coordinator[r.key] = TRUE])
      BY <1>1 DEF HasNumbers, Like
    <3>2. QED
      BY <1>3, <3>1 DEF FindCoordinator_response
  <2>4. Like(free, EndTxn_response(free, r, error))
    <3> DEFINE o == _complete_transaction(free)
    <3>1. Like(free, o) /\ HasNumbers(o)
      BY <1>1, LikeState, LikeLike
    <3> HIDE DEF o
    <3>2. Like(free, result_done(o, r, "done"))
      BY <1>1, <3>1, LikeResult, LikeLike
    <3>3. QED
      BY <1>3, <3>2 DEF EndTxn_response, o
  <2>5. Like(free, AddOffsets_response(free, r, error))
    <3> DEFINE o == [free EXCEPT !.offsets = TRUE, !.started = TRUE]
    <3>1. Like(free, o) /\ HasNumbers(o)
      BY <1>1 DEF HasNumbers, Like
    <3> HIDE DEF o
    <3>2. \A q : Like(free, _enqueue_request(o, q))
      BY <1>1, <3>1, LikeEnqueue, LikeLike
    <3>3. QED
      BY <1>3, <3>2 DEF AddOffsets_response, o
  <2>6. Like(free, TxnOffsetCommit_response(free, r, error))
    <3> DEFINE o == [free EXCEPT !.offsets = FALSE]
    <3>1. Like(free, o) /\ HasNumbers(o)
      BY <1>1, LikeOther, LikeLike
    <3> HIDE DEF o
    <3>2. Like(free, result_done(o, r, "done"))
      BY <1>1, <3>1, LikeResult, LikeLike
    <3>3. QED
      BY <1>3, <3>2 DEF TxnOffsetCommit_response, o
  <2>7. Like(free, n) \/ (error = "none" /\ r.kind = "InitProducerId" /\ n.pid = pid)
    BY <2>0, <2>1, <2>2, <2>3, <2>4, <2>5, <2>6 DEF handle_response
  <2>8. QED
    BY <1>2, <1>6, <2>7 DEF n, r
<1>7. QED
  BY <1>5, <1>6

\* A queue that is rising stays so.
LEMMA RisingQueue ==
    ASSUME NEW s \in Seq(Nat), Rising(s)
    PROVE  /\ \A x \in Nat : (\A e \in Elements(s) : e < x) => Rising(Append(s, x))
           /\ \A x \in Nat : (\A e \in Elements(s) : x < e) => Rising(<<x>> \o s)
           /\ s # <<>> => Rising(Tail(s)) /\ \A e \in Elements(s) : Head(s) <= e
           /\ \A n \in 0 .. Len(s) : Rising(SubSeq(s, n + 1, Len(s)))
<1> DEFINE m == Len(s)
<1>1. m \in Nat /\ DOMAIN s = 1 .. m /\ \A k \in 1 .. m : s[k] \in Nat
  OBVIOUS
<1>2. ASSUME NEW x \in Nat, \A e \in Elements(s) : e < x PROVE Rising(Append(s, x))
  <2> DEFINE t == Append(s, x)
  <2>1. DOMAIN t = 1 .. m + 1 /\ t[m + 1] = x /\ \A k \in 1 .. m : t[k] = s[k]
    BY <1>1
  <2> HIDE DEF t, m
  <2>2. \A j, k \in 1 .. m + 1 : j < k => j \in 1 .. m /\ (k \in 1 .. m \/ k = m + 1)
    BY <1>1
  <2>3. \A k \in 1 .. m : s[k] < x
    BY <1>1, <1>2 DEF Elements
  <2>4. Rising(t)
    BY <1>1, <2>1, <2>2, <2>3 DEF Rising
  <2>5. QED
    BY <2>4 DEF t
<1>3. ASSUME NEW x \in Nat, \A e \in Elements(s) : x < e PROVE Rising(<<x>> \o s)
  <2> DEFINE u == <<x>>
             t == u \o s
  <2>0. u \in Seq(Nat) /\ Len(u) = 1 /\ u[1] = x
    OBVIOUS
  <2> HIDE DEF u
  <2>1. /\ t \in Seq(Nat) /\ Len(t) = Len(u) + Len(s)
        /\ \A i \in 1 .. Len(u) + Len(s) : t[i] = IF i <= Len(u) THEN u[i] ELSE s[i - Len(u)]
    BY ONLY <2>0, s \in Seq(Nat), ConcatProperties
  <2> HIDE DEF t
  <2>2. Len(t) = m + 1 /\ \A i \in 1 .. m + 1 : t[i] = IF i <= 1 THEN u[i] ELSE s[i - 1]
    BY ONLY <1>1, <2>0, <2>1
  <2>3. DOMAIN t = 1 .. m + 1 /\ t[1] = x
    BY <1>1, <2>0, <2>1, <2>2
  <2> HIDE DEF m
  <2>4. \A i \in 1 .. m + 1 : i = 1 \/ (i - 1 \in 1 .. m /\ t[i] = s[i - 1])
    BY <1>1, <2>2
  <2>5. \A k \in 1 .. m : x < s[k]
    BY <1>1, <1>3 DEF Elements
  <2>6. ASSUME NEW j \in 1 .. m + 1, NEW k \in 1 .. m + 1, j < k PROVE t[j] < t[k]
    <3>1. k # 1 /\ k - 1 \in 1 .. m /\ t[k] = s[k - 1]
      BY <1>1, <2>4, <2>6
    <3>2. CASE j = 1
      BY <2>3, <2>5, <3>1, <3>2
    <3>3. CASE j # 1
      <4>1. j - 1 \in 1 .. m /\ t[j] = s[j - 1] /\ j - 1 < k - 1
        BY <1>1, <2>4, <2>6, <3>3
      <4>2. QED
        BY <1>1, <3>1, <4>1 DEF Rising
    <3>4. QED
      BY <3>2, <3>3
  <2>7. Rising(t)
    BY <2>3, <2>6 DEF Rising
  <2>8. QED
    BY <2>7 DEF t, u
<1>4. ASSUME NEW n \in 0 .. m PROVE Rising(SubSeq(s, n + 1, m))
  <2> DEFINE t == SubSeq(s, n + 1, m)
  <2>1. n \in Nat /\ DOMAIN t = 1 .. m - n /\ \A k \in 1 .. m - n : t[k] = s[n + k]
    BY <1>1
  <2> HIDE DEF t, m
  <2>2. \A k \in 1 .. m - n : n + k \in 1 .. m
    BY <1>1, <2>1
  <2>3. \A j, k \in 1 .. m - n : j < k => n + j < n + k
    BY <1>1, <2>1
  <2>4. Rising(t)
    BY <1>1, <2>1, <2>2, <2>3 DEF Rising
  <2>5. QED
    BY <2>4 DEF t
<1>5. ASSUME s # <<>> PROVE Rising(Tail(s)) /\ \A e \in Elements(s) : Head(s) <= e
  <2> DEFINE t == Tail(s)
  <2>1. m # 0 /\ Head(s) = s[1] /\ DOMAIN t = 1 .. m - 1 /\ \A k \in 1 .. m - 1 : t[k] = s[k + 1]
    BY <1>1, <1>5
  <2> HIDE DEF t, m
  <2>2. \A k \in 1 .. m - 1 : k + 1 \in 1 .. m
    BY <1>1, <2>1
  <2>3. \A j, k \in 1 .. m - 1 : j < k => j + 1 < k + 1
    BY <1>1, <2>1
  <2>4. Rising(t)
    BY <1>1, <2>1, <2>2, <2>3 DEF Rising
  <2>5. \A k \in 1 .. m : k = 1 \/ 1 < k
    BY <1>1
  <2>6. \A k \in 1 .. m : s[1] <= s[k]
    BY <1>1, <2>5 DEF Rising
  <2>7. QED
    BY <1>1, <2>1, <2>4, <2>6 DEF t, Elements
<1>6. QED
  BY <1>2, <1>3, <1>4, <1>5

-----------------------------------------------------------------------------
(* Delivery.  What is sent is closed; what is under way has its partition muted,
   where the order is kept; and each number is one batch's, until it is given up. *)

OnWire(i) == \E n \in Node : \E k \in DOMAIN wire[n] : i \in wire[n][k]
HasAnswer(i) == \E k \in DOMAIN answers : answers[k].b = i
UnderWay(i) == i \in in_flight_batches \/ OnWire(i) \/ HasAnswer(i)
InLog(i) == \E k \in DOMAIN log[batch[i].tp] : log[batch[i].tp][k].b = i
GivenUp(i) == batch[i].final \in {"FAILED", "ABORTED"}
Related(i, j) == batch[i].tp = batch[j].tp
SameNumber(i, j) == Related(i, j) /\ batch[i].pid = batch[j].pid /\ batch[i].seq = batch[j].seq

\* A batch that has been sent is closed; one in a queue has been sent if it is to be sent again.
Closed ==
    /\ \A i \in DOMAIN batch : UnderWay(i) \/ i \in stray \/ InLog(i) \/ batch[i].final = "SUCCEEDED" => ~batch[i].open
    /\ \A i \in InQueues(queues) : batch[i].open <=> ~batch[i].retry
    /\ \A p \in Partition : \A k \in DOMAIN log[p] : batch[log[p][k].b].tp = p
    /\ \A n \in Node : \A k \in DOMAIN wire[n] : \A i, j \in wire[n][k] : Related(i, j) => i = j

\* Where the order is kept, the batches of a partition are sent one after the other.
OneByOne ==
    guarantee_message_order =>
        /\ \A i, j \in DOMAIN batch : i < j /\ Related(i, j) /\ ~batch[j].open => batch[i].final # "none"
        /\ \A p \in Partition : Rising(queues[p])
        /\ \A i \in DOMAIN batch : UnderWay(i) => batch[i].tp \in muted
        /\ \A i, j \in DOMAIN batch : UnderWay(i) /\ UnderWay(j) /\ Related(i, j) => i = j

\* The manager's number is above those that have been used with its producer id.
Numbered ==
    /\ tm.pid <= coord.pid
    /\ coord.fenced => transactional
    /\ managed => \A i \in DOMAIN batch : ~batch[i].open => batch[i].pid \in 1 .. coord.pid
    /\ ~managed => \A i \in DOMAIN batch : batch[i].pid = 0
    /\ managed => \A i \in DOMAIN batch : ~batch[i].open /\ batch[i].pid = tm.pid =>
          /\ batch[i].seq <= tm.seq[batch[i].tp]
          /\ batch[i].final = "SUCCEEDED" => batch[i].seq + batch[i].count <= tm.seq[batch[i].tp]
    /\ managed => \A i, j \in DOMAIN batch :
          ~batch[i].open /\ ~batch[j].open /\ SameNumber(i, j) /\ i # j => GivenUp(i) \/ GivenUp(j)

\* What is acknowledged is in the log, or was taken for a duplicate of what is.
Accounted(i) ==
    \E j \in DOMAIN batch : /\ InLog(j)
                            /\ i = j \/ (batch[i].pid # 0 /\ SameNumber(i, j) /\ batch[i].count = batch[j].count)
Recorded ==
    /\ \A i \in DOMAIN batch : batch[i].final = "SUCCEEDED" => Accounted(i)
    /\ \A k \in DOMAIN answers : answers[k].error = "none" => Accounted(answers[k].b)
    /\ managed => \A p \in Partition : \A j, k \in DOMAIN log[p] : log[p][j].b = log[p][k].b => j = k
    /\ guarantee_message_order =>
          \A p \in Partition : \A k \in DOMAIN log[p] : \A i \in DOMAIN batch :
              i < log[p][k].b /\ batch[i].tp = p /\ batch[i].final = "SUCCEEDED" /\ InLog(i) =>
                  \E m \in DOMAIN log[p] : m < k /\ log[p][m].b = i

DInv == Closed /\ OneByOne /\ Numbered /\ Recorded

\* Numbers do not run out: they have not come to the end of 31 bits.
NumbersSuffice == \A p \in Partition : tm.seq[p] + BatchSize <= MaxInt

-----------------------------------------------------------------------------
(* Steps that leave the batches and their way alone.                          *)

SameLog ==
    \A p \in Partition : DOMAIN log'[p] = DOMAIN log[p] /\ \A k \in DOMAIN log[p] : log'[p][k].b = log[p][k].b

\* The manager keeps its numbers, or has none, or gets a new producer id.
NumbersMove ==
    /\ coord'.pid \in Nat /\ coord.pid <= coord'.pid /\ (coord'.fenced => coord.fenced \/ transactional)
    /\ Like(tm, tm') \/ tm'.pid = 0 \/ (tm'.pid = coord.pid + 1 /\ coord'.pid = coord.pid + 1)

\* What is known of the types.
LEMMA Typed ==
    ASSUME IInv
    PROVE  /\ batch \in Seq(BatchRecord) /\ Len(batch) \in Nat /\ DOMAIN batch = 1 .. Len(batch) /\ DOMAIN batch \in SUBSET Nat
           /\ \A i \in DOMAIN batch : /\ batch[i] \in BatchRecord /\ batch[i].tp \in Partition /\ batch[i].seq \in Nat
                                      /\ batch[i].pid \in Nat /\ batch[i].count \in Nat \ {0} /\ batch[i].count <= BatchSize
                                      /\ batch[i].final \in {"none", "SUCCEEDED", "FAILED", "ABORTED"}
           /\ queues \in [Partition -> Seq(DOMAIN batch)] /\ \A p \in Partition : queues[p] \in Seq(Nat)
           /\ in_flight_batches \subseteq incomplete /\ InQueues(queues) \subseteq incomplete
           /\ incomplete = {i \in DOMAIN batch : batch[i].final = "none"}
           /\ wire \in [Node -> Seq(SUBSET DOMAIN batch)] /\ stray \subseteq DOMAIN batch
           /\ answers \in Seq(Answer(DOMAIN batch)) /\ log \in [Partition -> Seq(Entry(DOMAIN batch))]
           /\ \A k \in DOMAIN answers : answers[k].b \in DOMAIN batch
           /\ \A p \in Partition : DOMAIN log[p] \in SUBSET Nat /\ \A k \in DOMAIN log[p] : log[p][k].b \in DOMAIN batch
           /\ tm \in GoodManager /\ tm.pid \in Nat /\ \A p \in Partition : tm.seq[p] \in Nat
           /\ HasNumbers(tm) /\ coord.pid \in Nat
<1>1. batch \in Seq(BatchRecord) /\ queues \in [Partition -> Seq(DOMAIN batch)]
      /\ incomplete = {i \in DOMAIN batch : batch[i].final = "none"}
      /\ in_flight_batches \subseteq incomplete /\ InQueues(queues) \subseteq incomplete
  BY DEF IInv, Placed
<1>2. Len(batch) \in Nat /\ DOMAIN batch = 1 .. Len(batch) /\ \A i \in DOMAIN batch : batch[i] \in BatchRecord
  BY <1>1
<1>3. DOMAIN batch \in SUBSET Nat
  BY <1>2
<1>4. \A i \in DOMAIN batch : /\ batch[i] \in BatchRecord /\ batch[i].tp \in Partition /\ batch[i].seq \in Nat
                              /\ batch[i].pid \in Nat /\ batch[i].count \in Nat \ {0} /\ batch[i].count <= BatchSize
                              /\ batch[i].final \in {"none", "SUCCEEDED", "FAILED", "ABORTED"}
  BY <1>2, ProducerAssumption DEF BatchRecord
<1>5. \A p \in Partition : queues[p] \in Seq(Nat)
  <2> SUFFICES ASSUME NEW p \in Partition PROVE queues[p] \in Seq(Nat)
    OBVIOUS
  <2>1. queues[p] \in Seq(DOMAIN batch) /\ DOMAIN batch \subseteq Nat
    BY <1>1, <1>3
  <2>2. QED
    BY <2>1, SeqMonotonic
<1>6. /\ wire \in [Node -> Seq(SUBSET DOMAIN batch)] /\ stray \subseteq DOMAIN batch
      /\ answers \in Seq(Answer(DOMAIN batch)) /\ log \in [Partition -> Seq(Entry(DOMAIN batch))]
  BY DEF IInv, Traffic
<1>7. \A k \in DOMAIN answers : answers[k].b \in DOMAIN batch
  <2>1. \A k \in DOMAIN answers : answers[k] \in Answer(DOMAIN batch)
    BY <1>6
  <2>2. QED
    BY <2>1 DEF Answer
<1>8. ASSUME NEW p \in Partition
      PROVE  DOMAIN log[p] \in SUBSET Nat /\ \A k \in DOMAIN log[p] : log[p][k].b \in DOMAIN batch
  <2>1. log[p] \in Seq(Entry(DOMAIN batch))
    BY <1>6
  <2>2. \A k \in DOMAIN log[p] : log[p][k] \in Entry(DOMAIN batch)
    BY <2>1
  <2>3. DOMAIN log[p] = 1 .. Len(log[p]) /\ Len(log[p]) \in Nat
    BY <2>1
  <2>4. QED
    BY <2>2, <2>3 DEF Entry
<1>9. tm \in GoodManager /\ coord.pid \in Nat
  BY DEF IInv, ManagerInv
<1>10. tm.pid \in Nat /\ (\A p \in Partition : tm.seq[p] \in Nat) /\ HasNumbers(tm)
  BY <1>9 DEF GoodManager, HasNumbers
<1>11. QED
  BY <1>1, <1>2, <1>3, <1>4, <1>5, <1>6, <1>7, <1>8, <1>9, <1>10

\* Where there is a manager, one request is in flight.
LEMMA Ordered == ASSUME IInv PROVE managed => guarantee_message_order
BY ProducerAssumption DEF IInv, ModeAllowed, managed, guarantee_message_order

LEMMA QuietStep ==
    ASSUME IInv, DInv, UNCHANGED <<batch, queues, muted, in_flight_batches, wire, answers, stray, mode>>,
           SameLog, NumbersMove
    PROVE  DInv'
<1>0. mode' = mode /\ batch' = batch /\ queues' = queues /\ muted' = muted /\ in_flight_batches' = in_flight_batches
      /\ wire' = wire /\ answers' = answers /\ stray' = stray
  OBVIOUS
<1>1. (managed' <=> managed) /\ (transactional' <=> transactional) /\ (guarantee_message_order' <=> guarantee_message_order)
  BY <1>0 DEF managed, transactional, guarantee_message_order
<1>2. \A i \in DOMAIN batch : InLog(i)' <=> InLog(i)
  <2>1. \A i \in DOMAIN batch : batch[i].tp \in Partition
    BY Typed
  <2>2. QED
    BY <1>0, <2>1 DEF InLog, SameLog
<1>3. \A i : UnderWay(i)' <=> UnderWay(i)
  BY <1>0 DEF UnderWay, OnWire, HasAnswer
<1>4. \A i \in DOMAIN batch : Accounted(i)' <=> Accounted(i)
  BY <1>0, <1>2 DEF Accounted, SameNumber, Related
<1>5. Closed'
  <2>1. Closed
    BY DEF DInv
  <2>2. QED
    BY <1>0, <1>2, <1>3, <2>1 DEF Closed, Related, SameLog, InQueues
<1>6. OneByOne'
  <2>1. OneByOne
    BY DEF DInv
  <2>2. QED
    BY <1>0, <1>1, <1>3, <2>1 DEF OneByOne, Related
<1>7. Numbered'
  <2>0. Numbered
    BY DEF DInv
  <2>1. tm'.pid <= coord'.pid /\ (coord'.fenced => transactional)
    <3>1. tm.pid \in Nat /\ coord.pid \in Nat /\ tm.pid <= coord.pid /\ (coord.fenced => transactional)
      BY <2>0, Typed DEF Numbered
    <3>2. QED
      BY <3>1 DEF NumbersMove, Like
  <2>2. managed => \A i \in DOMAIN batch : ~batch[i].open => batch[i].pid \in 1 .. coord.pid
    BY <2>0 DEF Numbered
  <2>3. managed => \A i \in DOMAIN batch : ~batch[i].open => batch[i].pid \in 1 .. coord'.pid
    <3>1. \A n \in 1 .. coord.pid : n \in 1 .. coord'.pid
      BY Typed DEF NumbersMove
    <3>2. QED
      BY <2>2, <3>1
  <2>4. managed => \A i \in DOMAIN batch : ~batch[i].open /\ batch[i].pid = tm'.pid => Like(tm, tm')
    BY <2>2, Typed DEF NumbersMove
  <2>5. managed => \A i \in DOMAIN batch : ~batch[i].open /\ batch[i].pid = tm'.pid =>
          /\ batch[i].seq <= tm'.seq[batch[i].tp]
          /\ batch[i].final = "SUCCEEDED" => batch[i].seq + batch[i].count <= tm'.seq[batch[i].tp]
    BY <2>0, <2>4 DEF Numbered, Like
  <2>6. QED
    BY <1>0, <1>1, <2>0, <2>1, <2>3, <2>5 DEF Numbered, SameNumber, Related, GivenUp
<1>8. Recorded'
  <2>1. Recorded
    BY DEF DInv
  <2>2. \A i \in DOMAIN batch : batch[i].final = "SUCCEEDED" => Accounted(i)'
    BY <1>4, <2>1 DEF Recorded
  <2>3. \A k \in DOMAIN answers : answers[k].error = "none" => Accounted(answers[k].b)'
    BY <1>0, <1>4, <2>1, Typed DEF Recorded
  <2>4. managed => \A p \in Partition : \A j, k \in DOMAIN log'[p] : log'[p][j].b = log'[p][k].b => j = k
    BY <2>1 DEF Recorded, SameLog
  <2>5. guarantee_message_order =>
          \A p \in Partition : \A k \in DOMAIN log'[p] : \A i \in DOMAIN batch :
              i < log'[p][k].b /\ batch[i].tp = p /\ batch[i].final = "SUCCEEDED" /\ InLog(i)' =>
                  \E m \in DOMAIN log'[p] : m < k /\ log'[p][m].b = i
    BY <1>2, <2>1 DEF Recorded, SameLog
  <2>6. QED
    BY <1>0, <1>1, <2>2, <2>3, <2>4, <2>5 DEF Recorded
<1>9. QED
  BY <1>5, <1>6, <1>7, <1>8 DEF DInv

-----------------------------------------------------------------------------
(* What a leader writes.                                                      *)

LEMMA Verdicts ==
    ASSUME NEW l, NEW i
    PROVE  /\ Verdict(l, i) = "append" => ~(batch[i].pid # 0 /\ IsDuplicate(l, batch[i]))
           /\ Verdict(l, i) = "duplicate" => batch[i].pid # 0 /\ IsDuplicate(l, batch[i])
<1> DEFINE d == batch[i].pid # 0 /\ IsDuplicate(l, batch[i])
<1>1. Verdict(l, i) = "append" => ~d
  <2>1. CASE coord.fenced
    BY <2>1 DEF Verdict
  <2>2. CASE ~coord.fenced
    BY <2>2 DEF Verdict
  <2>3. QED
    BY <2>1, <2>2
<1>2. Verdict(l, i) = "duplicate" => d
  BY DEF Verdict
<1>3. QED
  BY <1>1, <1>2

\* The entry of a batch comes after those there are, if it is written at all.
Wrote(p, i) ==
    /\ batch[i].tp = p /\ Verdict(log[p], i) = "append"
    /\ DOMAIN log'[p] = 1 .. Len(log[p]) + 1 /\ log'[p][Len(log[p]) + 1].b = i
    /\ \A k \in DOMAIN log[p] : log'[p][k] = log[p][k]
LEMMA Writes ==
    ASSUME IInv, NEW B \in SUBSET DOMAIN batch, \A i, j \in B : Related(i, j) => i = j, log' = WithBatches(B)
    PROVE  /\ \A p \in Partition : log'[p] = log[p] \/ \E i \in B : Wrote(p, i)
           /\ \A i \in B : Verdict(log[batch[i].tp], i) = "append" => Wrote(batch[i].tp, i)
<1>1. ASSUME NEW p \in Partition, NEW i \in B, batch[i].tp = p
      PROVE  /\ Verdict(log[p], i) = "append" => Wrote(p, i)
             /\ Verdict(log[p], i) # "append" => log'[p] = log[p]
  <2>1. i = CHOOSE j \in B : batch[j].tp = p
    <3> DEFINE c == CHOOSE j \in B : batch[j].tp = p
    <3>1. c \in B /\ batch[c].tp = p
      BY <1>1
    <3> HIDE DEF c
    <3>2. i = c
      BY <1>1, <3>1 DEF Related
    <3>3. QED
      BY <3>2 DEF c
  <2>2. log'[p] = WithBatch(log[p], i)
    BY <1>1, <2>1 DEF WithBatches
  <2>3. ASSUME Verdict(log[p], i) = "append" PROVE Wrote(p, i)
    <3> DEFINE x == [b |-> i, mark |-> IF transactional THEN "open" ELSE "plain"]
    <3>1. log'[p] = Append(log[p], x) /\ x.b = i
      BY <2>2, <2>3 DEF WithBatch
    <3>2. log[p] \in Seq(Entry(DOMAIN batch))
      BY Typed
    <3> HIDE DEF x
    <3>3. DOMAIN log'[p] = 1 .. Len(log[p]) + 1 /\ log'[p][Len(log[p]) + 1] = x
          /\ \A k \in DOMAIN log[p] : log'[p][k] = log[p][k]
      BY <3>1, <3>2
    <3>4. QED
      BY <1>1, <2>3, <3>1, <3>3 DEF Wrote
  <2>4. ASSUME Verdict(log[p], i) # "append" PROVE log'[p] = log[p]
    BY <2>2, <2>4 DEF WithBatch
  <2>5. QED
    BY <2>3, <2>4
<1>2. ASSUME NEW p \in Partition PROVE log'[p] = log[p] \/ \E i \in B : Wrote(p, i)
  <2>1. CASE \E i \in B : batch[i].tp = p
    BY <1>1, <2>1
  <2>2. CASE ~\E i \in B : batch[i].tp = p
    BY <2>2 DEF WithBatches
  <2>3. QED
    BY <2>1, <2>2
<1>3. \A i \in B : batch[i].tp \in Partition
  BY Typed
<1>4. QED
  BY <1>1, <1>2, <1>3

\* What is accounted for is not written again, where batches have numbers.
LEMMA WrittenBefore ==
    ASSUME IInv, DInv, NEW i \in DOMAIN batch, ~batch[i].open, Verdict(log[batch[i].tp], i) = "append"
    PROVE  /\ managed => ~InLog(i)
           /\ Accounted(i) => InLog(i)
<1> DEFINE l == log[batch[i].tp]
<1>1. batch[i].tp \in Partition /\ \A j \in DOMAIN batch : batch[j].tp \in Partition
  BY Typed
<1>2. ASSUME batch[i].pid # 0, NEW j \in DOMAIN batch, InLog(j), SameNumber(i, j), batch[i].count = batch[j].count
      PROVE  FALSE
  <2>1. PICK k \in DOMAIN l : l[k].b = j
    BY <1>2 DEF InLog, SameNumber, Related
  <2>2. IsDuplicate(l, batch[i])
    BY <1>2, <2>1 DEF IsDuplicate, SameNumber
  <2>3. QED
    BY <1>2, <2>2, Verdicts
<1>3. ASSUME managed, InLog(i) PROVE FALSE
  <2>1. batch[i].pid # 0
    BY <1>3, Typed DEF DInv, Numbered
  <2>2. SameNumber(i, i)
    BY DEF SameNumber, Related
  <2>3. QED
    BY <1>2, <1>3, <2>1, <2>2
<1>4. ASSUME Accounted(i) PROVE InLog(i)
  BY <1>2, <1>4 DEF Accounted
<1>5. QED
  BY <1>3, <1>4

LEMMA WrittenStep ==
    ASSUME IInv, DInv, UNCHANGED <<batch, queues, muted, in_flight_batches, tm, coord, mode>>,
           NEW B \in SUBSET DOMAIN batch, \A i, j \in B : Related(i, j) => i = j, log' = WithBatches(B),
           \A i \in B : UnderWay(i) \/ i \in stray,
           \A i : UnderWay(i)' => UnderWay(i), \A i \in stray' : UnderWay(i) \/ i \in stray,
           \A n \in Node : \A k \in DOMAIN wire'[n] : \E l \in DOMAIN wire[n] : wire'[n][k] = wire[n][l],
           \A k \in DOMAIN answers' :
               \/ \E l \in DOMAIN answers : answers[l] = answers'[k]
               \/ answers'[k].error = "none" => answers'[k].b \in B /\ ErrorOf(answers'[k].b) = "none"
    PROVE  DInv'
<1>0. mode' = mode /\ batch' = batch /\ queues' = queues /\ muted' = muted /\ in_flight_batches' = in_flight_batches
      /\ tm' = tm /\ coord' = coord
  OBVIOUS
<1>1. (managed' <=> managed) /\ (transactional' <=> transactional) /\ (guarantee_message_order' <=> guarantee_message_order)
  BY <1>0 DEF managed, transactional, guarantee_message_order
<1>2. Closed /\ OneByOne /\ Numbered /\ Recorded
  BY DEF DInv
<1>3. /\ \A p \in Partition : log'[p] = log[p] \/ \E i \in B : Wrote(p, i)
      /\ \A i \in B : Verdict(log[batch[i].tp], i) = "append" => Wrote(batch[i].tp, i)
  BY Writes
<1>4. \A p \in Partition : DOMAIN log[p] \subseteq DOMAIN log'[p] /\ \A k \in DOMAIN log[p] : log'[p][k] = log[p][k]
  <2> SUFFICES ASSUME NEW p \in Partition
               PROVE  DOMAIN log[p] \subseteq DOMAIN log'[p] /\ \A k \in DOMAIN log[p] : log'[p][k] = log[p][k]
    OBVIOUS
  <2>1. DOMAIN log[p] = 1 .. Len(log[p]) /\ Len(log[p]) \in Nat
    <3>1. log[p] \in Seq(Entry(DOMAIN batch))
      BY Typed
    <3>2. QED
      BY <3>1
  <2>2. 1 .. Len(log[p]) \subseteq 1 .. Len(log[p]) + 1
    BY <2>1
  <2>3. QED
    BY <1>3, <2>1, <2>2 DEF Wrote
<1>5. \A p \in Partition : \A k \in DOMAIN log'[p] :
        \/ k \in DOMAIN log[p] /\ log'[p][k] = log[p][k]
        \/ \E i \in B : Wrote(p, i) /\ log'[p][k].b = i /\ \A m \in DOMAIN log[p] : m < k
  <2> SUFFICES ASSUME NEW p \in Partition, NEW k \in DOMAIN log'[p], NEW i \in B, Wrote(p, i)
               PROVE  \/ k \in DOMAIN log[p] /\ log'[p][k] = log[p][k]
                      \/ log'[p][k].b = i /\ \A m \in DOMAIN log[p] : m < k
    BY <1>3
  <2>1. DOMAIN log[p] = 1 .. Len(log[p]) /\ Len(log[p]) \in Nat
    <3>1. log[p] \in Seq(Entry(DOMAIN batch))
      BY Typed
    <3>2. QED
      BY <3>1
  <2>2. DOMAIN log'[p] = 1 .. Len(log[p]) + 1 /\ log'[p][Len(log[p]) + 1].b = i
        /\ \A m \in DOMAIN log[p] : log'[p][m] = log[p][m]
    BY DEF Wrote
  <2> DEFINE len == Len(log[p])
  <2> HIDE DEF len
  <2>3. k \in 1 .. len \/ k = len + 1
    BY <2>1, <2>2 DEF len
  <2>4. len \in Nat /\ DOMAIN log[p] = 1 .. len /\ (k = len + 1 => \A m \in 1 .. len : m < k)
    BY <2>1 DEF len
  <2>5. QED
    BY <2>2, <2>3, <2>4 DEF len
<1>6. \A i \in B : ~batch[i].open /\ i \in DOMAIN batch
  BY <1>2 DEF Closed
<1>7. \A i \in DOMAIN batch : batch[i].tp \in Partition
  BY Typed
<1>8. \A i \in DOMAIN batch : InLog(i) => InLog(i)'
  BY <1>0, <1>4, <1>7 DEF InLog
<1>9. \A i \in DOMAIN batch : InLog(i)' => InLog(i) \/ (i \in B /\ Wrote(batch[i].tp, i))
  BY <1>0, <1>5, <1>7 DEF InLog
<1>10. \A i \in DOMAIN batch : Accounted(i) => Accounted(i)'
  BY <1>0, <1>8 DEF Accounted, SameNumber, Related
<1>11. Closed'
  <2>1. \A i \in DOMAIN batch : UnderWay(i)' \/ i \in stray' \/ InLog(i)' \/ batch[i].final = "SUCCEEDED" => ~batch[i].open
    BY <1>2, <1>6, <1>9 DEF Closed
  <2>2. \A p \in Partition : \A k \in DOMAIN log'[p] : batch[log'[p][k].b].tp = p
    BY <1>2, <1>5 DEF Closed, Wrote
  <2>3. \A n \in Node : \A k \in DOMAIN wire'[n] : \A i, j \in wire'[n][k] : Related(i, j) => i = j
    BY <1>2 DEF Closed
  <2>4. QED
    BY <1>0, <1>2, <2>1, <2>2, <2>3 DEF Closed, Related, InQueues
<1>12. OneByOne'
  BY <1>0, <1>1, <1>2 DEF OneByOne, Related
<1>13. Numbered'
  BY <1>0, <1>1, <1>2 DEF Numbered, SameNumber, Related, GivenUp
<1>14. Recorded'
  <2>1. \A i \in DOMAIN batch : batch[i].final = "SUCCEEDED" => Accounted(i)'
    BY <1>2, <1>10 DEF Recorded
  <2>2. ASSUME NEW i \in B, ErrorOf(i) = "none" PROVE Accounted(i)'
    <3>0. i \in DOMAIN batch
      BY <1>6
    <3>1. Verdict(log[batch[i].tp], i) \in {"append", "duplicate"}
      <4>1. Verdict(log[batch[i].tp], i) \in {"fatal", "duplicate", "out_of_order", "append"}
        BY DEF Verdict
      <4>2. QED
        BY <2>2, <4>1 DEF ErrorOf
    <3>2. CASE Verdict(log[batch[i].tp], i) = "append"
      <4>1. Wrote(batch[i].tp, i)
        BY <1>3, <3>2
      <4>2. Len(log[batch[i].tp]) + 1 \in DOMAIN log'[batch[i].tp]
        <5>1. log[batch[i].tp] \in Seq(Entry(DOMAIN batch))
          BY <1>7, <3>0, Typed
        <5>2. Len(log[batch[i].tp]) \in Nat
          BY <5>1
        <5>3. QED
          BY <4>1, <5>2 DEF Wrote
      <4>3. InLog(i)'
        BY <1>0, <4>1, <4>2 DEF InLog, Wrote
      <4>4. QED
        BY <1>0, <3>0, <4>3 DEF Accounted
    <3>3. CASE Verdict(log[batch[i].tp], i) = "duplicate"
      <4>1. batch[i].pid # 0 /\ IsDuplicate(log[batch[i].tp], batch[i])
        BY <3>3, Verdicts
      <4>2. PICK k \in DOMAIN log[batch[i].tp] :
              LET w == batch[log[batch[i].tp][k].b] IN w.pid = batch[i].pid /\ w.seq = batch[i].seq /\ w.count = batch[i].count
        BY <4>1 DEF IsDuplicate
      <4> DEFINE j == log[batch[i].tp][k].b
      <4>3. j \in DOMAIN batch /\ batch[j].tp = batch[i].tp
        BY <1>2, <1>7, <3>0, Typed DEF Closed
      <4>4. InLog(j)
        BY <4>3 DEF InLog
      <4>5. SameNumber(i, j) /\ batch[i].count = batch[j].count
        BY <4>2, <4>3 DEF SameNumber, Related
      <4> HIDE DEF j
      <4>6. Accounted(i)
        BY <4>1, <4>3, <4>4, <4>5 DEF Accounted
      <4>7. QED
        BY <1>10, <3>0, <4>6
    <3>4. QED
      BY <3>1, <3>2, <3>3
  <2>3. \A k \in DOMAIN answers' : answers'[k].error = "none" =>
          \E i \in DOMAIN batch : answers'[k].b = i /\ Accounted(i)'
    <3> SUFFICES ASSUME NEW k \in DOMAIN answers', answers'[k].error = "none"
                 PROVE  \E i \in DOMAIN batch : answers'[k].b = i /\ Accounted(i)'
      OBVIOUS
    <3>1. CASE \E l \in DOMAIN answers : answers[l] = answers'[k]
      <4>1. PICK l \in DOMAIN answers : answers[l] = answers'[k]
        BY <3>1
      <4>2. PICK i \in DOMAIN batch : answers[l].b = i /\ Accounted(i)
        BY <1>2, <4>1, Typed DEF Recorded
      <4>3. Accounted(i)'
        BY <1>10, <4>2
      <4>4. QED
        BY <4>1, <4>2, <4>3
    <3>2. CASE answers'[k].b \in B /\ ErrorOf(answers'[k].b) = "none"
      <4>1. PICK i \in B : answers'[k].b = i /\ ErrorOf(i) = "none"
        BY <3>2
      <4>2. Accounted(i)' /\ i \in DOMAIN batch
        BY <1>6, <2>2, <4>1
      <4>3. QED
        BY <4>1, <4>2
    <3>3. QED
      BY <3>1, <3>2
  <2>4. ASSUME managed, NEW p \in Partition, NEW j \in DOMAIN log'[p], NEW k \in DOMAIN log'[p],
               log'[p][j].b = log'[p][k].b
        PROVE  j = k
    <3>1. ~\E i \in B : Wrote(p, i) /\ \E m \in DOMAIN log[p] : log[p][m].b = i
      <4> SUFFICES ASSUME NEW i \in B, Wrote(p, i), NEW m \in DOMAIN log[p], log[p][m].b = i PROVE FALSE
        OBVIOUS
      <4>1. InLog(i) /\ Verdict(log[batch[i].tp], i) = "append"
        BY DEF InLog, Wrote
      <4>2. QED
        BY <1>6, <2>4, <4>1, WrittenBefore
    <3>2. CASE j \in DOMAIN log[p] /\ k \in DOMAIN log[p]
      BY <1>2, <1>4, <2>4, <3>2 DEF Recorded
    <3>3. CASE j \in DOMAIN log[p] /\ k \notin DOMAIN log[p]
      BY <1>4, <1>5, <2>4, <3>1, <3>3
    <3>4. CASE j \notin DOMAIN log[p] /\ k \in DOMAIN log[p]
      BY <1>4, <1>5, <2>4, <3>1, <3>4
    <3>5. CASE j \notin DOMAIN log[p] /\ k \notin DOMAIN log[p]
      <4>1. log'[p] # log[p]
        BY <3>5
      <4>2. PICK i \in B : Wrote(p, i)
        BY <1>3, <4>1
      <4>3. log[p] \in Seq(Entry(DOMAIN batch))
        BY Typed
      <4>4. DOMAIN log[p] = 1 .. Len(log[p]) /\ Len(log[p]) \in Nat
        BY <4>3
      <4> DEFINE len == Len(log[p])
      <4> HIDE DEF len
      <4>5. j \in 1 .. len + 1 /\ k \in 1 .. len + 1 /\ j \notin 1 .. len /\ k \notin 1 .. len /\ len \in Nat
        BY <3>5, <4>2, <4>4 DEF Wrote, len
      <4>6. QED
        BY <4>5
    <3>6. QED
      BY <3>2, <3>3, <3>4, <3>5
  <2>5. ASSUME guarantee_message_order, NEW p \in Partition, NEW k \in DOMAIN log'[p], NEW i \in DOMAIN batch,
               i < log'[p][k].b, batch[i].tp = p, batch[i].final = "SUCCEEDED", InLog(i)'
        PROVE  \E m \in DOMAIN log'[p] : m < k /\ log'[p][m].b = i
    <3>1. InLog(i)
      <4>1. SUFFICES ASSUME i \in B, Wrote(p, i) PROVE InLog(i)
        BY <1>9, <2>5
      <4>2. Accounted(i) /\ ~batch[i].open
        BY <1>2, <2>5 DEF Recorded, Closed
      <4>3. QED
        BY <2>5, <4>1, <4>2, WrittenBefore DEF Wrote
    <3>2. CASE k \in DOMAIN log[p]
      <4>1. i < log[p][k].b
        BY <1>4, <2>5, <3>2
      <4>2. PICK m \in DOMAIN log[p] : m < k /\ log[p][m].b = i
        BY <1>2, <2>5, <3>1, <3>2, <4>1 DEF Recorded
      <4>3. QED
        BY <1>4, <4>2
    <3>3. CASE k \notin DOMAIN log[p]
      <4>1. PICK m \in DOMAIN log[p] : log[p][m].b = i
        BY <2>5, <3>1 DEF InLog
      <4>2. QED
        BY <1>4, <1>5, <3>3, <4>1
    <3>4. QED
      BY <3>2, <3>3
  <2>6. (\A k \in DOMAIN answers : answers[k].error = "none" => Accounted(answers[k].b))'
    BY <2>3
  <2>7. QED
    BY <1>0, <1>1, <2>1, <2>4, <2>5, <2>6 DEF Recorded
<1>15. QED
  BY <1>11, <1>12, <1>13, <1>14 DEF DInv

LEMMA AnswersDeliver ==
    ASSUME IInv, DInv, NEW n \in Node, BrokerAnswers(n) \/ ConnectionLost(n)
    PROVE  DInv'
<1> DEFINE q == wire[n]
           first == q[1]
           all == UNION {q[k] : k \in DOMAIN q}
<1>1. /\ wire \in [Node -> Seq(SUBSET DOMAIN batch)] /\ q \in Seq(SUBSET DOMAIN batch) /\ q # <<>> /\ answers = <<>>
  BY Typed DEF BrokerAnswers, ConnectionLost, polling
<1>2. /\ Len(q) \in Nat /\ DOMAIN q = 1 .. Len(q) /\ 1 \in DOMAIN q /\ Head(q) = first
      /\ DOMAIN Tail(q) = 1 .. Len(q) - 1 /\ \A k \in 1 .. Len(q) - 1 : Tail(q)[k] = q[k + 1] /\ k + 1 \in DOMAIN q
      /\ \A k \in DOMAIN q : q[k] \subseteq DOMAIN batch
  BY <1>1
<1>3. UNCHANGED <<batch, queues, muted, in_flight_batches, tm, coord, mode>>
  BY DEF BrokerAnswers, ConnectionLost, accumulator
<1>4. wire' = [wire EXCEPT ![n] = Tail(@)] \/ wire' = [wire EXCEPT ![n] = <<>>]
  BY DEF BrokerAnswers, ConnectionLost
<1>5. \A o \in Node : \A k \in DOMAIN wire'[o] : \E l \in DOMAIN wire[o] : wire'[o][k] = wire[o][l]
  <2> SUFFICES ASSUME NEW o \in Node, NEW k \in DOMAIN wire'[o] PROVE \E l \in DOMAIN wire[o] : wire'[o][k] = wire[o][l]
    OBVIOUS
  <2>1. CASE o # n
    BY <1>1, <1>4, <2>1
  <2>2. CASE o = n
    <3>1. wire'[o] = Tail(q) \/ wire'[o] = <<>>
      BY <1>1, <1>4, <2>2
    <3>2. wire'[o] = Tail(q)
      BY <3>1
    <3> HIDE DEF q
    <3>3. k \in 1 .. Len(q) - 1 /\ wire'[o][k] = q[k + 1] /\ k + 1 \in DOMAIN q
      BY <1>2, <3>2
    <3>4. QED
      BY <2>2, <3>3 DEF q
  <2>3. QED
    BY <2>1, <2>2
<1>6. \A i \in all : OnWire(i)
  BY DEF OnWire
<1>7. first \subseteq all /\ all \subseteq DOMAIN batch
  BY <1>2
<1>8. \A i, j \in first : Related(i, j) => i = j
  BY <1>2 DEF DInv, Closed
<1>9. ASSUME NEW B \in SUBSET first, log' = WithBatches(B), stray' \subseteq stray \cup all,
             \A k \in DOMAIN answers' :
                 /\ answers'[k].b \in all
                 /\ answers'[k].error = "none" => answers'[k].b \in B /\ ErrorOf(answers'[k].b) = "none"
      PROVE  DInv'
  <2>1. \A i : OnWire(i)' => OnWire(i)
    BY <1>5 DEF OnWire
  <2>2. \A i : HasAnswer(i)' => OnWire(i)
    BY <1>6, <1>9 DEF HasAnswer
  <2>3. \A i : UnderWay(i)' => UnderWay(i)
    BY <1>3, <2>1, <2>2 DEF UnderWay
  <2>4. \A i \in stray' : UnderWay(i) \/ i \in stray
    BY <1>6, <1>9 DEF UnderWay
  <2>5. B \in SUBSET DOMAIN batch /\ (\A i, j \in B : Related(i, j) => i = j) /\ \A i \in B : UnderWay(i) \/ i \in stray
    BY <1>6, <1>7, <1>8, <1>9 DEF UnderWay
  <2> HIDE DEF all, first
  <2>6. QED
    BY <1>3, <1>5, <1>9, <2>3, <2>4, <2>5, WrittenStep
<1>10. CASE BrokerAnswers(n)
  <2> DEFINE s == answers'
  <2>1. \/ s \in InSomeOrder(first, ErrorOf, Only) /\ log' = WithBatches(first)
        \/ \E i \in first, e \in {"not_leader", "unauthorized"} :
              /\ s \in InSomeOrder(first, LAMBDA j : IF j = i THEN e ELSE ErrorOf(j), Only)
              /\ log' = WithBatches(first \ {i})
    BY <1>2, <1>10 DEF BrokerAnswers
  <2>2. stray' = stray
    BY <1>10 DEF BrokerAnswers
  <2>3. CASE s \in InSomeOrder(first, ErrorOf, Only) /\ log' = WithBatches(first)
    <3> HIDE DEF first
    <3>1. PICK f \in Orders(first) :
              s = [k \in DOMAIN f |-> [b |-> f[k], error |-> ErrorOf(f[k]), request |-> 1]]
      BY <2>3, InOrders DEF InSomeOrder, Only
    <3>2. f \in [1 .. Cardinality(first) -> first]
      BY DEF Orders
    <3> HIDE DEF s
    <3>3. \A k \in DOMAIN s : s[k].b \in first /\ s[k].error = ErrorOf(s[k].b)
      BY <3>1, <3>2
    <3>4. QED
      BY <1>7, <1>9, <2>2, <2>3, <3>3 DEF s
  <2>4. ASSUME NEW i \in first, NEW e \in {"not_leader", "unauthorized"},
               s \in InSomeOrder(first, LAMBDA j : IF j = i THEN e ELSE ErrorOf(j), Only), log' = WithBatches(first \ {i})
        PROVE  DInv'
    <3> HIDE DEF first
    <3>1. PICK f \in Orders(first) :
              s = [k \in DOMAIN f |->
                     [b |-> f[k], error |-> IF f[k] = i THEN e ELSE ErrorOf(f[k]), request |-> 1]]
      BY <2>4, InOrders DEF InSomeOrder, Only
    <3>2. f \in [1 .. Cardinality(first) -> first]
      BY DEF Orders
    <3> HIDE DEF s
    <3>3. \A k \in DOMAIN s : s[k].b \in first /\ s[k].error = IF s[k].b = i THEN e ELSE ErrorOf(s[k].b)
      BY <3>1, <3>2
    <3>4. \A k \in DOMAIN s : s[k].error = "none" => s[k].b \in first \ {i} /\ ErrorOf(s[k].b) = "none"
      BY <3>3
    <3>5. QED
      BY <1>7, <1>9, <2>2, <2>4, <3>3, <3>4 DEF s
  <2>5. QED
    BY <2>1, <2>3, <2>4
<1>11. CASE ConnectionLost(n)
  <2> DEFINE s == answers'
  <2>1. s \in InSomeOrder(all, LAMBDA i : "disconnected", LAMBDA i : CHOOSE k \in DOMAIN q : i \in q[k])
    BY <1>11 DEF ConnectionLost
  <2>2. \A k \in DOMAIN s : s[k].b \in all /\ s[k].error = "disconnected"
    <3> HIDE DEF all
    <3> DEFINE R(i) == CHOOSE k \in DOMAIN q : i \in q[k]
    <3>1. PICK f \in Orders(all) : s = [k \in DOMAIN f |-> [b |-> f[k], error |-> "disconnected", request |-> R(f[k])]]
      <4>1. s \in {[k \in DOMAIN f |-> [b |-> f[k], error |-> "disconnected", request |-> R(f[k])]] :
                     f \in {g \in [1 .. Cardinality(all) -> all] :
                              \A j, k \in DOMAIN g : j < k => g[j] # g[k] /\ R(g[j]) <= R(g[k])}}
        BY <2>1 DEF InSomeOrder
      <4> HIDE DEF s, R
      <4>2. QED
        BY <4>1, InOrders
    <3>2. f \in [1 .. Cardinality(all) -> all]
      BY DEF Orders
    <3> HIDE DEF s, R
    <3>3. QED
      BY <3>1, <3>2
  <2>3. CASE log' = WithBatches(wire[n][1]) /\ stray' = stray
    BY <1>9, <2>2, <2>3
  <2>4. CASE log' = log /\ stray' = stray \cup all
    <3>1. WithBatches({}) = log
      <4>1. log \in [Partition -> Seq(Entry(DOMAIN batch))]
        BY Typed
      <4>2. QED
        BY <4>1 DEF WithBatches
    <3>2. log' = WithBatches({})
      BY <2>4, <3>1
    <3> HIDE DEF all, first, s
    <3>3. {} \in SUBSET first /\ stray' \subseteq stray \cup all
      BY <2>4
    <3>4. QED
      BY <1>9, <2>2, <3>2, <3>3 DEF s
  <2>5. QED
    BY <1>11, <2>3, <2>4 DEF ConnectionLost
<1>12. QED
  BY <1>10, <1>11

LEMMA StrayDelivers == ASSUME IInv, DInv, StrayWritten PROVE DInv'
<1>1. UNCHANGED <<batch, queues, muted, in_flight_batches, tm, coord, mode, wire, answers>>
  BY DEF StrayWritten, accumulator
<1>2. PICK i \in stray : stray' = stray \ {i} /\ log' = WithBatches({i})
  BY DEF StrayWritten
<1>3. \A j : UnderWay(j)' => UnderWay(j)
  BY <1>1 DEF UnderWay, OnWire, HasAnswer
<1>4. {i} \in SUBSET DOMAIN batch
  BY <1>2, Typed
<1>5. QED
  BY <1>1, <1>2, <1>3, <1>4, WrittenStep

LEMMA QuietManager ==
    ASSUME IInv, DInv, UNCHANGED <<batch, queues, muted, in_flight_batches, wire, answers, brokers, mode>>,
           Like(tm, tm') \/ tm'.pid = 0
    PROVE  DInv'
<1>1. SameLog
  BY DEF SameLog, brokers
<1>2. NumbersMove
  <2>1. coord' = coord /\ coord.pid \in Nat
    BY Typed DEF brokers
  <2>2. QED
    BY <2>1 DEF NumbersMove
<1>3. QED
  BY <1>1, <1>2, QuietStep DEF brokers

LEMMA CallsQuiet == ASSUME IInv, DInv, Application, ~append PROVE DInv'
<1>1. UNCHANGED <<batch, queues, muted, in_flight_batches, wire, answers, brokers, mode>>
  BY DEF Application, send, flush, await_flush_completion, flush_times_out, join, init_transactions, begin,
         commit_transaction, abort_transaction, offsets_to_transaction, call_returns, calls_manager, accumulator
<1>2. HasNumbers(tm) /\ Like(tm, tm)
  BY Typed DEF Like
<1>3. initialize_transactions(tm).pid = 0
  <2> DEFINE n == [reset_producer_id(tm) EXCEPT !.state = "INITIALIZING", !.results["init"] = "pending"]
  <2>1. n.pid = 0 /\ HasNumbers(n)
    BY <1>2 DEF reset_producer_id, HasNumbers
  <2> HIDE DEF n
  <2>2. \A r : _enqueue_request(n, r).pid = 0
    BY <2>1, LikeEnqueue DEF Like
  <2>3. QED
    BY <2>2 DEF initialize_transactions, n
<1>4. Like(tm, tm') \/ tm'.pid = 0
  <2>1. CASE \E p \in Partition : send(p)
    BY <1>2, <2>1, LikeState DEF send
  <2>2. CASE \/ flush("flush") \/ flush("close") \/ await_flush_completion \/ flush_times_out \/ join \/ call_returns
    BY <1>2, <2>2 DEF flush, await_flush_completion, flush_times_out, join, call_returns
  <2>3. CASE init_transactions
    BY <1>2, <1>3, <2>3 DEF init_transactions
  <2>4. CASE begin \/ commit_transaction \/ abort_transaction \/ offsets_to_transaction
    BY <1>2, <2>4, LikeState, LikeEnding DEF begin, commit_transaction, abort_transaction, offsets_to_transaction
  <2>5. QED
    BY <2>1, <2>2, <2>3, <2>4 DEF Application
<1>5. QED
  BY <1>1, <1>4, QuietManager

LEMMA LikeAsked == ASSUME IInv PROVE Like(tm, after_asking) /\ HasNumbers(after_asking)
<1>1. HasNumbers(tm) /\ Like(tm, tm)
  BY Typed DEF Like
<1>2. Like(tm, next_request_handler(tm, incomplete # {}).tm)
  BY <1>1, LikeNext
<1>3. Like(tm, after_asking)
  BY <1>1, <1>2 DEF after_asking
<1>4. QED
  BY <1>1, <1>3, LikeLike

LEMMA SenderQuiet ==
    ASSUME IInv, DInv, \/ waits_for_producer_id \/ _maybe_wait_for_producer_id \/ _maybe_send_transactional_request
                       \/ request_sent \/ request_put_off \/ only_polls \/ poll_returns
                       \/ (run_ends /\ ~sender.force)
    PROVE  DInv'
<1>0. HasNumbers(tm) /\ Like(tm, tm)
  BY Typed DEF Like
<1>1. CASE waits_for_producer_id \/ poll_returns
  <2>1. UNCHANGED <<batch, queues, muted, in_flight_batches, wire, answers, brokers, mode, tm>>
    BY <1>1 DEF waits_for_producer_id, poll_returns, accumulator
  <2>2. QED
    BY <1>0, <2>1, QuietManager
<1>2. CASE _maybe_wait_for_producer_id
  <2>1. UNCHANGED <<batch, queues, muted, in_flight_batches, wire, answers, stray, log, mode>>
    BY <1>2 DEF _maybe_wait_for_producer_id, accumulator
  <2>2. SameLog
    BY <2>1 DEF SameLog
  <2>3. coord.pid \in Nat /\ DOMAIN coord = {"pid", "parts", "fenced"}
    BY Typed DEF IInv
  <2>4. NumbersMove
    <3>1. CASE coord' = [coord EXCEPT !.pid = @ + 1] /\ tm' = set_producer_id_and_epoch(tm, coord.pid + 1)
      <4>1. coord'.pid = coord.pid + 1 /\ coord'.fenced = coord.fenced
        BY <2>3, <3>1
      <4>2. tm'.pid = coord.pid + 1
        BY <1>0, <3>1 DEF set_producer_id_and_epoch, HasNumbers
      <4>3. QED
        BY <2>3, <4>1, <4>2 DEF NumbersMove
    <3>2. CASE coord' = coord /\ tm' = transition_to_fatal_error(tm)
      <4>1. Like(tm, tm')
        BY <1>0, <3>2, LikeState
      <4>2. QED
        BY <2>3, <3>2, <4>1 DEF NumbersMove
    <3>3. QED
      BY <1>2, <3>1, <3>2 DEF _maybe_wait_for_producer_id
  <2>5. QED
    BY <2>1, <2>2, <2>4, QuietStep
<1>3. CASE _maybe_send_transactional_request
  <2>1. UNCHANGED <<batch, queues, muted, in_flight_batches, wire, answers, brokers, mode>>
    BY <1>3 DEF _maybe_send_transactional_request
  <2>2. Like(tm, tm')
    BY <1>0, <1>3, LikeNext DEF _maybe_send_transactional_request
  <2>3. QED
    BY <2>1, <2>2, QuietManager
<1>4. CASE request_sent
  <2>1. UNCHANGED <<batch, queues, muted, in_flight_batches, wire, answers, brokers, mode>>
    BY <1>4 DEF request_sent, accumulator
  <2>2. Like(tm, tm')
    BY <1>0, <1>4, LikeOther DEF request_sent
  <2>3. QED
    BY <2>1, <2>2, QuietManager
<1>5. CASE request_put_off
  <2>1. UNCHANGED <<batch, queues, muted, in_flight_batches, wire, answers, brokers, mode>>
    BY <1>5 DEF request_put_off, accumulator
  <2>2. Like(tm, tm')
    BY <1>0, <1>5, LikeReenqueue DEF request_put_off
  <2>3. QED
    BY <2>1, <2>2, QuietManager
<1>6. CASE only_polls
  <2>1. UNCHANGED <<batch, queues, muted, in_flight_batches, wire, answers, brokers, mode>>
    BY <1>6 DEF only_polls
  <2>2. tm' \in {tm, after_asking}
    BY <1>6 DEF only_polls
  <2>3. QED
    BY <1>0, <2>1, <2>2, LikeAsked, QuietManager
<1>7. CASE run_ends /\ ~sender.force
  <2>1. UNCHANGED <<batch, queues, muted, in_flight_batches, wire, answers, brokers, mode, tm>>
    BY <1>7 DEF run_ends
  <2>2. QED
    BY <1>0, <2>1, QuietManager
<1>8. QED
  BY <1>1, <1>2, <1>3, <1>4, <1>5, <1>6, <1>7

LEMMA EndedSame == ASSUME IInv, NEW parts, NEW mark, log' = Ended(parts, mark) PROVE SameLog
<1>1. ASSUME NEW p \in Partition, NEW k \in DOMAIN log[p] PROVE log'[p][k].b = log[p][k].b
  <2>1. log'[p][k] = IF p \in parts /\ log[p][k].mark = "open" THEN [log[p][k] EXCEPT !.mark = mark] ELSE log[p][k]
    BY <1>1 DEF Ended
  <2>2. log[p] \in Seq(Entry(DOMAIN batch))
    BY Typed
  <2>3. log[p][k] \in Entry(DOMAIN batch)
    BY <1>1, <2>2
  <2>4. QED
    BY <2>1, <2>3 DEF Entry
<1>2. \A p \in Partition : DOMAIN log'[p] = DOMAIN log[p]
  BY DEF Ended
<1>3. QED
  BY <1>1, <1>2 DEF SameLog

LEMMA CoordinatorQuiet ==
    ASSUME IInv, DInv, CoordinatorAnswers \/ OtherProducer
    PROVE  DInv'
<1>0. coord.pid \in Nat /\ DOMAIN coord = {"pid", "parts", "fenced"} /\ HasNumbers(tm)
  BY Typed DEF IInv
<1>1. UNCHANGED <<batch, queues, muted, in_flight_batches, wire, answers, stray, mode>>
  BY DEF CoordinatorAnswers, OtherProducer, accumulator
<1>2. log' = log => SameLog
  BY DEF SameLog
<1>3. CASE CoordinatorAnswers
  <2> DEFINE r == tm.in_flight
  <2>1. \/ Effect(r) /\ tm' = on_complete(tm, "answered", "none", coord.pid + 1)
        \/ /\ Effect(r) \/ (log' = log /\ coord' = coord)
           /\ \/ \E e \in Errors \ {"none"} : tm' = on_complete(tm, "answered", e, 0)
              \/ tm' = on_complete(tm, "failed", "none", 0)
              \/ tm' = on_complete(tm, "lost", "none", 0)
    BY <1>3 DEF CoordinatorAnswers, Errors
  <2>2. ASSUME Effect(r)
        PROVE  /\ SameLog /\ coord'.fenced = coord.fenced
               /\ coord'.pid = IF r.kind = "InitProducerId" THEN coord.pid + 1 ELSE coord.pid
    <3> HIDE DEF r
    <3>1. CASE r.kind = "InitProducerId"
      <4>1. log' = Ended(coord.parts, "aborted") /\ coord' = [coord EXCEPT !.pid = @ + 1, !.parts = {}]
        BY <2>2, <3>1 DEF Effect
      <4>2. SameLog
        BY <4>1, EndedSame
      <4>3. QED
        BY <1>0, <3>1, <4>1, <4>2
    <3>2. CASE r.kind # "InitProducerId"
      <4>1. \/ log' = log /\ (coord' = coord \/ coord' = [coord EXCEPT !.parts = @ \cup r.parts])
            \/ /\ \E mark : log' = Ended(coord.parts, mark)
               /\ coord' = [coord EXCEPT !.parts = {}]
        BY <2>2, <3>2 DEF Effect
      <4>2. SameLog
        BY <1>2, <4>1, EndedSame
      <4>3. QED
        BY <1>0, <3>2, <4>1, <4>2
    <3>3. QED
      BY <3>1, <3>2
  <2>3. SameLog /\ coord'.pid \in Nat /\ coord.pid <= coord'.pid /\ coord'.fenced = coord.fenced
    <3> HIDE DEF r
    <3>1. CASE Effect(r)
      BY <1>0, <2>2, <3>1
    <3>2. CASE log' = log /\ coord' = coord
      BY <1>0, <1>2, <3>2
    <3>3. QED
      BY <2>1, <3>1, <3>2
  <2>4. Like(tm, tm') \/ (tm'.pid = coord.pid + 1 /\ coord'.pid = coord.pid + 1)
    <3>1. CASE Effect(r) /\ tm' = on_complete(tm, "answered", "none", coord.pid + 1)
      BY <1>0, <2>2, <3>1, LikeCompleted
    <3>2. CASE \/ \E e \in Errors \ {"none"} : tm' = on_complete(tm, "answered", e, 0)
               \/ tm' = on_complete(tm, "failed", "none", 0)
               \/ tm' = on_complete(tm, "lost", "none", 0)
      BY <1>0, <3>2, LikeCompleted
    <3>3. QED
      BY <2>1, <3>1, <3>2
  <2>5. QED
    BY <1>1, <2>3, <2>4, QuietStep DEF NumbersMove
<1>4. CASE OtherProducer
  <2>1. SameLog
    BY <1>4, EndedSame DEF OtherProducer
  <2>2. coord'.pid = coord.pid /\ transactional /\ tm' = tm
    BY <1>0, <1>4 DEF OtherProducer
  <2>3. NumbersMove
    BY <1>0, <2>2 DEF NumbersMove, Like
  <2>4. QED
    BY <1>1, <2>1, <2>3, QuietStep
<1>5. QED
  BY <1>3, <1>4

LEMMA TimeQuiet == ASSUME IInv, DInv, TimePasses \/ UNCHANGED vars PROVE DInv'
<1>1. UNCHANGED <<batch, queues, muted, in_flight_batches, wire, answers, brokers, mode, tm>>
  BY DEF TimePasses, vars, accumulator
<1>2. Like(tm, tm')
  BY <1>1 DEF Like
<1>3. QED
  BY <1>1, <1>2, QuietManager

-----------------------------------------------------------------------------
(* Steps that change batches.                                                 *)

\* What a batch keeps, once it is closed and once it has its result.
Frozen ==
    /\ DOMAIN batch \subseteq DOMAIN batch'
    /\ \A i \in DOMAIN batch :
          /\ batch'[i].tp = batch[i].tp
          /\ ~batch[i].open => /\ ~batch'[i].open /\ batch'[i].pid = batch[i].pid /\ batch'[i].seq = batch[i].seq
                               /\ batch'[i].count = batch[i].count
          /\ batch[i].final # "none" => batch'[i].final = batch[i].final

LEMMA ClosedKept ==
    ASSUME IInv, DInv, Frozen, UNCHANGED <<log, stray>>,
           \A i \in DOMAIN batch' :
               /\ UnderWay(i)' => (i \in DOMAIN batch /\ UnderWay(i)) \/ ~batch'[i].open
               /\ batch'[i].final = "SUCCEEDED" => i \in DOMAIN batch /\ (batch[i].final = "SUCCEEDED" \/ HasAnswer(i))
               /\ i \notin DOMAIN batch => i \notin stray /\ ~InLog(i)',
           \A i \in InQueues(queues') : batch'[i].open <=> ~batch'[i].retry,
           \A n \in Node : \A k \in DOMAIN wire'[n] : \A i, j \in wire'[n][k] : batch'[i].tp = batch'[j].tp => i = j
    PROVE  Closed'
<1>1. Closed
  BY DEF DInv
<1>2. ASSUME NEW i \in DOMAIN batch', UnderWay(i)' \/ i \in stray' \/ InLog(i)' \/ batch'[i].final = "SUCCEEDED"
      PROVE  ~batch'[i].open
  <2>1. CASE i \in DOMAIN batch
    <3>1. InLog(i)' => InLog(i)
      BY <2>1 DEF InLog, Frozen
    <3>2. UnderWay(i) \/ i \in stray \/ InLog(i) \/ batch[i].final = "SUCCEEDED" \/ ~batch'[i].open
      BY <1>2, <2>1, <3>1 DEF UnderWay
    <3>3. QED
      BY <1>1, <2>1, <3>2 DEF Closed, Frozen
  <2>2. CASE i \notin DOMAIN batch
    BY <1>2, <2>2
  <2>3. QED
    BY <2>1, <2>2
<1>3. \A p \in Partition : \A k \in DOMAIN log'[p] : batch'[log'[p][k].b].tp = p
  BY <1>1, Typed DEF Closed, Frozen
<1>4. (\A i \in InQueues(queues) : batch[i].open <=> ~batch[i].retry)'
  BY DEF InQueues
<1>5. QED
  BY <1>2, <1>3, <1>4 DEF Closed, Related

LEMMA OneByOneKept ==
    ASSUME IInv, DInv, Frozen, mode' = mode,
           \A i, j \in DOMAIN batch' : i < j /\ j \in DOMAIN batch => i \in DOMAIN batch,
           guarantee_message_order =>
               /\ \A j \in DOMAIN batch' : ~batch'[j].open =>
                      /\ j \in DOMAIN batch
                      /\ ~batch[j].open \/ \A i \in DOMAIN batch : i < j /\ Related(i, j) => batch[i].final # "none"
               /\ \A p \in Partition : Rising(queues'[p])
               /\ \A i \in DOMAIN batch' : UnderWay(i)' => batch'[i].tp \in muted'
               /\ \A i, j \in DOMAIN batch' : UnderWay(i)' /\ UnderWay(j)' /\ batch'[i].tp = batch'[j].tp => i = j
    PROVE  OneByOne'
<1>1. guarantee_message_order' <=> guarantee_message_order
  BY DEF guarantee_message_order
<1>2. guarantee_message_order => \A i, j \in DOMAIN batch : i < j /\ Related(i, j) /\ ~batch[j].open => batch[i].final # "none"
  BY DEF DInv, OneByOne
<1>3. ASSUME guarantee_message_order, NEW i \in DOMAIN batch', NEW j \in DOMAIN batch', i < j,
             batch'[i].tp = batch'[j].tp, ~batch'[j].open
      PROVE  batch'[i].final # "none"
  <2>1. j \in DOMAIN batch /\ i \in DOMAIN batch
    BY <1>3
  <2>2. Related(i, j)
    BY <1>3, <2>1 DEF Frozen, Related
  <2>3. batch[i].final # "none"
    BY <1>2, <1>3, <2>1, <2>2
  <2>4. QED
    BY <2>1, <2>3 DEF Frozen
<1>4. QED
  BY <1>1, <1>3 DEF OneByOne, Related

LEMMA RecordedKept ==
    ASSUME IInv, DInv, Frozen, UNCHANGED <<log, mode>>,
           \A k \in DOMAIN answers' : \E l \in DOMAIN answers : answers'[k] = answers[l],
           \A i \in DOMAIN batch' : batch'[i].final = "SUCCEEDED" =>
               /\ i \in DOMAIN batch
               /\ batch[i].final = "SUCCEEDED" \/ (batch[i].final = "none" /\ HasAnswer(i) /\ Accounted(i))
    PROVE  Recorded'
<1>0. Closed /\ OneByOne /\ Numbered /\ Recorded
  BY DEF DInv
<1>1. (managed' <=> managed) /\ (guarantee_message_order' <=> guarantee_message_order)
  BY DEF managed, guarantee_message_order
<1>2. \A i \in DOMAIN batch : InLog(i)' <=> InLog(i)
  BY DEF InLog, Frozen
<1>3. ASSUME NEW i \in DOMAIN batch, ~batch[i].open, Accounted(i) PROVE Accounted(i)'
  <2>1. PICK j \in DOMAIN batch : InLog(j) /\ (i = j \/ (batch[i].pid # 0 /\ SameNumber(i, j) /\ batch[i].count = batch[j].count))
    BY <1>3 DEF Accounted
  <2>2. ~batch[j].open /\ j \in DOMAIN batch' /\ InLog(j)'
    BY <1>0, <1>2, <2>1 DEF Closed, Frozen
  <2>3. i = j \/ (batch[i].pid # 0 /\ SameNumber(i, j) /\ batch[i].count = batch[j].count)'
    BY <1>3, <2>1, <2>2 DEF Frozen, SameNumber, Related
  <2>4. QED
    BY <2>2, <2>3 DEF Accounted
<1>4. \A i \in DOMAIN batch : batch[i].final = "SUCCEEDED" \/ HasAnswer(i) => ~batch[i].open
  BY <1>0 DEF Closed, UnderWay
<1>5. \A i \in DOMAIN batch' : batch'[i].final = "SUCCEEDED" => Accounted(i)'
  BY <1>0, <1>3, <1>4 DEF Recorded
<1>6. \A k \in DOMAIN answers' : answers'[k].error = "none" => \E i \in DOMAIN batch : answers'[k].b = i /\ Accounted(i)'
  <2> SUFFICES ASSUME NEW k \in DOMAIN answers', answers'[k].error = "none"
               PROVE  \E i \in DOMAIN batch : answers'[k].b = i /\ Accounted(i)'
    OBVIOUS
  <2>1. PICK l \in DOMAIN answers : answers'[k] = answers[l]
    OBVIOUS
  <2>2. PICK i \in DOMAIN batch : answers[l].b = i /\ Accounted(i)
    BY <1>0, <2>1, Typed DEF Recorded
  <2>3. HasAnswer(i)
    BY <2>2 DEF HasAnswer
  <2>4. QED
    BY <1>3, <1>4, <2>1, <2>2, <2>3
<1>7. (\A k \in DOMAIN answers : answers[k].error = "none" => Accounted(answers[k].b))'
  BY <1>6
<1>8. ASSUME guarantee_message_order, NEW p \in Partition, NEW k \in DOMAIN log[p], NEW i \in DOMAIN batch',
             i < log[p][k].b, batch'[i].tp = p, batch'[i].final = "SUCCEEDED", InLog(i)'
      PROVE  \E m \in DOMAIN log[p] : m < k /\ log[p][m].b = i
  <2>1. i \in DOMAIN batch /\ batch[i].tp = p /\ InLog(i)
    BY <1>2, <1>8 DEF Frozen
  <2>2. PICK j \in DOMAIN batch : log[p][k].b = j
    BY <1>8, Typed
  <2>3. batch[j].tp = p
    BY <1>0, <2>2 DEF Closed
  <2>4. InLog(j)
    BY <1>8, <2>2, <2>3 DEF InLog
  <2>5. ~batch[j].open /\ Related(i, j)
    BY <1>0, <2>1, <2>3, <2>4 DEF Closed, Related
  <2>6. batch[i].final = "SUCCEEDED"
    BY <1>0, <1>8, <2>1, <2>2, <2>5 DEF OneByOne
  <2>7. QED
    BY <1>0, <1>8, <2>1, <2>6 DEF Recorded
<1>9. (managed => \A p \in Partition : \A j, k \in DOMAIN log[p] : log[p][j].b = log[p][k].b => j = k)'
  BY <1>0, <1>1 DEF Recorded
<1>10. QED
  BY <1>1, <1>5, <1>7, <1>8, <1>9 DEF Recorded

\* A batch that is closed now has the manager's number, which is not the number of another.
Fresh(i) ==
    /\ batch'[i].pid = tm.pid /\ tm.pid # 0 /\ batch'[i].seq = tm.seq[batch[i].tp] /\ batch'[i].final # "SUCCEEDED"
    /\ \A j \in DOMAIN batch' : j # i /\ ~batch'[j].open /\ batch'[j].tp = batch'[i].tp =>
          j \in DOMAIN batch /\ ~batch[j].open /\ batch[j].final # "none"
LEMMA NumberedKept ==
    ASSUME IInv, DInv, Frozen, UNCHANGED <<coord, mode>>,
           tm'.pid = 0 \/ (tm'.pid = tm.pid /\ \A p \in Partition : tm'.seq[p] \in Nat /\ tm.seq[p] <= tm'.seq[p]),
           ~managed => \A i \in DOMAIN batch' : batch'[i].pid = 0,
           managed => \A i \in DOMAIN batch' :
               /\ ~batch'[i].open => i \in DOMAIN batch /\ (~batch[i].open \/ Fresh(i))
               /\ batch'[i].final = "SUCCEEDED" /\ batch[i].final # "SUCCEEDED" /\ batch[i].pid = tm.pid /\ tm'.pid # 0 =>
                      batch[i].seq + batch[i].count <= tm'.seq[batch[i].tp]
    PROVE  Numbered'
<1>0. Numbered
  BY DEF DInv
<1>1. (managed' <=> managed) /\ (transactional' <=> transactional) /\ coord' = coord
  BY DEF managed, transactional
<1>2. tm'.pid <= coord'.pid /\ (coord'.fenced => transactional')
  BY <1>0, <1>1, Typed DEF Numbered
<1>3. ASSUME managed, NEW i \in DOMAIN batch', ~batch'[i].open PROVE batch'[i].pid \in 1 .. coord.pid
  <2>1. CASE ~batch[i].open
    BY <1>0, <1>3, <2>1 DEF Numbered, Frozen
  <2>2. CASE Fresh(i)
    BY <1>0, <2>2, Typed DEF Numbered, Fresh
  <2>3. QED
    BY <1>3, <2>1, <2>2
<1>4. ASSUME managed, NEW i \in DOMAIN batch', ~batch'[i].open, batch'[i].pid = tm'.pid
      PROVE  /\ batch'[i].seq <= tm'.seq[batch'[i].tp]
             /\ batch'[i].final = "SUCCEEDED" => batch'[i].seq + batch'[i].count <= tm'.seq[batch'[i].tp]
  <2>1. tm'.pid = tm.pid /\ tm'.pid # 0
    BY <1>3, <1>4, Typed
  <2>2. i \in DOMAIN batch /\ batch'[i].tp = batch[i].tp /\ batch[i].tp \in Partition
    BY <1>4, Typed DEF Frozen
  <2> DEFINE s == tm.seq[batch[i].tp]
             t == tm'.seq[batch[i].tp]
  <2>3. s \in Nat /\ t \in Nat /\ s <= t
    BY <2>1, <2>2, Typed
  <2> HIDE DEF s, t
  <2>4. CASE ~batch[i].open
    <3>1. batch'[i].pid = batch[i].pid /\ batch'[i].seq = batch[i].seq /\ batch'[i].count = batch[i].count
      BY <2>2, <2>4 DEF Frozen
    <3>2. batch[i].seq <= s /\ (batch[i].final = "SUCCEEDED" => batch[i].seq + batch[i].count <= s)
      BY <1>0, <1>4, <2>1, <2>2, <2>4, <3>1 DEF Numbered, s
    <3>3. batch'[i].final = "SUCCEEDED" /\ batch[i].final # "SUCCEEDED" => batch[i].seq + batch[i].count <= t
      BY <1>4, <2>1, <3>1 DEF t
    <3>4. batch[i].seq \in Nat /\ batch[i].count \in Nat
      BY <2>2, Typed
    <3>5. batch[i].seq <= t /\ (batch'[i].final = "SUCCEEDED" => batch[i].seq + batch[i].count <= t)
      BY <2>3, <3>2, <3>3, <3>4
    <3>6. QED
      BY <2>2, <3>1, <3>5 DEF t
  <2>5. CASE Fresh(i)
    BY <2>2, <2>3, <2>5 DEF Fresh, s, t
  <2>6. QED
    BY <1>4, <2>4, <2>5
<1>5. ASSUME managed, NEW i \in DOMAIN batch', NEW j \in DOMAIN batch', ~batch'[i].open, ~batch'[j].open, i # j,
             batch'[i].tp = batch'[j].tp, batch'[i].pid = batch'[j].pid, batch'[i].seq = batch'[j].seq, Fresh(i)
      PROVE  batch'[j].final \in {"FAILED", "ABORTED"}
  <2>1. i \in DOMAIN batch /\ j \in DOMAIN batch /\ ~batch[j].open /\ batch[j].final # "none"
    BY <1>5 DEF Fresh
  <2>2. batch'[j].final = batch[j].final /\ batch[j].pid = tm.pid /\ batch[j].seq = tm.seq[batch[j].tp]
    BY <1>5, <2>1 DEF Frozen, Fresh
  <2>3. batch[j].final # "SUCCEEDED"
    <3> DEFINE s == tm.seq[batch[j].tp]
    <3>0. s \in Nat
      BY <2>1, Typed
    <3> HIDE DEF s
    <3>1. batch[j].final = "SUCCEEDED" => batch[j].seq + batch[j].count <= s
      BY <1>0, <1>5, <2>1, <2>2 DEF Numbered, s
    <3>2. batch[j].seq = s /\ batch[j].count \in Nat \ {0}
      BY <2>1, <2>2, Typed DEF s
    <3>3. QED
      BY <3>0, <3>1, <3>2
  <2>4. QED
    BY <2>1, <2>2, <2>3, Typed
<1>6. ASSUME managed, NEW i \in DOMAIN batch', NEW j \in DOMAIN batch', ~batch'[i].open, ~batch'[j].open, i # j,
             batch'[i].tp = batch'[j].tp, batch'[i].pid = batch'[j].pid, batch'[i].seq = batch'[j].seq
      PROVE  batch'[i].final \in {"FAILED", "ABORTED"} \/ batch'[j].final \in {"FAILED", "ABORTED"}
  <2>1. CASE Fresh(i) \/ Fresh(j)
    BY <1>5, <1>6, <2>1
  <2>2. CASE ~Fresh(i) /\ ~Fresh(j)
    <3>1. i \in DOMAIN batch /\ j \in DOMAIN batch /\ ~batch[i].open /\ ~batch[j].open
      BY <1>6, <2>2
    <3>2. SameNumber(i, j)
      BY <1>6, <3>1 DEF SameNumber, Related, Frozen
    <3>3. GivenUp(i) \/ GivenUp(j)
      BY <1>0, <1>6, <3>1, <3>2 DEF Numbered
    <3>4. QED
      BY <3>1, <3>3 DEF GivenUp, Frozen
  <2>3. QED
    BY <2>1, <2>2
<1>7. QED
  BY <1>1, <1>2, <1>3, <1>4, <1>6 DEF Numbered, SameNumber, Related, GivenUp

\* What is under way, or may still be read, is a batch.
LEMMA BatchesSent ==
    ASSUME IInv
    PROVE  /\ \A i : UnderWay(i) \/ i \in stray => i \in DOMAIN batch
           /\ \A n \in Node : \A k \in DOMAIN wire[n] : wire[n][k] \subseteq DOMAIN batch
<1>1. \A n \in Node : wire[n] \in Seq(SUBSET DOMAIN batch)
  BY Typed
<1>2. \A n \in Node : \A k \in DOMAIN wire[n] : wire[n][k] \subseteq DOMAIN batch
  BY <1>1
<1>3. \A i : OnWire(i) => i \in DOMAIN batch
  BY <1>2 DEF OnWire
<1>4. \A i : HasAnswer(i) \/ i \in stray \/ i \in in_flight_batches => i \in DOMAIN batch
  BY Typed DEF HasAnswer
<1>5. QED
  BY <1>2, <1>3, <1>4 DEF UnderWay

LEMMA AppendDelivers == ASSUME IInv, DInv, append PROVE DInv'
<1> DEFINE p == app.tp
           last == queues[p][Len(queues[p])]
           new == Len(batch) + 1
           x == ProducerBatch(p)
           rs == [queues EXCEPT ![p] = Append(@, new)]
<1>0. Closed /\ OneByOne /\ Numbered
  BY DEF DInv
<1>1. /\ p \in Partition /\ batch \in Seq(BatchRecord) /\ Placed(batch, queues, incomplete, in_flight_batches)
      /\ queues \in [Partition -> Seq(DOMAIN batch)] /\ DOMAIN batch = 1 .. Len(batch) /\ Len(batch) \in Nat
  BY Typed DEF append, IInv, Calls
<1>2. UNCHANGED <<muted, in_flight_batches, wire, answers, stray, log, tm, coord, mode>>
  BY DEF append, brokers
<1>3. \/ /\ queues[p] # <<>> /\ try_append(last) /\ batch' = [batch EXCEPT ![last].count = @ + 1] /\ queues' = queues
      \/ batch' = Append(batch, x) /\ queues' = rs
  BY DEF append
<1>4. guarantee_message_order => \A q \in Partition : Rising(queues[q])
  BY <1>0 DEF OneByOne
<1>5. /\ DOMAIN batch \subseteq DOMAIN batch'
      /\ \A i \in DOMAIN batch :
            /\ batch'[i].tp = batch[i].tp /\ batch'[i].open = batch[i].open /\ batch'[i].retry = batch[i].retry
            /\ batch'[i].pid = batch[i].pid /\ batch'[i].seq = batch[i].seq /\ batch'[i].final = batch[i].final
            /\ ~batch[i].open => batch'[i].count = batch[i].count
      /\ \A i \in DOMAIN batch' : i \notin DOMAIN batch =>
            /\ i = new /\ batch'[i].tp \in Partition /\ batch'[i].open /\ ~batch'[i].retry
            /\ batch'[i].pid = 0 /\ batch'[i].final = "none"
      /\ \A i \in InQueues(queues') : i \in InQueues(queues) \/ (i \in DOMAIN batch' /\ i \notin DOMAIN batch)
      /\ guarantee_message_order => \A q \in Partition : Rising(queues'[q])
  <2>1. CASE queues[p] # <<>> /\ try_append(last) /\ batch' = [batch EXCEPT ![last].count = @ + 1] /\ queues' = queues
    <3>1. last \in DOMAIN batch /\ batch[last] \in BatchRecord
      <4>1. queues[p] \in Seq(DOMAIN batch)
        BY <1>1
      <4>2. last \in DOMAIN batch
        BY <2>1, <4>1
      <4>3. QED
        BY <4>2, Typed
    <3>2. batch[last].open
      BY <2>1 DEF try_append
    <3> HIDE DEF last
    <3> DEFINE b == [batch[last] EXCEPT !.count = @ + 1]
    <3>3. batch' = [batch EXCEPT ![last] = b]
      BY <2>1
    <3>4. /\ b.tp = batch[last].tp /\ b.open = batch[last].open /\ b.retry = batch[last].retry
          /\ b.pid = batch[last].pid /\ b.seq = batch[last].seq /\ b.final = batch[last].final
      BY <3>1 DEF BatchRecord
    <3> HIDE DEF b
    <3>5. DOMAIN batch' = DOMAIN batch /\ \A i \in DOMAIN batch : batch'[i] = IF i = last THEN b ELSE batch[i]
      BY <1>1, <3>1, <3>3
    <3>6. \A i \in DOMAIN batch :
            /\ batch'[i].tp = batch[i].tp /\ batch'[i].open = batch[i].open /\ batch'[i].retry = batch[i].retry
            /\ batch'[i].pid = batch[i].pid /\ batch'[i].seq = batch[i].seq /\ batch'[i].final = batch[i].final
            /\ ~batch[i].open => batch'[i].count = batch[i].count
      BY <3>2, <3>4, <3>5
    <3>7. QED
      BY <1>4, <2>1, <3>5, <3>6
  <2>2. CASE batch' = Append(batch, x) /\ queues' = rs
    <3>1. x \in BatchRecord /\ x.final = "none" /\ x.tp = p /\ x.open /\ ~x.retry /\ x.pid = 0
      <4>1. 1 \in 1 .. BatchSize
        BY ProducerAssumption
      <4>2. Current \in Nat
        BY DEF IInv, Current
      <4>3. QED
        BY <1>1, <4>1, <4>2 DEF ProducerBatch, BatchRecord
    <3>2. InQueues(rs) = InQueues(queues) \cup {new}
      <4>1. InQueues([queues EXCEPT ![x.tp] = Append(@, new)]) = InQueues(queues) \cup {new}
        <5> HIDE DEF x, p
        <5>1. QED
          BY <1>1, <3>1, PlacedNew
      <4>2. QED
        BY <3>1, <4>1
    <3> HIDE DEF x
    <3>3. /\ DOMAIN batch' = 1 .. new /\ batch'[new] = x /\ new \notin DOMAIN batch /\ new \in 1 .. new
          /\ \A i \in DOMAIN batch : batch'[i] = batch[i]
      BY <1>1, <2>2, <3>1
    <3>4. DOMAIN batch \subseteq DOMAIN batch' /\ \A i \in DOMAIN batch' : i \notin DOMAIN batch => i = new
      BY <1>1, <3>3
    <3>5. guarantee_message_order => \A q \in Partition : Rising(queues'[q])
      <4>1. queues[p] \in Seq(Nat) /\ new \in Nat
        BY <1>1, Typed
      <4>2. \A e \in Elements(queues[p]) : e < new
        <5>1. \A e \in Elements(queues[p]) : e \in DOMAIN batch
          BY <1>1 DEF Elements
        <5>2. QED
          BY <1>1, <5>1
      <4>3. Rising(queues[p]) => Rising(Append(queues[p], new))
        <5> HIDE DEF new, p
        <5>1. QED
          BY <4>1, <4>2, RisingQueue
      <4>4. \A q \in Partition : queues'[q] = IF q = p THEN Append(queues[p], new) ELSE queues[q]
        BY <1>1, <2>2
      <4>5. QED
        BY <1>1, <1>4, <4>3, <4>4
    <3> HIDE DEF new, p, rs
    <3>6. QED
      BY <1>1, <2>2, <3>1, <3>2, <3>3, <3>4, <3>5
  <2>3. QED
    BY <1>3, <2>1, <2>2
<1> HIDE DEF x, rs, last, p
<1>6. Frozen
  BY <1>5 DEF Frozen
<1>7. \A i : UnderWay(i)' <=> UnderWay(i)
  BY <1>2 DEF UnderWay, OnWire, HasAnswer
<1>8. /\ \A i : UnderWay(i) \/ i \in stray => i \in DOMAIN batch
      /\ \A n \in Node : \A k \in DOMAIN wire[n] : wire[n][k] \subseteq DOMAIN batch
  BY BatchesSent
<1>9. Closed'
  <2>1. \A i \in InQueues(queues') : batch'[i].open <=> ~batch'[i].retry
    <3>1. \A i \in InQueues(queues) : i \in DOMAIN batch
      BY Typed
    <3>2. QED
      BY <1>0, <1>5, <3>1 DEF Closed
  <2>2. \A n \in Node : \A k \in DOMAIN wire'[n] : \A i, j \in wire'[n][k] : batch'[i].tp = batch'[j].tp => i = j
    BY <1>0, <1>2, <1>5, <1>8 DEF Closed, Related
  <2>3. \A i \in DOMAIN batch' : i \notin DOMAIN batch => i \notin stray /\ ~InLog(i)'
    BY <1>2, <1>5, <1>8, Typed DEF InLog
  <2>4. \A i \in DOMAIN batch' : UnderWay(i)' => i \in DOMAIN batch /\ UnderWay(i)
    BY <1>7, <1>8
  <2>5. \A i \in DOMAIN batch' : batch'[i].final = "SUCCEEDED" => i \in DOMAIN batch /\ batch[i].final = "SUCCEEDED"
    BY <1>5
  <2>6. QED
    BY <1>2, <1>6, <2>1, <2>2, <2>3, <2>4, <2>5, ClosedKept
<1>10. OneByOne'
  <2>1. \A i, j \in DOMAIN batch' : i < j /\ j \in DOMAIN batch => i \in DOMAIN batch
    <3>1. new \notin DOMAIN batch /\ \A j \in DOMAIN batch : ~(new < j)
      BY <1>1
    <3>2. QED
      BY <1>5, <3>1
  <2>2. \A j \in DOMAIN batch' : ~batch'[j].open => j \in DOMAIN batch /\ ~batch[j].open
    BY <1>5
  <2>3. guarantee_message_order =>
          /\ \A i \in DOMAIN batch' : UnderWay(i)' => batch'[i].tp \in muted'
          /\ \A i, j \in DOMAIN batch' : UnderWay(i)' /\ UnderWay(j)' /\ batch'[i].tp = batch'[j].tp => i = j
    BY <1>0, <1>2, <1>5, <1>7, <1>8 DEF OneByOne, Related
  <2>4. QED
    BY <1>2, <1>5, <1>6, <2>1, <2>2, <2>3, OneByOneKept
<1>11. Numbered'
  <2>1. tm'.pid = tm.pid /\ \A q \in Partition : tm'.seq[q] \in Nat /\ tm.seq[q] <= tm'.seq[q]
    BY <1>2, Typed
  <2>2. ~managed => \A i \in DOMAIN batch' : batch'[i].pid = 0
    BY <1>0, <1>5 DEF Numbered
  <2>3. \A i \in DOMAIN batch' :
               /\ ~batch'[i].open => i \in DOMAIN batch /\ ~batch[i].open
               /\ batch'[i].final = "SUCCEEDED" => batch[i].final = "SUCCEEDED"
    BY <1>5
  <2>4. QED
    BY <1>2, <1>6, <2>1, <2>2, <2>3, NumberedKept
<1>12. Recorded'
  <2>1. \A k \in DOMAIN answers' : \E l \in DOMAIN answers : answers'[k] = answers[l]
    BY <1>2
  <2>2. \A i \in DOMAIN batch' : batch'[i].final = "SUCCEEDED" => i \in DOMAIN batch /\ batch[i].final = "SUCCEEDED"
    BY <1>5
  <2>3. QED
    BY <1>2, <1>6, <2>1, <2>2, RecordedKept
<1>13. QED
  BY <1>9, <1>10, <1>11, <1>12 DEF DInv

\* A result is all that a batch gets when it is settled.
LEMMA SettledKeeps ==
    ASSUME NEW bs \in Seq(BatchRecord), NEW D, NEW how
    PROVE  LET ds == settled(bs, D, how) IN
           /\ DOMAIN ds = DOMAIN bs
           /\ \A i \in DOMAIN bs :
                 /\ ds[i].tp = bs[i].tp /\ ds[i].open = bs[i].open /\ ds[i].retry = bs[i].retry
                 /\ ds[i].pid = bs[i].pid /\ ds[i].seq = bs[i].seq /\ ds[i].count = bs[i].count
                 /\ ds[i].final = IF i \in D THEN how ELSE bs[i].final
<1> DEFINE ds == settled(bs, D, how)
<1>1. DOMAIN ds = DOMAIN bs /\ \A i \in DOMAIN bs : ds[i] = IF i \in D THEN [bs[i] EXCEPT !.final = how] ELSE bs[i]
  BY DEF settled
<1>2. \A i \in DOMAIN bs : bs[i] \in BatchRecord
  OBVIOUS
<1> HIDE DEF ds
<1>3. QED
  BY <1>1, <1>2 DEF BatchRecord, ds

\* Batches get a result, and leave the queues.
LEMMA SettledDelivers ==
    ASSUME IInv, DInv, UNCHANGED <<muted, in_flight_batches, wire, answers, stray, log, coord, mode>>,
           Like(tm, tm'), NEW A \in SUBSET incomplete, batch' = settled(batch, A, "ABORTED"),
           \A i \in InQueues(queues') : i \in InQueues(queues),
           \A p \in Partition : Rising(queues[p]) => Rising(queues'[p])
    PROVE  DInv'
<1>0. Closed /\ OneByOne /\ Numbered
  BY DEF DInv
<1>1. batch \in Seq(BatchRecord)
  BY Typed
<1>2. /\ DOMAIN batch' = DOMAIN batch
      /\ \A i \in DOMAIN batch :
            /\ batch'[i].tp = batch[i].tp /\ batch'[i].open = batch[i].open /\ batch'[i].retry = batch[i].retry
            /\ batch'[i].pid = batch[i].pid /\ batch'[i].seq = batch[i].seq /\ batch'[i].count = batch[i].count
            /\ batch'[i].final = IF i \in A THEN "ABORTED" ELSE batch[i].final
  BY <1>1, SettledKeeps
<1>3. Frozen
  <2>1. \A i \in A : batch[i].final = "none"
    BY Typed
  <2>2. QED
    BY <1>2, <2>1 DEF Frozen
<1>4. \A i : UnderWay(i)' <=> UnderWay(i)
  BY DEF UnderWay, OnWire, HasAnswer
<1>5. \A i \in DOMAIN batch : batch'[i].final = "SUCCEEDED" => batch[i].final = "SUCCEEDED"
  BY <1>2
<1>6. Closed'
  <2>1. \A i \in InQueues(queues') : batch'[i].open <=> ~batch'[i].retry
    <3>1. \A i \in InQueues(queues) : i \in DOMAIN batch
      BY Typed
    <3>2. QED
      BY <1>0, <1>2, <3>1 DEF Closed
  <2>2. \A n \in Node : \A k \in DOMAIN wire'[n] : \A i, j \in wire'[n][k] : batch'[i].tp = batch'[j].tp => i = j
    BY <1>0, <1>2, BatchesSent DEF Closed, Related
  <2>3. QED
    BY <1>2, <1>3, <1>4, <1>5, <2>1, <2>2, ClosedKept
<1>7. OneByOne'
  <2>1. guarantee_message_order =>
          /\ \A p \in Partition : Rising(queues'[p])
          /\ \A i \in DOMAIN batch' : UnderWay(i)' => batch'[i].tp \in muted'
          /\ \A i, j \in DOMAIN batch' : UnderWay(i)' /\ UnderWay(j)' /\ batch'[i].tp = batch'[j].tp => i = j
    BY <1>0, <1>2, <1>4 DEF OneByOne, Related
  <2>2. QED
    BY <1>2, <1>3, <2>1, OneByOneKept
<1>8. Numbered'
  <2>1. tm'.pid = tm.pid /\ \A p \in Partition : tm'.seq[p] \in Nat /\ tm.seq[p] <= tm'.seq[p]
    BY Typed DEF Like
  <2>2. ~managed => \A i \in DOMAIN batch' : batch'[i].pid = 0
    BY <1>0, <1>2 DEF Numbered
  <2>3. QED
    BY <1>2, <1>3, <1>5, <2>1, <2>2, NumberedKept
<1>9. Recorded'
  BY <1>2, <1>3, <1>5, RecordedKept
<1>10. QED
  BY <1>6, <1>7, <1>8, <1>9 DEF DInv

LEMMA AbortsDeliver ==
    ASSUME IInv, DInv, aborts_batches \/ aborts_undrained \/ (run_ends /\ sender.force)
    PROVE  DInv'
<1>1. UNCHANGED <<muted, in_flight_batches, wire, answers, stray, log, coord, mode>>
  BY DEF aborts_batches, aborts_undrained, run_ends, brokers
<1>2. Like(tm, tm')
  <2>1. tm' \in {tm, after_asking} /\ Like(tm, tm)
    BY DEF aborts_batches, aborts_undrained, run_ends, Like
  <2>2. QED
    BY <2>1, LikeAsked
<1>3. PICK A \in SUBSET incomplete : abortable(A) /\ abort(A)
  BY DEF aborts_batches, aborts_undrained, run_ends
<1>4. batch' = settled(batch, A, "ABORTED") /\ queues' = without(A)
  BY <1>3 DEF abort
<1>5. InQueues(queues') \subseteq InQueues(queues)
  BY <1>1, <1>3, AbortedOK
<1>6. \A p \in Partition : Rising(queues[p]) => Rising(queues'[p])
  <2>1. \A p \in Partition : queues[p] \in Seq(DOMAIN batch) /\ DOMAIN batch \subseteq Nat
    BY Typed
  <2>2. \A p \in Partition : Rising(queues[p]) => Rising(Kept(queues[p], A))
    BY <2>1, KeptOK
  <2>3. QED
    BY <1>4, <2>2 DEF without
<1>7. QED
  BY <1>1, <1>2, <1>4, <1>5, <1>6, SettledDelivers

-----------------------------------------------------------------------------
(* The answers.                                                               *)

LEMMA IncrementOK ==
    ASSUME IInv, NumbersSuffice, NEW i \in DOMAIN batch
    PROVE  LET n == increment_sequence_number(tm, batch[i].tp, batch[i].count) IN
           /\ n.pid = tm.pid /\ n.seq[batch[i].tp] = tm.seq[batch[i].tp] + batch[i].count
           /\ \A p \in Partition : n.seq[p] \in Nat /\ tm.seq[p] <= n.seq[p]
<1> DEFINE p == batch[i].tp
           c == batch[i].count
           s == tm.seq[p]
           t == IF s > MaxInt - c THEN c - (MaxInt - s) - 1 ELSE s + c
           n == increment_sequence_number(tm, p, c)
<1>1. p \in Partition /\ c \in Nat /\ s \in Nat /\ c <= BatchSize /\ s + BatchSize <= MaxInt /\ BatchSize \in Nat
  BY Typed, ProducerAssumption DEF NumbersSuffice
<1>2. tm.seq \in [Partition -> Nat] /\ HasNumbers(tm)
  BY Typed DEF GoodManager
<1> HIDE DEF p, c
<1>3. t = s + c /\ t \in Nat /\ s <= t
  <2> HIDE DEF s
  <2>1. QED
    BY <1>1 DEF MaxInt
<1>4. n = [tm EXCEPT !.seq[p] = t]
  BY DEF increment_sequence_number
<1>5. n.pid = tm.pid /\ n.seq = [tm.seq EXCEPT ![p] = t]
  <2> HIDE DEF t
  <2>1. QED
    BY <1>2, <1>4 DEF HasNumbers
<1>6. n.seq[p] = t /\ \A q \in Partition : n.seq[q] \in Nat /\ tm.seq[q] <= n.seq[q]
  <2> HIDE DEF n, t
  <2>1. \A q \in Partition : n.seq[q] = IF q = p THEN t ELSE tm.seq[q]
    BY <1>1, <1>2, <1>5
  <2>2. \A q \in Partition : tm.seq[q] \in Nat
    BY <1>2
  <2>3. QED
    BY <1>1, <1>3, <2>1, <2>2
<1>7. QED
  BY <1>3, <1>5, <1>6 DEF p, c

\* The manager after a failure has the number it had, or none.
LEMMA LikeFailed ==
    ASSUME NEW m, HasNumbers(m), NEW b, NEW error, error # "unknown_producer"
    PROVE  Like(m, fail_manager(m, b, error)) \/ fail_manager(m, b, error).pid = 0
<1>1. Like(m, m) /\ Like(m, transition_to_fatal_error(m)) /\ Like(m, transition_to_abortable_error(m))
  BY LikeState DEF Like
<1>2. reset_producer_id(m).pid = 0
  BY DEF reset_producer_id, HasNumbers
<1>3. fail_manager(m, b, error) \in {m, reset_producer_id(m), transition_to_fatal_error(m), transition_to_abortable_error(m)}
  BY DEF fail_manager
<1>4. QED
  BY <1>1, <1>2, <1>3

\* The batch i is answered: it has its result, or is in a queue again.
LEMMA AnsweredDelivers ==
    ASSUME IInv, DInv, UNCHANGED <<wire, stray, log, coord, mode>>, NEW i \in DOMAIN batch, HasAnswer(i),
           \A n \in Node : \A k \in DOMAIN wire[n] : i \notin wire[n][k],
           muted' = muted \ {batch[i].tp}, in_flight_batches' \subseteq in_flight_batches \ {i},
           \A k \in DOMAIN answers' : answers'[k].b # i /\ \E l \in DOMAIN answers : answers'[k] = answers[l],
           DOMAIN batch' = DOMAIN batch,
           \A j \in DOMAIN batch :
               /\ batch'[j].tp = batch[j].tp /\ batch'[j].open = batch[j].open
               /\ batch'[j].pid = batch[j].pid /\ batch'[j].seq = batch[j].seq /\ batch'[j].count = batch[j].count
               /\ j # i => batch'[j].final = batch[j].final /\ batch'[j].retry = batch[j].retry
               /\ batch[j].final # "none" => batch'[j].final = batch[j].final,
           batch'[i].final = "SUCCEEDED" =>
               /\ Accounted(i)
               /\ batch[i].final = "none" /\ managed /\ batch[i].pid = tm.pid /\ tm'.pid # 0 =>
                      batch[i].seq + batch[i].count <= tm'.seq[batch[i].tp],
           tm'.pid = 0 \/ (tm'.pid = tm.pid /\ \A p \in Partition : tm'.seq[p] \in Nat /\ tm.seq[p] <= tm'.seq[p]),
           \A j \in InQueues(queues') : (j \in InQueues(queues) /\ j # i) \/ (j = i /\ batch'[i].retry),
           guarantee_message_order => \A p \in Partition : Rising(queues'[p])
    PROVE  DInv'
<1>0. Closed /\ OneByOne /\ Numbered
  BY DEF DInv
<1>1. Frozen
  BY DEF Frozen
<1>2. UnderWay(i) /\ ~batch[i].open
  BY <1>0 DEF UnderWay, Closed
<1>3. \A j : UnderWay(j)' => UnderWay(j) /\ j # i
  <2>1. \A j : OnWire(j)' => OnWire(j) /\ j # i
    BY DEF OnWire
  <2>2. \A j : HasAnswer(j)' => HasAnswer(j) /\ j # i
    BY DEF HasAnswer
  <2>3. QED
    BY <2>1, <2>2 DEF UnderWay
<1>4. \A j \in DOMAIN batch : batch'[j].final = "SUCCEEDED" =>
          batch[j].final = "SUCCEEDED" \/ (j = i /\ batch[j].final = "none" /\ HasAnswer(j) /\ Accounted(j))
  <2>1. batch[i].final # "none" => batch'[i].final = batch[i].final
    OBVIOUS
  <2>2. QED
    BY <2>1
<1>5. Closed'
  <2>1. \A j \in InQueues(queues') : batch'[j].open <=> ~batch'[j].retry
    <3>1. \A j \in InQueues(queues) : j \in DOMAIN batch
      BY Typed
    <3>2. QED
      BY <1>0, <1>2, <3>1 DEF Closed
  <2>2. \A n \in Node : \A k \in DOMAIN wire'[n] : \A j, l \in wire'[n][k] : batch'[j].tp = batch'[l].tp => j = l
    BY <1>0, BatchesSent DEF Closed, Related
  <2>3. QED
    BY <1>1, <1>3, <1>4, <2>1, <2>2, ClosedKept
<1>6. OneByOne'
  <2>1. ASSUME guarantee_message_order, NEW j \in DOMAIN batch, UnderWay(j)' PROVE batch'[j].tp \in muted'
    <3>1. UnderWay(j) /\ j # i
      BY <1>3, <2>1
    <3>2. batch[j].tp \in muted /\ batch[j].tp # batch[i].tp
      BY <1>0, <1>2, <2>1, <3>1 DEF OneByOne, Related
    <3>3. QED
      BY <3>2
  <2>2. guarantee_message_order =>
          \A j, l \in DOMAIN batch' : UnderWay(j)' /\ UnderWay(l)' /\ batch'[j].tp = batch'[l].tp => j = l
    BY <1>0, <1>3 DEF OneByOne, Related
  <2>3. QED
    BY <1>1, <2>1, <2>2, OneByOneKept
<1>7. Numbered'
  <2>1. ~managed => \A j \in DOMAIN batch' : batch'[j].pid = 0
    BY <1>0 DEF Numbered
  <2>2. managed => \A j \in DOMAIN batch' :
               /\ ~batch'[j].open => j \in DOMAIN batch /\ (~batch[j].open \/ Fresh(j))
               /\ batch'[j].final = "SUCCEEDED" /\ batch[j].final # "SUCCEEDED" /\ batch[j].pid = tm.pid /\ tm'.pid # 0 =>
                      batch[j].seq + batch[j].count <= tm'.seq[batch[j].tp]
    BY <1>4
  <2>3. QED
    BY <1>1, <2>1, <2>2, NumberedKept
<1>8. Recorded'
  BY <1>1, <1>4, RecordedKept
<1>9. QED
  BY <1>5, <1>6, <1>7, <1>8 DEF DInv

LEMMA CompletesDelivers == ASSUME IInv, DInv, NumbersSuffice, completes PROVE DInv'
<1> DEFINE a == Head(answers)
           i == a.b
           e == a.error
<1>0. Closed /\ OneByOne /\ Numbered /\ Recorded
  BY DEF DInv
<1>1. /\ answers \in Seq(Answer(DOMAIN batch)) /\ answers # <<>> /\ Once(wire, answers, InQueues(queues))
      /\ Placed(batch, queues, incomplete, in_flight_batches)
  BY Typed DEF IInv, completes
<1>2. /\ 1 \in DOMAIN answers /\ a = answers[1] /\ a \in Answer(DOMAIN batch) /\ Len(answers) \in Nat
      /\ DOMAIN answers = 1 .. Len(answers)
      /\ DOMAIN Tail(answers) = 1 .. Len(answers) - 1
      /\ \A k \in 1 .. Len(answers) - 1 : Tail(answers)[k] = answers[k + 1] /\ k + 1 \in DOMAIN answers /\ k + 1 # 1
  BY <1>1
<1>3. /\ i \in DOMAIN batch /\ HasAnswer(i) /\ i \notin InQueues(queues)
      /\ e \in {"none", "fatal", "out_of_order", "not_leader", "unauthorized", "disconnected"}
  BY <1>1, <1>2 DEF Answer, HasAnswer, Once
<1>4. \A n \in Node : \A k \in DOMAIN wire[n] : i \notin wire[n][k]
  BY <1>1, <1>2 DEF Once
<1>5. UNCHANGED <<wire, stray, log, coord, mode>>
  BY DEF completes, brokers
<1>6. ~batch[i].open /\ UnderWay(i) /\ (guarantee_message_order => \A p \in Partition : Rising(queues[p]))
  BY <1>0, <1>3 DEF Closed, UnderWay, OneByOne
<1>7. HasNumbers(tm) /\ Like(tm, tm) /\ batch \in Seq(BatchRecord) /\ \A p \in Partition : tm.seq[p] \in Nat
  BY Typed DEF Like
<1>8. ASSUME NEW m, Like(tm, m) PROVE m.pid = tm.pid /\ \A p \in Partition : m.seq[p] \in Nat /\ tm.seq[p] <= m.seq[p]
  BY <1>7, <1>8 DEF Like
<1>9. CASE _complete_batch(i, e) /\ answers' = Tail(answers)
  <2>1. \A k \in DOMAIN answers' : answers'[k].b # i /\ \E l \in DOMAIN answers : answers'[k] = answers[l]
    <3> SUFFICES ASSUME NEW k \in DOMAIN answers'
                 PROVE  answers'[k].b # i /\ \E l \in DOMAIN answers : answers'[k] = answers[l]
      OBVIOUS
    <3>1. answers'[k] = answers[k + 1] /\ k + 1 \in DOMAIN answers /\ k + 1 # 1
      BY <1>2, <1>9
    <3>2. \A j, l \in DOMAIN answers : answers[j].b = answers[l].b => j = l
      BY <1>1 DEF Once
    <3>3. QED
      BY <1>2, <3>1, <3>2
  <2>2. muted' = muted \ {batch[i].tp}
    BY <1>9 DEF _complete_batch, acknowledge
  <2>3. in_flight_batches \subseteq incomplete /\ incomplete = {j \in DOMAIN batch : batch[j].final = "none"}
    BY Typed
  <2> HIDE DEF i, e, a
  <2>4. ASSUME NEW how \in {"SUCCEEDED", "FAILED"}, finish(i, how), queues' = queues,
               how = "SUCCEEDED" => Accounted(i) /\ (managed /\ batch[i].pid = tm.pid /\ tm'.pid # 0 =>
                                        batch[i].seq + batch[i].count <= tm'.seq[batch[i].tp]),
               tm'.pid = 0 \/ (tm'.pid = tm.pid /\ \A p \in Partition : tm'.seq[p] \in Nat /\ tm.seq[p] <= tm'.seq[p])
        PROVE  DInv'
    <3>1. CASE batch[i].final = "none"
      <4>1. batch' = settled(batch, {i}, how) /\ in_flight_batches' = in_flight_batches \ {i}
        BY <2>4, <3>1 DEF finish
      <4>2. /\ DOMAIN batch' = DOMAIN batch
            /\ \A j \in DOMAIN batch :
               /\ batch'[j].tp = batch[j].tp /\ batch'[j].open = batch[j].open /\ batch'[j].retry = batch[j].retry
               /\ batch'[j].pid = batch[j].pid /\ batch'[j].seq = batch[j].seq /\ batch'[j].count = batch[j].count
               /\ batch'[j].final = IF j \in {i} THEN how ELSE batch[j].final
        BY <1>7, <4>1, SettledKeeps
      <4>3. \A j \in DOMAIN batch : batch[j].final # "none" => batch'[j].final = batch[j].final
        BY <3>1, <4>2
      <4>4. batch'[i].final = how
        BY <1>3, <4>2
      <4>5. \A j \in InQueues(queues') : j \in InQueues(queues) /\ j # i
        BY <1>3, <2>4
      <4>6. guarantee_message_order => \A p \in Partition : Rising(queues'[p])
        BY <1>6, <2>4
      <4>7. QED
        BY <1>3, <1>4, <1>5, <2>1, <2>2, <2>4, <4>1, <4>2, <4>3, <4>4, <4>5, <4>6, AnsweredDelivers
    <3>2. CASE batch[i].final # "none"
      <4>1. batch' = batch /\ in_flight_batches' = in_flight_batches
        BY <2>4, <3>2 DEF finish
      <4>2. in_flight_batches' \subseteq in_flight_batches \ {i}
        BY <2>3, <3>2, <4>1
      <4>3. batch'[i].final = "SUCCEEDED" => Accounted(i)
        BY <1>0, <1>3, <4>1 DEF Recorded
      <4>4. \A j \in InQueues(queues') : j \in InQueues(queues) /\ j # i
        BY <1>3, <2>4
      <4>5. guarantee_message_order => \A p \in Partition : Rising(queues'[p])
        BY <1>6, <2>4
      <4>6. QED
        BY <1>3, <1>4, <1>5, <2>1, <2>2, <2>4, <3>2, <4>1, <4>2, <4>3, <4>4, <4>5, AnsweredDelivers
    <3>3. QED
      BY <3>1, <3>2
  <2>5. CASE e = "none"
    <3>1. finish(i, "SUCCEEDED") /\ acknowledge(i) /\ queues' = queues
      BY <1>9, <2>5 DEF _complete_batch, i, e
    <3>2. Accounted(i)
      BY <1>0, <1>2, <2>5 DEF Recorded, i, e
    <3>3. CASE managed /\ tm.pid = batch[i].pid
      <4>1. tm' = increment_sequence_number(tm, batch[i].tp, batch[i].count)
        BY <3>1, <3>3 DEF acknowledge
      <4>2. /\ tm'.pid = tm.pid /\ tm'.seq[batch[i].tp] = tm.seq[batch[i].tp] + batch[i].count
            /\ \A p \in Partition : tm'.seq[p] \in Nat /\ tm.seq[p] <= tm'.seq[p]
        BY <1>3, <4>1, IncrementOK
      <4>3. batch[i].seq + batch[i].count <= tm'.seq[batch[i].tp]
        <5>1. batch[i].seq <= tm.seq[batch[i].tp]
          BY <1>0, <1>3, <1>6, <3>3 DEF Numbered
        <5>2. batch[i].seq \in Nat /\ batch[i].count \in Nat /\ tm.seq[batch[i].tp] \in Nat
          BY <1>3, Typed
        <5>3. QED
          BY <4>2, <5>1, <5>2
      <4>4. QED
        BY <2>4, <3>1, <3>2, <4>2, <4>3
    <3>4. CASE ~(managed /\ tm.pid = batch[i].pid)
      <4>1. tm' = tm
        BY <3>1, <3>4 DEF acknowledge
      <4>2. tm'.pid = tm.pid /\ \A p \in Partition : tm'.seq[p] \in Nat /\ tm.seq[p] <= tm'.seq[p]
        BY <1>7, <1>8, <4>1
      <4>3. QED
        BY <2>4, <3>1, <3>2, <3>4, <4>2
    <3>5. QED
      BY <3>3, <3>4
  <2>6. CASE e # "none" /\ finish(i, "FAILED") /\ queues' = queues /\ tm' = fail_manager(tm, batch[i], e)
    <3>1. e # "unknown_producer"
      BY <1>3
    <3>2. Like(tm, tm') \/ tm'.pid = 0
      BY <1>7, <2>6, <3>1, LikeFailed
    <3>3. tm'.pid = 0 \/ (tm'.pid = tm.pid /\ \A p \in Partition : tm'.seq[p] \in Nat /\ tm.seq[p] <= tm'.seq[p])
      BY <1>8, <3>2
    <3>4. QED
      BY <2>4, <2>6, <3>3
  <2>7. CASE /\ batch[i].final = "none" /\ reenqueue_batch(i) /\ tm' = tm
             /\ in_flight_batches' = in_flight_batches \ {i}
    <3> DEFINE p == batch[i].tp
               b == [batch[i] EXCEPT !.retry = TRUE, !.attempts = @ + 1]
               q == queues[p]
               r == <<i>> \o q
    <3>0. p \in Partition /\ q \in Seq(DOMAIN batch) /\ q \in Seq(Nat) /\ i \in Nat /\ batch[i] \in BatchRecord
      BY <1>3, Typed
    <3>1. batch' = [batch EXCEPT ![i] = b] /\ queues' = [queues EXCEPT ![p] = r]
      BY <2>7 DEF reenqueue_batch
    <3>2. /\ b.tp = batch[i].tp /\ b.open = batch[i].open /\ b.pid = batch[i].pid /\ b.seq = batch[i].seq
          /\ b.count = batch[i].count /\ b.final = batch[i].final /\ b.retry
      <4> DEFINE x == batch[i]
                 n == x.attempts + 1
      <4>1. b = [x EXCEPT !.retry = TRUE, !.attempts = n] /\ x \in BatchRecord
        BY <3>0
      <4> HIDE DEF x, n, b
      <4>2. b.tp = x.tp /\ b.open = x.open /\ b.pid = x.pid /\ b.seq = x.seq /\ b.count = x.count /\ b.final = x.final /\ b.retry
        BY <4>1 DEF BatchRecord
      <4>3. QED
        BY <4>2 DEF x
    <3> HIDE DEF b
    <3>3. DOMAIN batch' = DOMAIN batch /\ \A j \in DOMAIN batch : batch'[j] = IF j = i THEN b ELSE batch[j]
      BY <1>3, <1>7, <3>1
    <3>4. Elements(r) = Elements(q) \cup {i}
      <4> HIDE DEF p
      <4>1. QED
        BY <1>3, <3>0, OneBefore
    <3>5. \A j \in InQueues(queues') : (j \in InQueues(queues) /\ j # i) \/ (j = i /\ batch'[i].retry)
      <4> DEFINE qs == queues'
      <4>1. \A o \in Partition : qs[o] = IF o = p THEN r ELSE queues[o]
        BY <3>0, <3>1, Typed
      <4> HIDE DEF qs, p, r, q
      <4>2. \A j \in InQueues(qs) : j \in InQueues(queues) \/ j = i
        BY <3>0, <3>4, <4>1 DEF InQueues, q
      <4>3. batch'[i].retry
        BY <1>3, <3>2, <3>3
      <4>4. QED
        BY <1>3, <4>2, <4>3 DEF qs
    <3>6. ASSUME guarantee_message_order, NEW o \in Partition PROVE Rising(queues'[o])
      <4>1. \A j \in Elements(q) : i < j
        <5> SUFFICES ASSUME NEW j \in Elements(q) PROVE i < j
          OBVIOUS
        <5>1. j \in InQueues(queues) /\ batch[j].tp = p
          BY <1>1, <3>0 DEF InQueues, Placed
        <5>2. j \in DOMAIN batch /\ batch[j].final = "none" /\ j # i
          BY <1>3, <2>3, <5>1, Typed
        <5>3. ~(j < i)
          BY <1>0, <1>3, <1>6, <3>6, <5>1, <5>2 DEF OneByOne, Related
        <5>4. j \in Nat /\ i \in Nat
          BY <3>0, <5>2, Typed
        <5>5. QED
          BY <5>2, <5>3, <5>4
      <4>2. Rising(q)
        BY <1>6, <3>0, <3>6
      <4>3. Rising(r)
        <5> HIDE DEF q, p
        <5>1. QED
          BY <3>0, <4>1, <4>2, RisingQueue
      <4>4. queues'[o] = IF o = p THEN r ELSE queues[o]
        BY <3>0, <3>1, Typed
      <4> HIDE DEF r, q, p
      <4>5. QED
        BY <1>6, <3>6, <4>3, <4>4
    <3>7. \A j \in DOMAIN batch :
               /\ batch'[j].tp = batch[j].tp /\ batch'[j].open = batch[j].open
               /\ batch'[j].pid = batch[j].pid /\ batch'[j].seq = batch[j].seq /\ batch'[j].count = batch[j].count
               /\ j # i => batch'[j].final = batch[j].final /\ batch'[j].retry = batch[j].retry
               /\ batch[j].final # "none" => batch'[j].final = batch[j].final
      BY <3>2, <3>3
    <3>8. batch'[i].final # "SUCCEEDED"
      BY <1>3, <2>7, <3>2, <3>3
    <3>9. tm'.pid = tm.pid /\ \A o \in Partition : tm'.seq[o] \in Nat /\ tm.seq[o] <= tm'.seq[o]
      BY <1>7, <1>8, <2>7
    <3>10. in_flight_batches' \subseteq in_flight_batches \ {i}
      BY <2>7
    <3> HIDE DEF p, q, r
    <3>11. QED
      BY <1>3, <1>4, <1>5, <2>1, <2>2, <3>3, <3>5, <3>6, <3>7, <3>8, <3>9, <3>10, AnsweredDelivers
  <2>8. QED
    BY <1>9, <2>5, <2>6, <2>7 DEF _complete_batch, _can_retry, i, e, a
<1>10. ASSUME NEW n \in DOMAIN answers, answers' = SubSeq(answers, n + 1, Len(answers)),
              UNCHANGED <<batch, queues, incomplete, muted, in_flight_batches, tm>>
       PROVE  DInv'
  <2>1. \A k \in DOMAIN answers' : \E l \in DOMAIN answers : answers'[k] = answers[l]
    <3> DEFINE t == SubSeq(answers, n + 1, Len(answers))
               Q == InQueues(queues)
               S == Answer(DOMAIN batch)
    <3>1. answers \in Seq(S) /\ Once(wire, answers, Q)
      BY <1>1
    <3> HIDE DEF Q, S
    <3>2. \A k \in DOMAIN t : \E l \in DOMAIN answers : t[k] = answers[l]
      BY <3>1, OnceLater
    <3>3. QED
      BY <1>10, <3>2
  <2>2. Frozen /\ DOMAIN batch' = DOMAIN batch
    BY <1>10 DEF Frozen
  <2>3. \A j : UnderWay(j)' => UnderWay(j)
    BY <1>5, <1>10, <2>1 DEF UnderWay, OnWire, HasAnswer
  <2>4. Closed'
    <3>1. \A j \in InQueues(queues') : batch'[j].open <=> ~batch'[j].retry
      BY <1>0, <1>10 DEF Closed
    <3>2. QED
      BY <1>0, <1>5, <1>10, <2>2, <2>3, <3>1, ClosedKept DEF Closed, Related
  <2>5. OneByOne'
    <3>1. guarantee_message_order =>
          /\ \A p \in Partition : Rising(queues'[p])
          /\ \A j \in DOMAIN batch' : UnderWay(j)' => batch'[j].tp \in muted'
          /\ \A j, l \in DOMAIN batch' : UnderWay(j)' /\ UnderWay(l)' /\ batch'[j].tp = batch'[l].tp => j = l
      BY <1>0, <1>10, <2>3 DEF OneByOne, Related
    <3>2. QED
      BY <1>5, <1>10, <2>2, <3>1, OneByOneKept
  <2>6. Numbered'
    <3>1. tm'.pid = tm.pid /\ \A p \in Partition : tm'.seq[p] \in Nat /\ tm.seq[p] <= tm'.seq[p]
      BY <1>7, <1>8, <1>10
    <3>2. ~managed => \A j \in DOMAIN batch' : batch'[j].pid = 0
      BY <1>0, <1>10 DEF Numbered
    <3>3. QED
      BY <1>5, <1>10, <2>2, <3>1, <3>2, NumberedKept
  <2>7. Recorded'
    <3>1. \A j \in DOMAIN batch' : batch'[j].final = "SUCCEEDED" => j \in DOMAIN batch /\ batch[j].final = "SUCCEEDED"
      BY <1>10
    <3>2. QED
      BY <1>5, <2>1, <2>2, <3>1, RecordedKept
  <2>8. QED
    BY <2>4, <2>5, <2>6, <2>7 DEF DInv
<1>11. QED
  BY <1>9, <1>10 DEF completes

-----------------------------------------------------------------------------
(* Sending.                                                                   *)

\* What is sent is closed; sent again, it has the number it had.
LEMMA StampedKeeps ==
    ASSUME IInv, NEW i \in DOMAIN batch
    PROVE  LET b == stamped(batch[i]) IN
           /\ b.tp = batch[i].tp /\ b.count = batch[i].count /\ b.retry = batch[i].retry /\ b.final = batch[i].final
           /\ ~b.open
           /\ managed /\ ~batch[i].retry => b.pid = tm.pid /\ b.seq = tm.seq[batch[i].tp]
           /\ ~managed \/ batch[i].retry => b.pid = batch[i].pid /\ b.seq = batch[i].seq
<1> DEFINE x == batch[i]
           n == tm.pid
           s == tm.seq[x.tp]
           c == [x EXCEPT !.open = FALSE, !.pid = n, !.seq = s]
           d == [x EXCEPT !.open = FALSE]
<1>1. x \in BatchRecord
  BY Typed
<1>2. stamped(x) = IF managed /\ ~x.retry THEN c ELSE d
  BY DEF stamped
<1> HIDE DEF x, n, s
<1>3. c.tp = x.tp /\ c.count = x.count /\ c.retry = x.retry /\ c.final = x.final /\ ~c.open /\ c.pid = n /\ c.seq = s
  BY <1>1 DEF BatchRecord
<1>4. d.tp = x.tp /\ d.count = x.count /\ d.retry = x.retry /\ d.final = x.final /\ ~d.open /\ d.pid = x.pid /\ d.seq = x.seq
  BY <1>1 DEF BatchRecord
<1> HIDE DEF c, d
<1>5. CASE managed /\ ~x.retry
  BY <1>2, <1>3, <1>5 DEF x, n, s
<1>6. CASE ~(managed /\ ~x.retry)
  BY <1>2, <1>4, <1>6 DEF x
<1>7. QED
  BY <1>5, <1>6

\* The first batches of some queues, each the first of its partition that has no result.
LEMMA FirstsOK ==
    ASSUME IInv, DInv, NEW D \in SUBSET Partition, \A p \in D : queues[p] # <<>> /\ p \notin muted, NEW i \in Firsts(queues, D)
    PROVE  /\ i \in InQueues(queues) /\ i \in DOMAIN batch /\ batch[i].tp \in D /\ i = Head(queues[batch[i].tp])
           /\ batch[i].final = "none" /\ batch[i].tp \notin muted
           /\ guarantee_message_order => \A j \in DOMAIN batch : j # i /\ Related(i, j) /\ batch[j].final = "none" =>
                  i < j /\ batch[j].open /\ ~UnderWay(j)
<1>0. Closed /\ OneByOne /\ Placed(batch, queues, incomplete, in_flight_batches)
  BY DEF DInv, IInv
<1>1. PICK p \in D : i = Head(queues[p])
  BY DEF Firsts
<1>2. queues[p] \in Seq(DOMAIN batch) /\ queues[p] # <<>> /\ queues[p] \in Seq(Nat)
  BY Typed
<1>3. i \in Elements(queues[p])
  BY <1>1, <1>2 DEF Elements
<1>4. i \in InQueues(queues) /\ batch[i].tp = p
  BY <1>0, <1>3 DEF InQueues, Placed
<1>5. i \in DOMAIN batch /\ batch[i].final = "none"
  BY <1>4, Typed
<1>6. ASSUME guarantee_message_order, NEW j \in DOMAIN batch, j # i, Related(i, j), batch[j].final = "none"
      PROVE  i < j /\ batch[j].open /\ ~UnderWay(j)
  <2>1. batch[j].tp = p /\ p \notin muted
    BY <1>4, <1>6 DEF Related
  <2>2. ~UnderWay(j)
    BY <1>0, <1>6, <2>1 DEF OneByOne
  <2>3. j \in InQueues(queues)
    <3>1. j \in incomplete
      BY <1>6, Typed
    <3>2. QED
      BY <1>0, <2>2, <3>1 DEF Placed, UnderWay
  <2>4. j \in Elements(queues[p])
    BY <1>0, <2>1, <2>3 DEF InQueues, Placed
  <2>5. i <= j
    BY <1>0, <1>1, <1>2, <1>6, <2>4, RisingQueue DEF OneByOne
  <2>6. i < j
    <3>1. i \in Nat /\ j \in Nat
      BY <1>5, Typed
    <3>2. QED
      BY <1>6, <2>5, <3>1
  <2>7. batch[j].open
    BY <1>0, <1>5, <1>6, <2>6 DEF OneByOne
  <2>8. QED
    BY <2>2, <2>6, <2>7
<1>7. QED
  BY <1>1, <1>4, <1>5, <1>6

\* The requests: one batch of a partition in each.
LEMMA RequestedOK ==
    ASSUME IInv, NEW ids, wire' \in {wire, requests(ids)}, NEW n \in Node, NEW k \in DOMAIN wire'[n]
    PROVE  (k \in DOMAIN wire[n] /\ wire'[n][k] = wire[n][k]) \/ wire'[n][k] \subseteq ids
<1> DEFINE e == produce_request(n, ids)
<1>1. e \subseteq ids
  BY DEF produce_request
<1>2. wire'[n] = wire[n] \/ wire'[n] = Append(wire[n], e)
  BY DEF requests
<1>3. wire[n] \in Seq(SUBSET DOMAIN batch)
  BY Typed
<1> HIDE DEF e
<1> DEFINE w == wire[n]
           v == wire'[n]
<1>4. CASE v = Append(w, e)
  <2> HIDE DEF w, v
  <2>1. w \in Seq(SUBSET DOMAIN batch) /\ k \in DOMAIN v
    BY <1>3 DEF w, v
  <2>2. (k \in DOMAIN w /\ v[k] = w[k]) \/ v[k] = e
    BY <1>4, <2>1
  <2>3. QED
    BY <1>1, <2>2 DEF w, v
<1>5. QED
  BY <1>2, <1>4

\* The first batches of the partitions D are sent, and some that have expired are given up.
LEMMA DrainedDeliver ==
    ASSUME IInv, DInv, UNCHANGED <<answers, stray, log, coord, mode>>,
           NEW D \in SUBSET Partition, \A p \in D : queues[p] # <<>> /\ p \notin muted /\ (managed => tm.pid # 0),
           NEW drained, drained = Firsts(queues, D), DOMAIN batch' = DOMAIN batch,
           \A i \in DOMAIN batch :
               /\ batch'[i].tp = batch[i].tp /\ batch'[i].count = batch[i].count /\ batch'[i].retry = batch[i].retry
               /\ batch[i].final # "none" => batch'[i].final = batch[i].final
               /\ batch'[i].final \in {batch[i].final, "FAILED"}
               /\ i \notin drained =>
                      batch'[i].open = batch[i].open /\ batch'[i].pid = batch[i].pid /\ batch'[i].seq = batch[i].seq
               /\ i \in drained =>
                      /\ ~batch'[i].open
                      /\ managed /\ ~batch[i].retry => batch'[i].pid = tm.pid /\ batch'[i].seq = tm.seq[batch[i].tp]
                      /\ ~managed \/ batch[i].retry => batch'[i].pid = batch[i].pid /\ batch'[i].seq = batch[i].seq,
           in_flight_batches' \subseteq in_flight_batches \cup drained, mute(D), wire' \in {wire, requests(drained)},
           \A i \in InQueues(queues') : i \in InQueues(queues) /\ i \notin drained,
           guarantee_message_order => \A p \in Partition : Rising(queues'[p]),
           tm'.pid = 0 \/ (tm'.pid = tm.pid /\ \A p \in Partition : tm'.seq[p] \in Nat /\ tm.seq[p] <= tm'.seq[p])
    PROVE  DInv'
<1>0. Closed /\ OneByOne /\ Numbered
  BY DEF DInv
<1>1. \A i \in drained :
        /\ i \in InQueues(queues) /\ i \in DOMAIN batch /\ batch[i].tp \in D /\ i = Head(queues[batch[i].tp])
        /\ batch[i].final = "none" /\ batch[i].tp \notin muted
        /\ guarantee_message_order => \A j \in DOMAIN batch : j # i /\ Related(i, j) /\ batch[j].final = "none" =>
               i < j /\ batch[j].open /\ ~UnderWay(j)
  BY FirstsOK
<1>2. \A i, j \in drained : batch[i].tp = batch[j].tp => i = j
  BY <1>1
<1>3. Frozen
  <2>1. \A i \in drained : ~batch[i].open => batch[i].retry
    BY <1>0, <1>1 DEF Closed
  <2>2. QED
    BY <2>1 DEF Frozen
<1>4. \A n \in Node : \A k \in DOMAIN wire'[n] :
        (k \in DOMAIN wire[n] /\ wire'[n][k] = wire[n][k]) \/ wire'[n][k] \subseteq drained
  BY RequestedOK
<1>5. \A i : UnderWay(i)' => UnderWay(i) \/ i \in drained
  <2>1. \A i : OnWire(i)' => OnWire(i) \/ i \in drained
    BY <1>4 DEF OnWire
  <2>2. \A i : HasAnswer(i)' => HasAnswer(i)
    BY DEF HasAnswer
  <2>3. QED
    BY <2>1, <2>2 DEF UnderWay
<1>6. \A i \in DOMAIN batch : batch'[i].final = "SUCCEEDED" => batch[i].final = "SUCCEEDED"
  OBVIOUS
<1>7. Closed'
  <2>1. \A i \in InQueues(queues') : batch'[i].open <=> ~batch'[i].retry
    <3>1. \A i \in InQueues(queues) : i \in DOMAIN batch
      BY Typed
    <3>2. QED
      BY <1>0, <3>1 DEF Closed
  <2>2. \A n \in Node : \A k \in DOMAIN wire'[n] : \A i, j \in wire'[n][k] : batch'[i].tp = batch'[j].tp => i = j
    <3> SUFFICES ASSUME NEW n \in Node, NEW k \in DOMAIN wire'[n], NEW i \in wire'[n][k], NEW j \in wire'[n][k],
                        batch'[i].tp = batch'[j].tp
                 PROVE  i = j
      OBVIOUS
    <3>1. CASE k \in DOMAIN wire[n] /\ wire'[n][k] = wire[n][k]
      <4>1. i \in DOMAIN batch /\ j \in DOMAIN batch
        BY <3>1, BatchesSent
      <4>2. Related(i, j)
        BY <4>1 DEF Related
      <4>3. QED
        BY <1>0, <3>1, <4>2 DEF Closed
    <3>2. CASE wire'[n][k] \subseteq drained
      <4>1. i \in drained /\ j \in drained /\ i \in DOMAIN batch /\ j \in DOMAIN batch
        BY <1>1, <3>2
      <4>2. QED
        BY <1>2, <4>1
    <3>3. QED
      BY <1>4, <3>1, <3>2
  <2>3. \A i \in DOMAIN batch' :
               /\ UnderWay(i)' => (i \in DOMAIN batch /\ UnderWay(i)) \/ ~batch'[i].open
               /\ batch'[i].final = "SUCCEEDED" => i \in DOMAIN batch /\ (batch[i].final = "SUCCEEDED" \/ HasAnswer(i))
               /\ i \notin DOMAIN batch => i \notin stray /\ ~InLog(i)'
    BY <1>5, <1>6
  <2>4. QED
    BY <1>3, <2>1, <2>2, <2>3, ClosedKept
<1>8. OneByOne'
  <2>1. ASSUME guarantee_message_order, NEW i \in DOMAIN batch, UnderWay(i)' PROVE batch'[i].tp \in muted'
    <3>1. muted' = muted \cup D
      BY <2>1 DEF mute
    <3>2. batch[i].tp \in muted \/ batch[i].tp \in D
      BY <1>0, <1>1, <1>5, <2>1 DEF OneByOne
    <3>3. QED
      BY <3>1, <3>2
  <2>2. ASSUME guarantee_message_order, NEW i \in drained, NEW j \in DOMAIN batch, UnderWay(j), batch[i].tp = batch[j].tp
        PROVE  FALSE
    BY <1>0, <1>1, <2>2 DEF OneByOne
  <2>3. ASSUME guarantee_message_order, NEW i \in DOMAIN batch, NEW j \in DOMAIN batch, UnderWay(i)', UnderWay(j)',
               batch'[i].tp = batch'[j].tp
        PROVE  i = j
    <3>1. batch[i].tp = batch[j].tp /\ (UnderWay(i) \/ i \in drained) /\ (UnderWay(j) \/ j \in drained)
      BY <1>5, <2>3
    <3>2. CASE UnderWay(i) /\ UnderWay(j)
      BY <1>0, <2>3, <3>1, <3>2 DEF OneByOne, Related
    <3>3. QED
      BY <1>2, <2>2, <2>3, <3>1, <3>2
  <2>4. ASSUME guarantee_message_order, NEW j \in DOMAIN batch, ~batch'[j].open
        PROVE  ~batch[j].open \/ \A i \in DOMAIN batch : i < j /\ Related(i, j) => batch[i].final # "none"
    <3>1. CASE j \in drained
      <4> SUFFICES ASSUME NEW i \in DOMAIN batch, i < j, Related(i, j), batch[i].final = "none" PROVE FALSE
        OBVIOUS
      <4>1. i \in Nat /\ j \in Nat
        BY <2>4, Typed
      <4>2. i # j /\ ~(j < i)
        BY <4>1
      <4>3. j < i
        BY <1>1, <2>4, <3>1, <4>2 DEF Related
      <4>4. QED
        BY <4>2, <4>3
    <3>2. QED
      BY <2>4, <3>1
  <2>5. QED
    BY <1>3, <2>1, <2>3, <2>4, OneByOneKept
<1>9. ASSUME managed, NEW i \in drained, batch[i].open PROVE Fresh(i)
  <2>1. i \in DOMAIN batch /\ ~batch[i].retry /\ tm.pid # 0 /\ guarantee_message_order
    BY <1>0, <1>1, <1>9, Ordered DEF Closed
  <2>2. batch'[i].pid = tm.pid /\ batch'[i].seq = tm.seq[batch[i].tp] /\ batch'[i].final # "SUCCEEDED"
    BY <1>1, <1>9, <2>1
  <2>3. ASSUME NEW j \in DOMAIN batch, j # i, ~batch'[j].open, batch'[j].tp = batch'[i].tp
        PROVE  ~batch[j].open /\ batch[j].final # "none"
    <3>1. batch[j].tp = batch[i].tp
      BY <2>1, <2>3
    <3>2. ~batch[j].open
      BY <1>2, <2>3, <3>1
    <3>3. QED
      BY <1>1, <2>1, <2>3, <3>1, <3>2 DEF Related
  <2>4. QED
    BY <2>1, <2>2, <2>3 DEF Fresh
<1>10. Numbered'
  <2>1. ~managed => \A i \in DOMAIN batch' : batch'[i].pid = 0
    BY <1>0 DEF Numbered
  <2>2. managed => \A i \in DOMAIN batch' :
               /\ ~batch'[i].open => i \in DOMAIN batch /\ (~batch[i].open \/ Fresh(i))
               /\ batch'[i].final = "SUCCEEDED" /\ batch[i].final # "SUCCEEDED" /\ batch[i].pid = tm.pid /\ tm'.pid # 0 =>
                      batch[i].seq + batch[i].count <= tm'.seq[batch[i].tp]
    BY <1>6, <1>9
  <2>3. QED
    BY <1>3, <2>1, <2>2, NumberedKept
<1>11. Recorded'
  <2>1. \A k \in DOMAIN answers' : \E l \in DOMAIN answers : answers'[k] = answers[l]
    OBVIOUS
  <2>2. QED
    BY <1>3, <1>6, <2>1, RecordedKept
<1>12. QED
  BY <1>7, <1>8, <1>10, <1>11 DEF DInv

\* What is left in the queues is in its order.
LEMMA LeftRising ==
    ASSUME IInv, NEW D \in SUBSET Partition, \A p \in D : queues[p] # <<>>, \A p \in Partition : Rising(queues[p]),
           NEW p \in Partition
    PROVE  Rising(Trimmed(Rests(queues, D))[p])
<1> DEFINE q == queues[p]
           r == IF p \in D THEN Tail(q) ELSE q
           n == late(r)
<1>1. q \in Seq(Nat) /\ Rising(q) /\ (p \in D => q # <<>>) /\ aged \in Nat
  <2>1. aged \in 0 .. Len(batch) /\ Len(batch) \in Nat
    BY Typed DEF IInv
  <2>2. QED
    BY <2>1, Typed
<1>2. Trimmed(Rests(queues, D))[p] = SubSeq(r, n + 1, Len(r))
  BY DEF Trimmed, Rests
<1> HIDE DEF q
<1>3. r \in Seq(Nat) /\ Rising(r)
  BY <1>1, RisingQueue
<1> HIDE DEF r
<1>4. n \in 0 .. Len(r)
  BY <1>1, <1>3, LateOK
<1> HIDE DEF n
<1>5. QED
  BY <1>2, <1>3, <1>4, RisingQueue

LEMMA SendsDeliver == ASSUME IInv, DInv, sends_data PROVE DInv'
<1> DEFINE m == after_asking
<1>1. /\ Placed(batch, queues, incomplete, in_flight_batches) /\ batch \in Seq(BatchRecord)
      /\ sender \in Thread /\ ManagerInv(tm, sender.request, app, incomplete) /\ aged \in Nat
  <2>1. aged \in 0 .. Len(batch) /\ Len(batch) \in Nat
    BY Typed DEF IInv
  <2>2. QED
    BY <2>1, Typed DEF IInv
<1>2. sender.pc = "run" /\ nothing_to_ask /\ ~failed(m) /\ UNCHANGED <<answers, stray, log, coord, mode>>
  BY DEF sends_data, runs, brokers
<1>3. sender.request = NoRequest
  BY <1>1, <1>2 DEF Thread
<1>4. ManagerInv(m, NoRequest, app, incomplete) /\ Like(tm, m) /\ HasNumbers(m)
  BY <1>1, <1>2, <1>3, AfterAskingOK, LikeAsked
<1>5. PICK D \in SUBSET {p \in Partition : drainable(p)} : _send_producer_data(D, m)
  BY DEF sends_data
<1> DEFINE drained == Firsts(queues, D)
           rest    == Rests(queues, D)
           flying  == in_flight_batches \cup drained
           F       == expired_in_flight(flying)
           expired == Expired(rest, F)
           sent    == [i \in DOMAIN batch |-> IF i \in drained THEN stamped(batch[i]) ELSE batch[i]]
           raises  == expired # {} /\ fail_raises(m, "timeout")
           after   == transition_to_abortable_error(m)
<1> HIDE DEF m
<1>6. /\ queues' = Trimmed(rest) /\ in_flight_batches' = flying \ expired /\ mute(D)
      /\ batch' = IF raises THEN sent ELSE settled(sent, expired, "FAILED")
      /\ tm' \in {m, after, reset_producer_id(m), reset_producer_id(after)}
      /\ wire' \in {wire, requests(drained)}
  <2>1. queues' = Trimmed(rest)
    BY <1>5 DEF _send_producer_data, Rests, Trimmed
  <2>2. in_flight_batches' = flying \ expired /\ mute(D)
    BY <1>5 DEF _send_producer_data, Firsts, Rests, Late, Expired
  <2>3. batch' = IF raises THEN sent ELSE settled(sent, expired, "FAILED")
    BY <1>5 DEF _send_producer_data, Firsts, Rests, Late, Expired
  <2>4. tm' \in {m, after, reset_producer_id(m), reset_producer_id(after)}
    BY <1>5 DEF _send_producer_data
  <2>5. wire' \in {wire, requests(drained)}
    BY <1>5 DEF _send_producer_data, Firsts
  <2>6. QED
    BY <2>1, <2>2, <2>3, <2>4, <2>5
<1>7. D \in SUBSET Partition /\ \A p \in D : queues[p] # <<>> /\ p \notin muted /\ (managed => tm.pid # 0)
  BY DEF drainable, has_producer_id
<1> HIDE DEF drained, rest, F, sent, after
<1>8. /\ Placed(batch, rest, incomplete, flying)
      /\ InQueues(rest) = InQueues(queues) \ drained /\ drained \subseteq InQueues(queues)
  BY <1>1, <1>7, PlacedDrained DEF drained, rest
<1>9. /\ sent \in Seq(BatchRecord) /\ DOMAIN sent = DOMAIN batch
      /\ \A i \in DOMAIN batch : sent[i].tp = batch[i].tp /\ sent[i].final = batch[i].final
  BY <1>1, StampedOK DEF sent, ManagerInv
<1>10. Placed(sent, rest, incomplete, flying) /\ F \in SUBSET flying
  BY <1>8, <1>9, PlacedSame DEF F, expired_in_flight
<1> HIDE DEF flying
<1>11. expired \subseteq incomplete /\ InQueues(Trimmed(rest)) \subseteq InQueues(rest)
  <2>1. expired \subseteq incomplete
    BY <1>1, <1>10, ExpiredOK
  <2>2. InQueues(Trimmed(rest)) \subseteq InQueues(rest)
    BY <1>1, <1>10, ExpiredOK
  <2>3. QED
    BY <2>1, <2>2
<1>12. ~raises
  BY <1>2, <1>4, <1>11, NotRaised
<1> HIDE DEF raises, expired
<1>13. batch' = settled(sent, expired, "FAILED")
  BY <1>6, <1>12
<1>14. /\ DOMAIN batch' = DOMAIN batch
       /\ \A i \in DOMAIN batch :
             /\ batch'[i].tp = sent[i].tp /\ batch'[i].open = sent[i].open /\ batch'[i].retry = sent[i].retry
             /\ batch'[i].pid = sent[i].pid /\ batch'[i].seq = sent[i].seq /\ batch'[i].count = sent[i].count
             /\ batch'[i].final = IF i \in expired THEN "FAILED" ELSE sent[i].final
  BY <1>9, <1>13, SettledKeeps
<1>15. \A i \in DOMAIN batch :
         /\ sent[i].count = batch[i].count /\ sent[i].retry = batch[i].retry
         /\ i \notin drained => sent[i] = batch[i]
         /\ i \in drained =>
                /\ ~sent[i].open
                /\ managed /\ ~batch[i].retry => sent[i].pid = tm.pid /\ sent[i].seq = tm.seq[batch[i].tp]
                /\ ~managed \/ batch[i].retry => sent[i].pid = batch[i].pid /\ sent[i].seq = batch[i].seq
  <2> SUFFICES ASSUME NEW i \in DOMAIN batch
               PROVE  /\ sent[i].count = batch[i].count /\ sent[i].retry = batch[i].retry
                      /\ i \notin drained => sent[i] = batch[i]
                      /\ i \in drained =>
                             /\ ~sent[i].open
                             /\ managed /\ ~batch[i].retry => sent[i].pid = tm.pid /\ sent[i].seq = tm.seq[batch[i].tp]
                             /\ ~managed \/ batch[i].retry => sent[i].pid = batch[i].pid /\ sent[i].seq = batch[i].seq
    OBVIOUS
  <2>1. sent[i] = IF i \in drained THEN stamped(batch[i]) ELSE batch[i]
    BY DEF sent
  <2>2. QED
    BY <2>1, StampedKeeps
<1>16. \A i \in DOMAIN batch :
         /\ batch[i].final # "none" => batch'[i].final = batch[i].final
         /\ batch'[i].final \in {batch[i].final, "FAILED"}
  <2>1. \A i \in expired : batch[i].final = "none"
    BY <1>11, Typed
  <2>2. QED
    BY <1>9, <1>14, <2>1
<1>17. \A i \in InQueues(queues') : i \in InQueues(queues) /\ i \notin drained
  BY <1>6, <1>8, <1>11
<1>18. guarantee_message_order => \A p \in Partition : Rising(queues'[p])
  <2>1. OneByOne
    BY DEF DInv
  <2>2. QED
    BY <1>6, <1>7, <2>1, LeftRising DEF OneByOne, rest
<1>19. tm'.pid = 0 \/ (tm'.pid = tm.pid /\ \A p \in Partition : tm'.seq[p] \in Nat /\ tm.seq[p] <= tm'.seq[p])
  <2>1. Like(m, after) /\ HasNumbers(after) /\ Like(tm, after)
    BY <1>4, LikeState, LikeLike, Typed DEF after
  <2>2. reset_producer_id(m).pid = 0 /\ reset_producer_id(after).pid = 0
    BY <1>4, <2>1 DEF reset_producer_id, HasNumbers
  <2>3. Like(tm, tm') \/ tm'.pid = 0
    BY <1>4, <1>6, <2>1, <2>2
  <2>4. QED
    BY <2>3, Typed DEF Like
<1>20. in_flight_batches' \subseteq in_flight_batches \cup drained /\ mute(D) /\ wire' \in {wire, requests(drained)}
  BY <1>6 DEF flying
<1>21. \A i \in DOMAIN batch :
         /\ batch'[i].tp = batch[i].tp /\ batch'[i].count = batch[i].count /\ batch'[i].retry = batch[i].retry
         /\ i \notin drained =>
                batch'[i].open = batch[i].open /\ batch'[i].pid = batch[i].pid /\ batch'[i].seq = batch[i].seq
         /\ i \in drained =>
                /\ ~batch'[i].open
                /\ managed /\ ~batch[i].retry => batch'[i].pid = tm.pid /\ batch'[i].seq = tm.seq[batch[i].tp]
                /\ ~managed \/ batch[i].retry => batch'[i].pid = batch[i].pid /\ batch'[i].seq = batch[i].seq
  BY <1>9, <1>14, <1>15
<1>22. drained = Firsts(queues, D)
  BY DEF drained
<1>23. QED
  BY <1>2, <1>7, <1>14, <1>16, <1>17, <1>18, <1>19, <1>20, <1>21, <1>22, DrainedDeliver

-----------------------------------------------------------------------------
(* Every step.                                                                *)

LEMMA DeliversFirst == Init => DInv
<1> SUFFICES ASSUME Init PROVE DInv
  OBVIOUS
<1>1. /\ DOMAIN batch = {} /\ \A p \in Partition : queues[p] = <<>> /\ DOMAIN log[p] = {}
      /\ \A n \in Node : DOMAIN wire[n] = {}
      /\ DOMAIN answers = {} /\ tm.pid = 0 /\ coord.pid = 0 /\ ~coord.fenced
  BY DEF Init, TransactionManager
<1>2. InQueues(queues) = {}
  BY <1>1 DEF InQueues, Elements
<1>3. Closed
  BY <1>1, <1>2 DEF Closed
<1>4. OneByOne
  <2>1. \A p \in Partition : Rising(queues[p])
    BY <1>1 DEF Rising
  <2>2. QED
    BY <1>1, <2>1 DEF OneByOne
<1>5. Numbered
  BY <1>1 DEF Numbered
<1>6. Recorded
  BY <1>1 DEF Recorded
<1>7. QED
  BY <1>3, <1>4, <1>5, <1>6 DEF DInv

LEMMA DeliversNext == ASSUME IInv, DInv, NumbersSuffice, [Next]_vars PROVE DInv'
<1>1. CASE UNCHANGED vars \/ TimePasses
  BY <1>1, TimeQuiet
<1>2. CASE Application
  BY <1>2, CallsQuiet, AppendDelivers
<1>3. CASE Sender
  <2>1. CASE \/ waits_for_producer_id \/ _maybe_wait_for_producer_id \/ _maybe_send_transactional_request
             \/ request_sent \/ request_put_off \/ only_polls \/ poll_returns \/ (run_ends /\ ~sender.force)
    BY <2>1, SenderQuiet
  <2>2. CASE aborts_batches \/ aborts_undrained \/ (run_ends /\ sender.force)
    BY <2>2, AbortsDeliver
  <2>3. CASE sends_data
    BY <2>3, SendsDeliver
  <2>4. CASE completes
    BY <2>4, CompletesDelivers
  <2>5. QED
    BY <1>3, <2>1, <2>2, <2>3, <2>4 DEF Sender
<1>4. CASE Broker
  BY <1>4, AnswersDeliver, StrayDelivers, CoordinatorQuiet DEF Broker
<1>5. QED
  BY <1>1, <1>2, <1>3, <1>4 DEF Next

LEMMA FirstWritten ==
    ASSUME IInv, NEW i \in DOMAIN batch, Written(i) # {}
    PROVE  First(i) \in Written(i) /\ First(i) \in Nat /\ \A k \in Written(i) : First(i) <= k
<1>1. Written(i) \in SUBSET Nat
  <2>1. DOMAIN log[batch[i].tp] \in SUBSET Nat
    BY Typed
  <2>2. QED
    BY <2>1 DEF Written
<1>2. \E n \in Written(i) : \A k \in Written(i) : n <= k
  BY <1>1, Smallest
<1>3. First(i) \in Written(i) /\ \A k \in Written(i) : First(i) <= k
  BY <1>2 DEF First
<1>4. QED
  BY <1>1, <1>3

LEMMA Delivered == ASSUME IInv, DInv PROVE DeliverySound
<1>0. Closed /\ Numbered /\ Recorded
  BY DEF DInv
<1>1. \A i \in DOMAIN batch : InLog(i) <=> Written(i) # {}
  BY DEF InLog, Written
<1>2. ASSUME NEW i \in DOMAIN batch, batch[i].final = "SUCCEEDED", ~NumberTaken(i) PROVE Written(i) # {}
  <2>1. PICK j \in DOMAIN batch :
               InLog(j) /\ (i = j \/ (batch[i].pid # 0 /\ SameNumber(i, j) /\ batch[i].count = batch[j].count))
    BY <1>0, <1>2 DEF Recorded, Accounted
  <2>2. CASE i = j
    BY <1>1, <2>1, <2>2
  <2>3. CASE i # j
    <3>1. managed /\ ~batch[i].open /\ ~batch[j].open
      BY <1>0, <1>2, <2>1, <2>3 DEF Closed, Numbered
    <3>2. batch[j].final \in {"FAILED", "ABORTED"}
      BY <1>0, <1>2, <2>1, <2>3, <3>1 DEF Numbered, GivenUp
    <3>3. NumberTaken(i)
      BY <1>1, <2>1, <2>3, <3>2 DEF NumberTaken, SameNumber, Related, Of
    <3>4. QED
      BY <1>2, <3>3
  <2>4. QED
    BY <2>2, <2>3
<1>3. ASSUME managed, NEW i \in DOMAIN batch PROVE Cardinality(Written(i)) <= 1
  <2>1. \A j, k \in Written(i) : j = k
    <3>1. batch[i].tp \in Partition
      BY Typed
    <3>2. QED
      BY <1>0, <1>3, <3>1 DEF Recorded, Written
  <2>2. CASE Written(i) = {}
    BY <2>2, FS_EmptySet
  <2>3. CASE Written(i) # {}
    <3>1. PICK k : Written(i) = {k}
      BY <2>1, <2>3
    <3>2. Cardinality({k}) = 1
      BY FS_Singleton
    <3>3. QED
      BY <3>1, <3>2
  <2>4. QED
    BY <2>2, <2>3
<1>4. ASSUME guarantee_message_order, NEW p \in Partition, NEW i \in Of(p), NEW j \in Of(p),
             i < j, Written(i) # {}, Written(j) # {}, batch[i].final = "SUCCEEDED"
      PROVE  First(i) < First(j)
  <2>1. i \in DOMAIN batch /\ j \in DOMAIN batch /\ batch[i].tp = p /\ batch[j].tp = p
    BY DEF Of
  <2>2. First(j) \in Nat /\ First(j) \in DOMAIN log[p] /\ log[p][First(j)].b = j
    <3>1. First(j) \in Written(j) /\ First(j) \in Nat
      BY <1>4, <2>1, FirstWritten
    <3>2. QED
      BY <2>1, <3>1 DEF Written
  <2>3. InLog(i)
    BY <1>1, <1>4, <2>1
  <2>4. PICK m \in DOMAIN log[p] : m < First(j) /\ log[p][m].b = i
    BY <1>0, <1>4, <2>1, <2>2, <2>3 DEF Recorded
  <2>5. m \in Written(i) /\ m \in Nat
    BY <2>1, <2>4, Typed DEF Written
  <2>6. First(i) \in Nat /\ First(i) <= m
    BY <1>4, <2>1, <2>5, FirstWritten
  <2>7. QED
    BY <2>2, <2>4, <2>5, <2>6
<1>5. AcknowledgedIsWritten
  BY <1>2, <1>3 DEF AcknowledgedIsWritten, Id
<1>6. WrittenInOrder
  BY <1>4 DEF WrittenInOrder
<1>7. QED
  BY <1>5, <1>6 DEF DeliverySound

\* Sender, ProducerBatch, TransactionManager: a record the application was told is written
\* has been written, or has the number of an earlier batch that was given up and had been
\* written; an idempotent or transactional producer has written none twice; and with
\* one request in flight those that are acknowledged are written in the order they were
\* sent in: whatever is sent again, expires, is aborted, is answered with an error, or
\* arrives after its connection is lost.  The hypothesis is that the sequence numbers have
\* not come to the end of their 31 bits.
THEOREM DeliveryAlwaysSound == Spec /\ []NumbersSuffice => []DeliverySound
<1>1. IInv /\ DInv /\ NumbersSuffice /\ [Next]_vars => DInv'
  BY DeliversNext
<1>2. IInv /\ DInv => DeliverySound
  BY Delivered
<1>3. QED
  BY <1>1, <1>2, DeliversFirst, Invariantly, PTL DEF Spec
=============================================================================
