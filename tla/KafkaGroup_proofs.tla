------------------------- MODULE KafkaGroup_proofs --------------------------
(* Proofs about KafkaGroup, for any consumers, partitions, faults and bounds:
   how a JoinGroup travels, which generation a response may take away, and that
   what the members work on is what the leader gave to them.                 *)
EXTENDS KafkaGroup, SequenceTheorems, TLAPS

-----------------------------------------------------------------------------
(* Sequences of whatever they are made of. *)

IsSeq(s) == s \in Seq({s[k] : k \in DOMAIN s})

LEMMA SeqIsSeq ==
    ASSUME NEW S, NEW s \in Seq(S)
    PROVE  IsSeq(s)
<1>1. PICK n \in Nat : s \in [1 .. n -> S]
  BY SeqDef
<1>2. s \in [1 .. n -> {s[k] : k \in DOMAIN s}]
  BY <1>1
<1>3. QED
  BY SMTT(30), <1>2, SeqDef DEF IsSeq

LEMMA EnlargedSeq ==
    ASSUME NEW s, IsSeq(s), NEW e
    PROVE  s \in Seq({s[k] : k \in DOMAIN s} \cup {e})
<1>1. PICK n \in Nat : s \in [1 .. n -> {s[k] : k \in DOMAIN s}]
  BY SeqDef DEF IsSeq
<1>2. s \in [1 .. n -> {s[k] : k \in DOMAIN s} \cup {e}]
  BY <1>1
<1>3. QED
  BY <1>2, SeqDef

\* One more at the end.
LEMMA AppendSeq ==
    ASSUME NEW s, IsSeq(s), NEW e
    PROVE  /\ IsSeq(Append(s, e)) /\ DOMAIN Append(s, e) = 1 .. Len(s) + 1 /\ Len(Append(s, e)) = Len(s) + 1
           /\ Len(s) \in Nat /\ DOMAIN s = 1 .. Len(s)
           /\ \A k \in 1 .. Len(s) : Append(s, e)[k] = s[k]
           /\ Append(s, e)[Len(s) + 1] = e
<1> DEFINE S == {s[k] : k \in DOMAIN s} \cup {e}
<1>1. s \in Seq(S) /\ e \in S
  BY EnlargedSeq
<1> HIDE DEF S
<1>2. Append(s, e) \in Seq(S)
  BY <1>1
<1>3. IsSeq(Append(s, e))
  BY <1>2, SeqIsSeq
<1>4. QED
  BY <1>1, <1>2, <1>3

\* The first taken away.
LEMMA TailSeq ==
    ASSUME NEW s, IsSeq(s), s # <<>>
    PROVE  /\ IsSeq(Tail(s)) /\ Len(s) \in Nat \ {0} /\ Len(Tail(s)) = Len(s) - 1
           /\ DOMAIN s = 1 .. Len(s) /\ DOMAIN Tail(s) = 1 .. Len(s) - 1
           /\ \A k \in 1 .. Len(s) - 1 : Tail(s)[k] = s[k + 1]
           /\ Head(s) = s[1]
<1> DEFINE S == {s[k] : k \in DOMAIN s}
<1>1. s \in Seq(S)
  BY DEF IsSeq
<1> HIDE DEF S
<1>2. Tail(s) \in Seq(S)
  BY <1>1
<1>3. IsSeq(Tail(s))
  BY <1>2, SeqIsSeq
<1>4. QED
  BY <1>1, <1>2, <1>3

\* The first replaced.
LEMMA ReplaceSeq ==
    ASSUME NEW s, IsSeq(s), s # <<>>, NEW e
    PROVE  /\ IsSeq(<<e>> \o Tail(s)) /\ Len(s) \in Nat \ {0} /\ Len(<<e>> \o Tail(s)) = Len(s)
           /\ DOMAIN s = 1 .. Len(s) /\ DOMAIN (<<e>> \o Tail(s)) = 1 .. Len(s)
           /\ \A k \in 2 .. Len(s) : (<<e>> \o Tail(s))[k] = s[k]
           /\ (<<e>> \o Tail(s))[1] = e
           /\ Head(s) = s[1]
<1> DEFINE S == {s[k] : k \in DOMAIN s} \cup {e}
<1>1. s \in Seq(S) /\ e \in S
  BY EnlargedSeq
<1> HIDE DEF S
<1>2. Tail(s) \in Seq(S) /\ <<e>> \in Seq(S)
  BY <1>1
<1>3. <<e>> \o Tail(s) \in Seq(S)
  BY <1>1, <1>2
<1>4. IsSeq(<<e>> \o Tail(s))
  BY <1>3, SeqIsSeq
<1>5. Len(<<e>> \o Tail(s)) = 1 + Len(Tail(s)) /\ \A k \in 2 .. 1 + Len(Tail(s)) : (<<e>> \o Tail(s))[k] = Tail(s)[k - 1]
  BY <1>1, <1>2
<1>6. (<<e>> \o Tail(s))[1] = e
  BY <1>1, <1>2
<1>7. QED
  BY <1>3, <1>4, <1>5, <1>6, TailSeq

LEMMA EmptyIsSeq == IsSeq(<<>>) /\ DOMAIN <<>> = {} /\ Len(<<>>) = 0
<1>1. <<>> \in Seq({})
  OBVIOUS
<1>2. IsSeq(<<>>)
  BY <1>1, SeqIsSeq
<1>3. QED
  BY <1>1, <1>2

\* What Deliver puts behind the rest.
LEMMA ConcatSeq ==
    ASSUME NEW s, IsSeq(s), NEW e
    PROVE  s \o <<>> = s /\ s \o <<e>> = Append(s, e)
<1> DEFINE S == {s[k] : k \in DOMAIN s} \cup {e}
<1>1. s \in Seq(S) /\ e \in S
  BY EnlargedSeq
<1> HIDE DEF S
<1>2. QED
  BY <1>1

-----------------------------------------------------------------------------
(* A consumer c and what it has in flight, w.  While a JoinGroup is in flight
   the consumer is not STABLE, so that neither thread sends a request of a
   generation behind it; and whatever is in flight, but a LeaveGroup, has been
   sent under the generation the consumer still has, if it has one.          *)

JoinAlone(c, w) ==
    \A k \in DOMAIN w : w[k].type = "join" =>
        c.state # "STABLE" /\ k = 1 /\ \A l \in 2 .. Len(w) : w[l].type = "leave"

OfGeneration(c, w) == \A k \in DOMAIN w : w[k].type # "leave" /\ c.gen # NoGen => w[k].gen = c.gen

Travels(c, w) ==
    /\ {"state", "gen"} \subseteq DOMAIN c
    /\ IsSeq(w) /\ \A k \in DOMAIN w : {"type", "gen"} \subseteq DOMAIN w[k]
    /\ JoinAlone(c, w) /\ OfGeneration(c, w)

\* d is c after a step in which it has got no generation and not become STABLE.
Keeps(d, c) ==
    /\ {"state", "gen"} \subseteq DOMAIN d
    /\ d.gen \in {c.gen, NoGen}
    /\ d.state = c.state \/ d.state # "STABLE"

LEMMA KeepsTravels ==
    ASSUME NEW c, NEW w, Travels(c, w), NEW d, Keeps(d, c)
    PROVE  Travels(d, w)
BY DEF Travels, JoinAlone, OfGeneration, Keeps

LEMMA EmptyTravels ==
    ASSUME NEW d, {"state", "gen"} \subseteq DOMAIN d
    PROVE  Travels(d, <<>>)
<1>1. DOMAIN <<>> = {} /\ IsSeq(<<>>)
  BY EmptyIsSeq
<1>2. QED
  BY <1>1 DEF Travels, JoinAlone, OfGeneration

\* A request of the generation, of a STABLE consumer, or a LeaveGroup.
LEMMA AppendTravels ==
    ASSUME NEW d, NEW w, Travels(d, w), NEW e, {"type", "gen"} \subseteq DOMAIN e,
           e.type # "join", e.type = "leave" \/ (d.state = "STABLE" /\ e.gen = d.gen)
    PROVE  Travels(d, Append(w, e))
<1> USE DEF Travels
<1> DEFINE v == Append(w, e)
<1>1. /\ IsSeq(v) /\ DOMAIN v = 1 .. Len(w) + 1 /\ Len(v) = Len(w) + 1 /\ Len(w) \in Nat
      /\ DOMAIN w = 1 .. Len(w) /\ (\A k \in 1 .. Len(w) : v[k] = w[k]) /\ v[Len(w) + 1] = e
  BY AppendSeq
<1> HIDE DEF v
<1>2. JoinAlone(d, v)
  BY <1>1 DEF JoinAlone
<1>3. OfGeneration(d, v)
  BY <1>1 DEF OfGeneration
<1>4. \A k \in DOMAIN v : {"type", "gen"} \subseteq DOMAIN v[k]
  BY <1>1
<1>5. QED
  BY <1>1, <1>2, <1>3, <1>4 DEF v

\* A JoinGroup on a connection with nothing else in flight.
LEMMA JoinTravels ==
    ASSUME NEW w, IsSeq(w), Len(w) = 0, NEW d, {"state", "gen"} \subseteq DOMAIN d, d.state # "STABLE",
           NEW e, {"type", "gen"} \subseteq DOMAIN e, e.gen = d.gen
    PROVE  Travels(d, Append(w, e))
<1> DEFINE v == Append(w, e)
<1>1. IsSeq(v) /\ DOMAIN v = 1 .. Len(w) + 1 /\ Len(v) = Len(w) + 1 /\ v[Len(w) + 1] = e
  BY AppendSeq
<1> HIDE DEF v
<1>2. DOMAIN v = {1} /\ Len(v) = 1 /\ v[1] = e
  BY <1>1
<1>3. QED
  BY <1>1, <1>2 DEF Travels, JoinAlone, OfGeneration, v

\* The first request is answered; only a SyncGroup may make the consumer STABLE.
LEMMA TailTravels ==
    ASSUME NEW c, NEW w, Travels(c, w), w # <<>>, NEW d, {"state", "gen"} \subseteq DOMAIN d,
           d.gen \in {c.gen, NoGen}
    PROVE  Travels(d, Tail(w))
<1> USE DEF Travels
<1> DEFINE v == Tail(w)
<1>1. /\ IsSeq(v) /\ Len(w) \in Nat \ {0} /\ Len(v) = Len(w) - 1 /\ DOMAIN w = 1 .. Len(w)
      /\ DOMAIN v = 1 .. Len(w) - 1 /\ (\A k \in 1 .. Len(w) - 1 : v[k] = w[k + 1])
  BY TailSeq
<1> HIDE DEF v
<1>2. \A k \in DOMAIN v : v[k].type # "join"
  BY <1>1 DEF JoinAlone
<1>3. OfGeneration(d, v)
  BY <1>1 DEF OfGeneration
<1>4. \A k \in DOMAIN v : {"type", "gen"} \subseteq DOMAIN v[k]
  BY <1>1
<1>5. QED
  BY <1>1, <1>2, <1>3, <1>4 DEF v, JoinAlone

\* A JoinGroup is answered, and there is nothing of a generation behind it.
LEMMA JoinTailTravels ==
    ASSUME NEW c, NEW w, Travels(c, w), w # <<>>, w[1].type = "join", NEW d, {"state", "gen"} \subseteq DOMAIN d
    PROVE  Travels(d, Tail(w))
<1> USE DEF Travels
<1> DEFINE v == Tail(w)
<1>1. /\ IsSeq(v) /\ Len(w) \in Nat \ {0} /\ DOMAIN w = 1 .. Len(w)
      /\ DOMAIN v = 1 .. Len(w) - 1 /\ (\A k \in 1 .. Len(w) - 1 : v[k] = w[k + 1])
  BY TailSeq
<1> HIDE DEF v
<1>2. \A k \in DOMAIN v : v[k].type = "leave" /\ {"type", "gen"} \subseteq DOMAIN v[k]
  BY <1>1 DEF JoinAlone
<1>3. QED
  BY <1>1, <1>2 DEF v, JoinAlone, OfGeneration

\* A JoinGroup is answered: the SyncGroup that follows has the new generation.
LEMMA SyncTravels ==
    ASSUME NEW c, NEW w, Travels(c, w), w # <<>>, w[1].type = "join", NEW d, {"state", "gen"} \subseteq DOMAIN d,
           NEW e, {"type", "gen"} \subseteq DOMAIN e, e.type # "join", e.gen = d.gen
    PROVE  Travels(d, Append(Tail(w), e))
<1> USE DEF Travels
<1> DEFINE u == Tail(w)
           v == Append(u, e)
<1>1. /\ IsSeq(u) /\ Len(w) \in Nat \ {0} /\ Len(u) = Len(w) - 1 /\ DOMAIN w = 1 .. Len(w)
      /\ DOMAIN u = 1 .. Len(w) - 1 /\ (\A k \in 1 .. Len(w) - 1 : u[k] = w[k + 1])
  BY TailSeq
<1> HIDE DEF u
<1>2. /\ IsSeq(v) /\ DOMAIN v = 1 .. Len(w) /\ (\A k \in 1 .. Len(w) - 1 : v[k] = w[k + 1]) /\ v[Len(w)] = e
  BY <1>1, AppendSeq
<1> HIDE DEF v
<1>3. \A k \in 1 .. Len(w) - 1 : v[k].type = "leave"
  BY <1>1, <1>2 DEF JoinAlone
<1>4. OfGeneration(d, v)
  BY <1>1, <1>2, <1>3 DEF OfGeneration
<1>5. JoinAlone(d, v)
  BY <1>1, <1>2, <1>3 DEF JoinAlone
<1>6. ASSUME NEW k \in DOMAIN v PROVE {"type", "gen"} \subseteq DOMAIN v[k]
  <2>1. CASE k \in 1 .. Len(w) - 1
    BY <1>1, <1>2, <2>1
  <2>2. CASE k = Len(w)
    BY <1>2, <2>2
  <2>3. QED
    BY <1>1, <1>2, <2>1, <2>2
<1>7. QED
  BY <1>2, <1>4, <1>5, <1>6 DEF v, u

\* The cluster answers or parks the first request.
LEMMA ReplaceTravels ==
    ASSUME NEW c, NEW w, Travels(c, w), w # <<>>, NEW e, {"type", "gen"} \subseteq DOMAIN e,
           e.type = Head(w).type, e.gen = Head(w).gen
    PROVE  Travels(c, <<e>> \o Tail(w))
<1> USE DEF Travels
<1> DEFINE v == <<e>> \o Tail(w)
<1>1. /\ IsSeq(v) /\ Len(w) \in Nat \ {0} /\ Len(v) = Len(w) /\ DOMAIN w = 1 .. Len(w) /\ DOMAIN v = 1 .. Len(w)
      /\ (\A k \in 2 .. Len(w) : v[k] = w[k]) /\ v[1] = e /\ Head(w) = w[1]
  BY ReplaceSeq
<1> HIDE DEF v
<1>2. \A k \in DOMAIN w : v[k].type = w[k].type /\ v[k].gen = w[k].gen /\ {"type", "gen"} \subseteq DOMAIN v[k]
  BY <1>1
<1>3. QED
  BY <1>1, <1>2 DEF v, JoinAlone, OfGeneration

-----------------------------------------------------------------------------
(* The invariant, and one step of one consumer.                              *)

IInv ==
    /\ DOMAIN consumer = Consumer /\ DOMAIN wire = Consumer
    /\ \A m \in Consumer : Travels(consumer[m], wire[m])

OnlyOf(m) ==
    /\ DOMAIN consumer' = Consumer /\ DOMAIN wire' = Consumer
    /\ \A n \in Consumer \ {m} : consumer'[n] = consumer[n] /\ wire'[n] = wire[n]

LEMMA OneConsumer ==
    ASSUME IInv, NEW m \in Consumer, OnlyOf(m), Travels(consumer'[m], wire'[m])
    PROVE  IInv'
BY DEF IInv, OnlyOf

\* Steps that send nothing and receive nothing.
LEMMA LocalStep ==
    ASSUME IInv, NEW m \in Consumer, UNCHANGED wire, DOMAIN consumer' = Consumer,
           \A n \in Consumer \ {m} : consumer'[n] = consumer[n], Keeps(consumer'[m], consumer[m])
    PROVE  IInv'
<1>1. Travels(consumer'[m], wire'[m])
  BY KeepsTravels DEF IInv
<1>2. QED
  BY <1>1, OneConsumer DEF IInv, OnlyOf

\* A request of a STABLE consumer's generation, or a LeaveGroup, is sent.
LEMMA SendStep ==
    ASSUME IInv, NEW m \in Consumer, NEW e, Push(m, e), DOMAIN consumer' = Consumer,
           \A n \in Consumer \ {m} : consumer'[n] = consumer[n], Keeps(consumer'[m], consumer[m]),
           {"type", "gen"} \subseteq DOMAIN e, e.type # "join",
           e.type = "leave" \/ (consumer'[m].state = "STABLE" /\ e.gen = consumer'[m].gen)
    PROVE  IInv'
<1>1. Travels(consumer'[m], wire[m])
  BY KeepsTravels DEF IInv
<1>2. Travels(consumer'[m], Append(wire[m], e))
  BY <1>1, AppendTravels
<1>3. wire' = [wire EXCEPT ![m] = Append(wire[m], e)]
  BY DEF Push
<1>4. wire'[m] = Append(wire[m], e) /\ OnlyOf(m)
  BY <1>3 DEF OnlyOf, IInv
<1>5. QED
  BY <1>2, <1>4, OneConsumer

\* A response arrives and nothing is sent.
LEMMA ReceiveStep ==
    ASSUME IInv, NEW m \in Consumer, NEW type, NEW d, Deliver(m, type, d, <<>>),
           {"state", "gen"} \subseteq DOMAIN d, d.gen \in {consumer[m].gen, NoGen}
    PROVE  IInv'
<1>1. Travels(consumer[m], wire[m]) /\ wire[m] # <<>>
  BY DEF IInv, Deliver, Answered
<1>2. Travels(d, Tail(wire[m]))
  BY <1>1, TailTravels
<1>3. Tail(wire[m]) \o <<>> = Tail(wire[m])
  BY <1>2, ConcatSeq DEF Travels
<1>4. consumer'[m] = d /\ wire'[m] = Tail(wire[m]) /\ OnlyOf(m)
  BY <1>3 DEF Deliver, OnlyOf, IInv
<1>5. QED
  BY <1>2, <1>4, OneConsumer

-----------------------------------------------------------------------------
(* The operations.                                                           *)

(* What the threads do to a consumer without a request.                      *)
LEMMA LocalActions ==
    ASSUME IInv, NEW m \in Consumer,
           \/ lookup_coordinator(m) \/ poll(m) \/ commit_timeout(m) \/ on_join_prepare(m) \/ join_timeout(m)
           \/ on_join_complete(m) \/ join_failed(m) \/ subscribe(m) \/ run_once_disable(m) \/ run_once_session_expired(m)
    PROVE  IInv'
<1>1. /\ UNCHANGED wire /\ DOMAIN consumer' = Consumer
      /\ \A n \in Consumer \ {m} : consumer'[n] = consumer[n]
  BY DEF IInv, lookup_coordinator, poll, commit_timeout, on_join_prepare, join_timeout,
         on_join_complete, join_failed, subscribe, run_once_disable, run_once_session_expired
<1>2. {"state", "gen"} \subseteq DOMAIN consumer[m] /\ DOMAIN consumer = Consumer
  BY DEF IInv, Travels
<1>3. Keeps(consumer'[m], consumer[m])
  <2>1. CASE lookup_coordinator(m)
    BY <2>1, <1>2 DEF lookup_coordinator, handle_group_coordinator_response, Keeps
  <2>2. CASE poll(m)
    BY <2>2, <1>2 DEF poll, Keeps
  <2>3. CASE commit_timeout(m)
    BY <2>3, <1>2 DEF commit_timeout, Keeps
  <2>4. CASE on_join_prepare(m)
    BY <2>4, <1>2 DEF on_join_prepare, Keeps
  <2>5. CASE join_timeout(m)
    BY <2>5, <1>2 DEF join_timeout, Keeps
  <2>6. CASE on_join_complete(m)
    BY <2>6, <1>2 DEF on_join_complete, Keeps
  <2>7. CASE join_failed(m)
    BY <2>7, <1>2 DEF join_failed, Keeps
  <2>8. CASE subscribe(m)
    BY <2>8, <1>2 DEF subscribe, Keeps
  <2>9. CASE run_once_disable(m)
    BY <2>9, <1>2 DEF run_once_disable, Keeps
  <2>10. CASE run_once_session_expired(m)
    BY <2>10, <1>2 DEF run_once_session_expired, coordinator_dead, Keeps
  <2>11. QED
    BY <2>1, <2>2, <2>3, <2>4, <2>5, <2>6, <2>7, <2>8, <2>9, <2>10
<1>4. QED
  BY <1>1, <1>3, LocalStep

\* A consumer that leaves, with c what it is by then.
LEMMA LeaveStep ==
    ASSUME IInv, NEW m \in Consumer, NEW c, Keeps(c, consumer[m]), maybe_leave_group(m, c)
    PROVE  IInv'
<1>1. DOMAIN consumer = Consumer /\ {"state", "gen"} \subseteq DOMAIN c
  BY DEF IInv, Keeps
<1>2. CASE c.coordinator /\ c.state # "UNJOINED" /\ c.id # NoId
  <2> DEFINE e == Request("leave", c, {}, <<>>)
  <2>1. Push(m, e) /\ consumer' = [consumer EXCEPT ![m] = [c EXCEPT !.leaving = TRUE]]
    BY <1>2 DEF maybe_leave_group
  <2>2. Keeps(consumer'[m], consumer[m])
    BY <1>1, <2>1 DEF Keeps
  <2>3. {"type", "gen"} \subseteq DOMAIN e /\ e.type = "leave"
    BY DEF Request
  <2> HIDE DEF e
  <2>4. QED
    BY <1>1, <2>1, <2>2, <2>3, SendStep
<1>3. CASE ~(c.coordinator /\ c.state # "UNJOINED" /\ c.id # NoId)
  <2>1. consumer' = [consumer EXCEPT ![m] = reset_generation(c, NoId)] /\ UNCHANGED wire
    BY <1>3 DEF maybe_leave_group
  <2>2. Keeps(reset_generation(c, NoId), consumer[m])
    BY <1>1 DEF Keeps, reset_generation
  <2>3. QED
    BY <1>1, <2>1, <2>2, LocalStep
<1>4. QED
  BY <1>2, <1>3

LEMMA LeaveActions ==
    ASSUME IInv, NEW m \in Consumer, unsubscribe(m) \/ close(m) \/ run_once_poll_expired(m)
    PROVE  IInv'
<1> USE DEF Keeps
<1>1. {"state", "gen"} \subseteq DOMAIN consumer[m] /\ DOMAIN consumer = Consumer
  BY DEF IInv, Travels
<1>2. CASE unsubscribe(m)
  <2> DEFINE c == [consumer[m] EXCEPT !.subscribed = FALSE, !.assigned = {}]
  <2>1. Keeps(c, consumer[m])
    BY <1>1
  <2>2. maybe_leave_group(m, c)
    BY <1>2 DEF unsubscribe
  <2> HIDE DEF c
  <2>3. QED
    BY <2>1, <2>2, LeaveStep
<1>3. CASE run_once_poll_expired(m)
  <2>1. Keeps(consumer[m], consumer[m]) /\ maybe_leave_group(m, consumer[m])
    BY <1>1, <1>3 DEF run_once_poll_expired
  <2>2. QED
    BY <2>1, LeaveStep
<1>4. ASSUME consumer' = [consumer EXCEPT ![m].closing = TRUE, ![m].pc = "prepare"], UNCHANGED wire PROVE IInv'
  <2>1. Keeps(consumer'[m], consumer[m])
    BY <1>1, <1>4
  <2>2. QED
    BY <1>1, <1>4, <2>1, LocalStep
<1>5. ASSUME maybe_leave_group(m, [consumer[m] EXCEPT !.enabled = FALSE, !.pc = "closed"]) PROVE IInv'
  <2> DEFINE c == [consumer[m] EXCEPT !.enabled = FALSE, !.pc = "closed"]
  <2>1. Keeps(c, consumer[m])
    BY <1>1
  <2>2. maybe_leave_group(m, c)
    BY <1>5
  <2> HIDE DEF c
  <2>3. QED
    BY <2>1, <2>2, LeaveStep
<1>6. QED
  BY <1>2, <1>3, <1>4, <1>5 DEF close

(* Requests of the generation: commits and heartbeats of a STABLE consumer.  *)
LEMMA SendActions ==
    ASSUME IInv, NEW m \in Consumer,
           maybe_auto_commit_offsets_sync(m) \/ commit_offsets_async(m) \/ run_once_heartbeat(m)
    PROVE  IInv'
<1>1. {"state", "gen"} \subseteq DOMAIN consumer[m] /\ DOMAIN consumer = Consumer
  BY DEF IInv, Travels
<1>2. CASE commit_offsets_async(m)
  <2> DEFINE e == send_offset_commit_request(consumer[m], "commit")
  <2>1. Push(m, e) /\ UNCHANGED consumer /\ consumer[m].state = "STABLE"
    BY <1>2 DEF commit_offsets_async, generation_if_stable
  <2>2. {"type", "gen"} \subseteq DOMAIN e /\ e.type = "commit" /\ e.gen = consumer[m].gen
    BY DEF send_offset_commit_request, Request
  <2> HIDE DEF e
  <2>3. QED
    BY <1>1, <2>1, <2>2, SendStep DEF Keeps
<1>3. CASE run_once_heartbeat(m)
  <2> DEFINE e == send_heartbeat_request(consumer[m])
  <2>1. Push(m, e) /\ UNCHANGED consumer /\ consumer[m].state = "STABLE"
    BY <1>3 DEF run_once_heartbeat
  <2>2. {"type", "gen"} \subseteq DOMAIN e /\ e.type = "heartbeat" /\ e.gen = consumer[m].gen
    BY DEF send_heartbeat_request, Request
  <2> HIDE DEF e
  <2>3. QED
    BY <1>1, <2>1, <2>2, SendStep DEF Keeps
<1>4. CASE maybe_auto_commit_offsets_sync(m) /\ consumer[m].assigned # {} /\ generation_if_stable(consumer[m])
  <2> DEFINE e == send_offset_commit_request(consumer[m], "sync_commit")
  <2>1. Push(m, e) /\ consumer' = [consumer EXCEPT ![m].pc = "commit"] /\ consumer[m].state = "STABLE"
    BY <1>4 DEF maybe_auto_commit_offsets_sync, generation_if_stable
  <2>2. /\ Keeps(consumer'[m], consumer[m]) /\ consumer'[m].state = "STABLE" /\ consumer'[m].gen = consumer[m].gen
    BY <1>1, <2>1 DEF Keeps
  <2>3. {"type", "gen"} \subseteq DOMAIN e /\ e.type = "sync_commit" /\ e.gen = consumer[m].gen
    BY DEF send_offset_commit_request, Request
  <2> HIDE DEF e
  <2>4. DOMAIN consumer' = Consumer /\ \A n \in Consumer \ {m} : consumer'[n] = consumer[n]
    BY <1>1, <2>1
  <2>5. QED
    BY <2>1, <2>2, <2>3, <2>4, SendStep
<1>5. CASE maybe_auto_commit_offsets_sync(m) /\ ~(consumer[m].assigned # {} /\ generation_if_stable(consumer[m]))
  <2>1. UNCHANGED wire /\ consumer' = [consumer EXCEPT ![m].pc = "prepared"]
    BY <1>5 DEF maybe_auto_commit_offsets_sync
  <2>2. Keeps(consumer'[m], consumer[m])
    BY <1>1, <2>1 DEF Keeps
  <2>3. QED
    BY <1>1, <2>1, <2>2, LocalStep
<1>6. QED
  BY <1>2, <1>3, <1>4, <1>5

(* JoinGroup waits until nothing is in flight.                               *)
LEMMA JoinAction ==
    ASSUME IInv, NEW m \in Consumer, initiate_join_group(m)
    PROVE  IInv'
<1>1. /\ {"state", "gen"} \subseteq DOMAIN consumer[m] /\ DOMAIN consumer = Consumer /\ DOMAIN wire = Consumer
      /\ IsSeq(wire[m])
  BY DEF IInv, Travels
<1>2. CASE consumer[m].join = "none"
  <2> DEFINE e == send_join_group_request(consumer[m])
  <2>1. /\ wire[m] = <<>> /\ wire' = [wire EXCEPT ![m] = Append(wire[m], e)]
        /\ consumer' = [consumer EXCEPT ![m].state = "REBALANCING", ![m].join = "pending", ![m].pc = "await"]
    BY <1>2 DEF initiate_join_group, Push
  <2>2. /\ {"state", "gen"} \subseteq DOMAIN consumer'[m] /\ consumer'[m].state = "REBALANCING"
        /\ consumer'[m].gen = consumer[m].gen
    BY <1>1, <2>1
  <2>3. {"type", "gen"} \subseteq DOMAIN e /\ e.gen = consumer[m].gen
    BY DEF send_join_group_request, Request
  <2> HIDE DEF e
  <2>4. Len(wire[m]) = 0
    BY <2>1
  <2>5. Travels(consumer'[m], Append(wire[m], e))
    BY <1>1, <2>2, <2>3, <2>4, JoinTravels
  <2>6. wire'[m] = Append(wire[m], e) /\ OnlyOf(m)
    BY <1>1, <2>1 DEF OnlyOf
  <2>7. QED
    BY <2>5, <2>6, OneConsumer
<1>3. CASE consumer[m].join # "none"
  <2>1. UNCHANGED wire /\ consumer' = [consumer EXCEPT ![m].pc = "await"]
    BY <1>3 DEF initiate_join_group
  <2>2. Keeps(consumer'[m], consumer[m])
    BY <1>1, <2>1 DEF Keeps
  <2>3. QED
    BY <1>1, <2>1, <2>2, LocalStep
<1>4. QED
  BY <1>2, <1>3

(* Responses.  JoinFails and reset_generation lose the generation, keep it,
   and make nobody STABLE.                                                   *)
HasFields(c) == {"state", "gen"} \subseteq DOMAIN c

LEMMA Results ==
    ASSUME NEW c, HasFields(c), NEW kind
    PROVE  /\ HasFields(JoinFails(c, kind)) /\ JoinFails(c, kind).gen = c.gen
           /\ HasFields(reset_generation(c, kind)) /\ reset_generation(c, kind).gen = NoGen
           /\ HasFields(request_rejoin(c)) /\ request_rejoin(c).gen = c.gen
           /\ HasFields(coordinator_dead(c)) /\ coordinator_dead(c).gen = c.gen
           /\ HasFields(JoinSucceeds(c, kind)) /\ JoinSucceeds(c, kind).gen = c.gen
BY DEF HasFields, JoinFails, reset_generation, request_rejoin, coordinator_dead, JoinSucceeds

LEMMA Receives ==
    ASSUME IInv, NEW m \in Consumer, NEW type, NEW d, Deliver(m, type, d, <<>>),
           HasFields(d), d.gen \in {consumer[m].gen, NoGen}
    PROVE  IInv'
BY ReceiveStep DEF HasFields

\* The answer to a JoinGroup that is followed by a SyncGroup.
LEMMA SyncFollows ==
    ASSUME IInv, NEW m \in Consumer, NEW d, NEW e, Deliver(m, "join", d, <<e>>),
           HasFields(d), {"type", "gen"} \subseteq DOMAIN e, e.type = "sync", e.gen = d.gen
    PROVE  IInv'
<1>1. /\ Travels(consumer[m], wire[m]) /\ wire[m] # <<>> /\ Head(wire[m]).type = "join"
      /\ DOMAIN consumer = Consumer /\ DOMAIN wire = Consumer
  BY DEF IInv, Deliver, Answered
<1>2. wire[m][1].type = "join" /\ IsSeq(Tail(wire[m]))
  BY <1>1, TailSeq DEF Travels
<1>3. Travels(d, Append(Tail(wire[m]), e))
  BY <1>1, <1>2, SyncTravels DEF HasFields
<1>4. Tail(wire[m]) \o <<e>> = Append(Tail(wire[m]), e)
  BY <1>2, ConcatSeq
<1>5. consumer'[m] = d /\ wire'[m] = Append(Tail(wire[m]), e) /\ OnlyOf(m)
  BY <1>1, <1>4 DEF Deliver, OnlyOf
<1>6. QED
  BY <1>3, <1>5, OneConsumer

LEMMA JoinAnswered ==
    ASSUME IInv, NEW m \in Consumer, NEW d, Deliver(m, "join", d, <<>>), HasFields(d)
    PROVE  IInv'
<1>1. /\ Travels(consumer[m], wire[m]) /\ wire[m] # <<>> /\ Head(wire[m]).type = "join"
      /\ DOMAIN consumer = Consumer /\ DOMAIN wire = Consumer
  BY DEF IInv, Deliver, Answered
<1>2. wire[m][1].type = "join" /\ IsSeq(Tail(wire[m]))
  BY <1>1, TailSeq DEF Travels
<1>3. Travels(d, Tail(wire[m]))
  BY <1>1, <1>2, JoinTailTravels DEF HasFields
<1>4. Tail(wire[m]) \o <<>> = Tail(wire[m])
  BY <1>2, ConcatSeq
<1>5. consumer'[m] = d /\ wire'[m] = Tail(wire[m]) /\ OnlyOf(m)
  BY <1>1, <1>4 DEF Deliver, OnlyOf
<1>6. QED
  BY <1>3, <1>5, OneConsumer

LEMMA JoinResponse ==
    ASSUME IInv, NEW m \in Consumer, handle_join_group_response(m)
    PROVE  IInv'
<1> DEFINE c == consumer[m]
           r == OldestReply(m)
           fresh == IF c.state = "REBALANCING" THEN [c EXCEPT !.gen = r.gen, !.id = r.id]
                    ELSE JoinFails(c, "retriable")
           sync == IF r.leader THEN on_join_leader(fresh, r) ELSE on_join_follower(fresh)
<1>1. HasFields(c)
  BY DEF IInv, Travels, HasFields
<1>2. HasFields(fresh)
  BY <1>1, Results DEF HasFields
<1>3. {"type", "gen"} \subseteq DOMAIN sync /\ sync.type = "sync" /\ sync.gen = fresh.gen
  BY DEF on_join_leader, on_join_follower, send_sync_group_request, Request
<1>4. \/ Deliver(m, "join", fresh, <<sync>>)
      \/ Deliver(m, "join", JoinFails(fresh, "retriable"), <<>>)
      \/ Deliver(m, "join", JoinFails(reset_generation(c, NoId), r.error), <<>>)
      \/ Deliver(m, "join", JoinFails(reset_generation(c, r.id), r.error), <<>>)
      \/ Deliver(m, "join", JoinFails(coordinator_dead(c), "retriable"), <<>>)
      \/ Deliver(m, "join", JoinFails(c, "fatal"), <<>>)
  BY DEF handle_join_group_response
<1>5. CASE Deliver(m, "join", fresh, <<sync>>)
  <2> HIDE DEF fresh, sync, c, r
  <2>1. QED
    BY <1>2, <1>3, <1>5, SyncFollows
<1>6. CASE Deliver(m, "join", JoinFails(fresh, "retriable"), <<>>)
  <2> DEFINE d == JoinFails(fresh, "retriable")
  <2>1. HasFields(d)
    BY <1>2, Results
  <2> HIDE DEF d, fresh, r, sync
  <2>2. QED
    BY <1>6, <2>1, JoinAnswered DEF d
<1>7. ASSUME Deliver(m, "join", JoinFails(reset_generation(c, NoId), r.error), <<>>)
      PROVE  IInv'
  <2> DEFINE d == JoinFails(reset_generation(c, NoId), r.error)
  <2>1. HasFields(d)
    BY <1>1, Results
  <2> HIDE DEF d, fresh, r, sync
  <2>2. QED
    BY <1>7, <2>1, JoinAnswered DEF d
<1>8. ASSUME Deliver(m, "join", JoinFails(reset_generation(c, r.id), r.error), <<>>)
      PROVE  IInv'
  <2> DEFINE d == JoinFails(reset_generation(c, r.id), r.error)
  <2>1. HasFields(d)
    BY <1>1, Results
  <2> HIDE DEF d, fresh, r, sync
  <2>2. QED
    BY <1>8, <2>1, JoinAnswered DEF d
<1>9. ASSUME Deliver(m, "join", JoinFails(coordinator_dead(c), "retriable"), <<>>)
      PROVE  IInv'
  <2> DEFINE d == JoinFails(coordinator_dead(c), "retriable")
  <2>1. HasFields(d)
    BY <1>1, Results
  <2> HIDE DEF d, fresh, r, sync
  <2>2. QED
    BY <1>9, <2>1, JoinAnswered DEF d
<1>10. ASSUME Deliver(m, "join", JoinFails(c, "fatal"), <<>>)
       PROVE  IInv'
  <2> DEFINE d == JoinFails(c, "fatal")
  <2>1. HasFields(d)
    BY <1>1, Results
  <2> HIDE DEF d, fresh, r, sync
  <2>2. QED
    BY <1>10, <2>1, JoinAnswered DEF d
<1> HIDE DEF fresh, sync, c, r
<1>11. QED
  BY <1>4, <1>5, <1>6, <1>7, <1>8, <1>9, <1>10

LEMMA SyncResponse ==
    ASSUME IInv, NEW m \in Consumer, handle_sync_group_response(m)
    PROVE  IInv'
<1> DEFINE c == consumer[m]
           r == OldestReply(m)
           a == JoinSucceeds(c, r.parts)
           b == JoinFails(request_rejoin(c), r.error)
           d == JoinFails(reset_generation(c, NoId), r.error)
           e == JoinFails(coordinator_dead(request_rejoin(c)), "retriable")
<1>1. HasFields(c)
  BY DEF IInv, Travels, HasFields
<1>2. \A f \in {a, b, d, e} : HasFields(f) /\ f.gen \in {c.gen, NoGen}
  <2>1. HasFields(a) /\ a.gen = c.gen
    BY <1>1, Results
  <2>2. HasFields(request_rejoin(c)) /\ request_rejoin(c).gen = c.gen
    BY <1>1, Results
  <2>3. HasFields(b) /\ b.gen = c.gen
    BY <2>2, Results
  <2>4. HasFields(reset_generation(c, NoId)) /\ reset_generation(c, NoId).gen = NoGen
    BY <1>1, Results
  <2>5. HasFields(d) /\ d.gen = NoGen
    BY <2>4, Results
  <2>6. HasFields(coordinator_dead(request_rejoin(c))) /\ coordinator_dead(request_rejoin(c)).gen = c.gen
    BY <2>2, Results
  <2>7. HasFields(e) /\ e.gen = c.gen
    BY <2>6, Results
  <2>8. QED
    BY <2>1, <2>3, <2>5, <2>7
<1>3. \E f \in {a, b, d, e} : Deliver(m, "sync", f, <<>>)
  BY DEF handle_sync_group_response
<1> HIDE DEF a, b, d, e, r
<1>4. QED
  BY <1>2, <1>3, Receives

LEMMA HeartbeatResponse ==
    ASSUME IInv, NEW m \in Consumer, handle_heartbeat_response(m)
    PROVE  IInv'
<1> DEFINE c == consumer[m]
<1>1. HasFields(c)
  BY DEF IInv, Travels, HasFields
<1>2. \A f \in {c, request_rejoin(c), reset_generation(c, NoId), coordinator_dead(c)} :
         HasFields(f) /\ f.gen \in {c.gen, NoGen}
  BY <1>1, Results
<1>3. \E f \in {c, request_rejoin(c), reset_generation(c, NoId), coordinator_dead(c)} : Deliver(m, "heartbeat", f, <<>>)
  BY DEF handle_heartbeat_response
<1>4. QED
  BY <1>2, <1>3, Receives

LEMMA CommitResponse ==
    ASSUME IInv, NEW m \in Consumer, handle_offset_commit_response(m)
    PROVE  IInv'
<1> DEFINE c == consumer[m]
           r == OldestReply(m)
           after == CASE r.error = "ok" -> consumer[m]
                      [] r.error = "rebalance" -> request_rejoin(consumer[m])
                      [] r.error = "not_coordinator" -> coordinator_dead(consumer[m])
                      [] OTHER -> reset_generation(consumer[m], NoId)
           next == IF r.error = "not_coordinator" THEN "prepare" ELSE "prepared"
           back == [after EXCEPT !.pc = next]
<1>1. HasFields(c)
  BY DEF IInv, Travels, HasFields
<1>2. after \in {c, request_rejoin(c), coordinator_dead(c), reset_generation(c, NoId)}
  BY Zenon
<1>3. HasFields(after) /\ after.gen \in {c.gen, NoGen}
  <2> HIDE DEF after
  <2>1. QED
    BY <1>1, <1>2, Results
<1>4. HasFields(back) /\ back.gen = after.gen
  <2> HIDE DEF after, next
  <2>1. QED
    BY <1>3 DEF HasFields
<1>5. \/ Deliver(m, "commit", after, <<>>)
      \/ Deliver(m, "sync_commit", IF c.pc = "commit" THEN back ELSE after, <<>>)
  BY DEF handle_offset_commit_response
<1> HIDE DEF after, back
<1>6. \/ Deliver(m, "commit", after, <<>>) \/ Deliver(m, "sync_commit", back, <<>>)
      \/ Deliver(m, "sync_commit", after, <<>>)
  BY <1>5
<1>7. QED
  BY <1>3, <1>4, <1>6, Receives

LEMMA LeaveResponse ==
    ASSUME IInv, NEW m \in Consumer, handle_leave_group_response(m)
    PROVE  IInv'
<1> DEFINE d == [reset_generation(consumer[m], NoId) EXCEPT !.leaving = FALSE]
<1>1. HasFields(consumer[m])
  BY DEF IInv, Travels, HasFields
<1>2. HasFields(d) /\ d.gen = NoGen
  BY <1>1 DEF HasFields, reset_generation
<1>3. Deliver(m, "leave", d, <<>>)
  BY DEF handle_leave_group_response
<1> HIDE DEF d
<1>4. QED
  BY <1>2, <1>3, Receives

(* A lost connection leaves nothing in flight.                               *)
LEMMA LostConnection ==
    ASSUME IInv, NEW m \in Consumer, failed_request(m)
    PROVE  IInv'
<1>1. HasFields(consumer[m]) /\ DOMAIN consumer = Consumer /\ DOMAIN wire = Consumer
  BY DEF IInv, Travels, HasFields
<1>2. HasFields(consumer'[m])
  BY <1>1 DEF failed_request, HasFields, JoinFails, coordinator_dead, reset_generation
<1>3. wire'[m] = <<>> /\ OnlyOf(m)
  BY <1>1 DEF failed_request, OnlyOf
<1>4. Travels(consumer'[m], wire'[m])
  BY <1>2, <1>3, EmptyTravels DEF HasFields
<1>5. QED
  BY <1>3, <1>4, OneConsumer

-----------------------------------------------------------------------------
(* The cluster's coordinator answers or parks the first request of a
   connection, and leaves what it asks for and its generation as they are.   *)

Replaced(v, w) ==
    \/ v = w
    \/ /\ w # <<>>
       /\ \E e : /\ v = <<e>> \o Tail(w) /\ {"type", "gen"} \subseteq DOMAIN e
                 /\ e.type = Head(w).type /\ e.gen = Head(w).gen

LEMMA BrokerStep ==
    ASSUME IInv, UNCHANGED consumer, DOMAIN wire' = Consumer, \A n \in Consumer : Replaced(wire'[n], wire[n])
    PROVE  IInv'
<1>1. ASSUME NEW n \in Consumer
      PROVE  Travels(consumer[n], wire'[n])
  <2>1. Travels(consumer[n], wire[n])
    BY DEF IInv
  <2>2. CASE wire'[n] = wire[n]
    BY <2>1, <2>2
  <2>3. CASE wire'[n] # wire[n]
    <3>1. wire[n] # <<>>
      BY <2>3 DEF Replaced
    <3>2. PICK e : /\ wire'[n] = <<e>> \o Tail(wire[n]) /\ {"type", "gen"} \subseteq DOMAIN e
                   /\ e.type = Head(wire[n]).type /\ e.gen = Head(wire[n]).gen
      BY <2>3 DEF Replaced
    <3>3. Travels(consumer[n], <<e>> \o Tail(wire[n]))
      BY <2>1, <3>1, <3>2, ReplaceTravels
    <3>4. QED
      BY <3>2, <3>3
  <2>4. QED
    BY <2>2, <2>3
<1>2. QED
  BY <1>1 DEF IInv

LEMMA ReplyReplaces ==
    ASSUME IInv, NEW n \in Consumer, wire[n] # <<>>, NEW r, NEW i
    PROVE  /\ Replaced(<<[Head(wire[n]) EXCEPT !.reply = r]>> \o Tail(wire[n]), wire[n])
           /\ Replaced(<<[Head(wire[n]) EXCEPT !.reply = r, !.id = i]>> \o Tail(wire[n]), wire[n])
<1> DEFINE h == Head(wire[n])
           e == [h EXCEPT !.reply = r]
           f == [h EXCEPT !.reply = r, !.id = i]
<1>1. IsSeq(wire[n]) /\ \A k \in DOMAIN wire[n] : {"type", "gen"} \subseteq DOMAIN wire[n][k]
  BY DEF IInv, Travels
<1>2. 1 \in DOMAIN wire[n] /\ h = wire[n][1]
  BY <1>1, TailSeq
<1>3. {"type", "gen"} \subseteq DOMAIN h
  BY <1>1, <1>2
<1> HIDE DEF h
<1>4. {"type", "gen"} \subseteq DOMAIN e /\ e.type = h.type /\ e.gen = h.gen
  BY <1>3
<1>5. {"type", "gen"} \subseteq DOMAIN f /\ f.type = h.type /\ f.gen = h.gen
  BY <1>3
<1> HIDE DEF e, f
<1>6. Replaced(<<e>> \o Tail(wire[n]), wire[n])
  BY <1>4 DEF Replaced, h
<1>7. Replaced(<<f>> \o Tail(wire[n]), wire[n])
  BY <1>5 DEF Replaced, h
<1>8. QED
  BY <1>6, <1>7 DEF e, f, h

LEMMA AnswerStep ==
    ASSUME IInv, UNCHANGED consumer, NEW m \in Consumer, wire[m] # <<>>, NEW r, Answer(m, r)
    PROVE  IInv'
<1> DEFINE v == <<[Head(wire[m]) EXCEPT !.reply = r]>> \o Tail(wire[m])
<1>1. Replaced(v, wire[m])
  BY ReplyReplaces
<1>2. wire' = [wire EXCEPT ![m] = v]
  BY DEF Answer
<1> HIDE DEF v
<1>3. \A n \in Consumer : Replaced(wire'[n], wire[n])
  BY <1>1, <1>2 DEF IInv, Replaced
<1>4. QED
  BY <1>2, <1>3, BrokerStep DEF IInv

\* The requests parked by other members when the group changes.
LEMMA RebalanceReplaces ==
    ASSUME IInv, NEW n \in Consumer, NEW i, NEW removed
    PROVE  /\ Replaced(Rebalance(i, removed, wire[n]), wire[n])
           /\ Replaced(Unpark(i, wire[n]), wire[n])
<1>1. ASSUME NEW b PROVE Replaced(Rebalance(i, b, wire[n]), wire[n])
  <2> DEFINE error == IF b /\ Head(wire[n]).id = i THEN "unknown_member" ELSE "rebalance"
             v == <<[Head(wire[n]) EXCEPT !.reply = Reply(error)]>> \o Tail(wire[n])
  <2>1. Rebalance(i, b, wire[n]) = wire[n] \/ (wire[n] # <<>> /\ Rebalance(i, b, wire[n]) = v)
    BY Zenon DEF Rebalance
  <2>2. wire[n] # <<>> => Replaced(v, wire[n])
    BY ReplyReplaces
  <2> HIDE DEF v
  <2>3. Replaced(wire[n], wire[n])
    BY DEF Replaced
  <2>4. QED
    BY <2>1, <2>2, <2>3
<1>2. Replaced(wire[n], wire[n])
  BY DEF Replaced
<1>3. QED
  BY <1>1, <1>2, Zenon DEF Unpark

LEMMA BrokerAnswers ==
    ASSUME IInv, NEW m \in Consumer, BrokerHeartbeat(m) \/ BrokerCommit(m) \/ BrokerRefuses(m)
    PROVE  IInv'
<1>1. UNCHANGED consumer /\ wire[m] # <<>> /\ \E r : Answer(m, r)
  <2>1. CASE BrokerHeartbeat(m)
    BY <2>1 DEF BrokerHeartbeat, Unanswered
  <2>2. CASE BrokerCommit(m)
    BY <2>2 DEF BrokerCommit, Unanswered
  <2>3. CASE BrokerRefuses(m)
    BY <2>3 DEF BrokerRefuses
  <2>4. QED
    BY <2>1, <2>2, <2>3
<1>2. QED
  BY <1>1, AnswerStep

\* A JoinGroup is refused, or parked while the group rebalances around it.
LEMMA BrokerJoins ==
    ASSUME IInv, NEW m \in Consumer, BrokerJoin(m)
    PROVE  IInv'
<1> DEFINE Entered(i) == [n \in Consumer |->
               IF n = m THEN <<[Head(wire[m]) EXCEPT !.reply = Parked, !.id = i]>> \o Tail(wire[m])
               ELSE Rebalance(i, FALSE, wire[n])]
<1>1. wire[m] # <<>> /\ UNCHANGED consumer
  BY DEF BrokerJoin, Unanswered
<1>2. (\E r : Answer(m, r)) \/ (\E i : wire' = Entered(i))
  BY Zenon DEF BrokerJoin
<1>3. ASSUME NEW i, wire' = Entered(i) PROVE IInv'
  <2>1. \A n \in Consumer : Replaced(Entered(i)[n], wire[n])
    BY <1>1, ReplyReplaces, RebalanceReplaces
  <2>2. QED
    BY <1>1, <1>3, <2>1, BrokerStep
<1>4. QED
  BY <1>1, <1>2, <1>3, AnswerStep

\* The leader's SyncGroup answers the parked ones as well.
LEMMA BrokerSyncs ==
    ASSUME IInv, NEW m \in Consumer, BrokerSync(m)
    PROVE  IInv'
<1> DEFINE q == Head(wire[m])
           Share(i) == [Reply("ok") EXCEPT !.parts = q.grant[i]]
           Finish(w) == IF w # <<>> /\ Head(w).type = "sync" /\ Head(w).reply = Parked
                           /\ Head(w).id \in group.members
                        THEN <<[Head(w) EXCEPT !.reply = Share(Head(w).id)]>> \o Tail(w)
                        ELSE w
           Finished == [n \in Consumer |-> IF n = m THEN <<[q EXCEPT !.reply = Share(q.id)]>> \o Tail(wire[m])
                                           ELSE Finish(wire[n])]
<1>1. wire[m] # <<>> /\ UNCHANGED consumer
  BY DEF BrokerSync, Unanswered
<1>2. (\E r : Answer(m, r)) \/ wire' = Finished
  BY Zenon DEF BrokerSync
<1>3. \A n \in Consumer : Replaced(Finished[n], wire[n])
  <2>1. \A i : Replaced(<<[q EXCEPT !.reply = Share(i)]>> \o Tail(wire[m]), wire[m])
    BY <1>1, ReplyReplaces
  <2>2. ASSUME NEW n \in Consumer PROVE Replaced(Finish(wire[n]), wire[n])
    <3>1. wire[n] # <<>> => Replaced(<<[Head(wire[n]) EXCEPT !.reply = Share(Head(wire[n]).id)]>> \o Tail(wire[n]), wire[n])
      BY ReplyReplaces
    <3>2. Replaced(wire[n], wire[n])
      BY DEF Replaced
    <3> HIDE DEF Share
    <3>3. QED
      BY <3>1, <3>2, Zenon
  <2>3. QED
    BY <2>1, <2>2, Zenon
<1>4. CASE wire' = Finished
  <2> HIDE DEF Finish, Share
  <2>1. DOMAIN wire' = Consumer
    BY <1>4
  <2>2. \A n \in Consumer : Replaced(wire'[n], wire[n])
    BY <1>3, <1>4, Zenon
  <2>3. QED
    BY <1>1, <2>1, <2>2, BrokerStep
<1>5. QED
  BY <1>1, <1>2, <1>4, AnswerStep

\* The members' JoinGroup requests are answered with the next generation.
LEMMA BrokerCompletes ==
    ASSUME IInv, BrokerCompleteJoin
    PROVE  IInv'
<1> DEFINE leader == CHOOSE i \in group.members : \A j \in group.members : i <= j
           Granted(w) == [Reply("ok") EXCEPT !.gen = group.gen + 1, !.id = Head(w).id,
                                             !.leader = Head(w).id = leader,
                                             !.ids = IF Head(w).id = leader THEN group.members ELSE {}]
           Done(w) == IF w # <<>> /\ Head(w).type = "join" /\ Head(w).reply = Parked
                         /\ Head(w).id \in group.members
                      THEN <<[Head(w) EXCEPT !.reply = Granted(w)]>> \o Tail(w)
                      ELSE w
<1>1. UNCHANGED consumer /\ wire' = [n \in Consumer |-> Done(wire[n])]
  BY Zenon DEF BrokerCompleteJoin
<1>2. ASSUME NEW n \in Consumer PROVE Replaced(Done(wire[n]), wire[n])
  <2>1. wire[n] # <<>> => Replaced(<<[Head(wire[n]) EXCEPT !.reply = Granted(wire[n])]>> \o Tail(wire[n]), wire[n])
    BY ReplyReplaces
  <2>2. Replaced(wire[n], wire[n])
    BY DEF Replaced
  <2> HIDE DEF Granted
  <2>3. QED
    BY <2>1, <2>2, Zenon
<1> HIDE DEF Done
<1>3. DOMAIN wire' = Consumer /\ \A n \in Consumer : Replaced(wire'[n], wire[n])
  BY <1>1, <1>2
<1>4. QED
  BY <1>1, <1>3, BrokerStep

\* A member leaves, or is given up.
LEMMA BrokerRemoves ==
    ASSUME IInv,
           \/ \E m \in Consumer : BrokerLeave(m)
           \/ \E i \in group.members \cup group.pending : BrokerExpire(i) \/ BrokerExpireOrphan(i)
    PROVE  IInv'
<1>1. ASSUME NEW m \in Consumer, BrokerLeave(m) PROVE IInv'
  <2> DEFINE i == Head(wire[m]).id
             left == <<[Head(wire[m]) EXCEPT !.reply = Reply("ok")]>> \o Tail(wire[m])
  <2>1. /\ UNCHANGED consumer /\ wire[m] # <<>>
        /\ wire' = [n \in Consumer |-> IF n = m THEN left ELSE Unpark(i, wire[n])]
    BY <1>1 DEF BrokerLeave, Unanswered
  <2>2. Replaced(left, wire[m])
    BY <2>1, ReplyReplaces
  <2> HIDE DEF left
  <2>3. \A n \in Consumer : Replaced(wire'[n], wire[n])
    BY <2>1, <2>2, RebalanceReplaces
  <2>4. QED
    BY <2>1, <2>3, BrokerStep
<1>2. ASSUME NEW i, BrokerExpire(i) \/ BrokerExpireOrphan(i) PROVE IInv'
  <2>1. UNCHANGED consumer /\ wire' = [n \in Consumer |-> Unpark(i, wire[n])]
    BY <1>2 DEF BrokerExpire, BrokerExpireOrphan
  <2>2. \A n \in Consumer : Replaced(wire'[n], wire[n])
    BY <2>1, RebalanceReplaces
  <2>3. QED
    BY <2>1, <2>2, BrokerStep
<1>3. QED
  BY <1>1, <1>2

-----------------------------------------------------------------------------
(* The theorems.                                                             *)

LEMMA InitIInv == Init => IInv
<1> SUFFICES ASSUME Init PROVE IInv
  OBVIOUS
<1>1. DOMAIN consumer = Consumer /\ DOMAIN wire = Consumer
  BY DEF Init
<1>2. ASSUME NEW m \in Consumer PROVE Travels(consumer[m], wire[m])
  <2>1. wire[m] = <<>> /\ consumer[m] = NewConsumer
    BY DEF Init
  <2>2. {"state", "gen"} \subseteq DOMAIN consumer[m]
    BY <2>1 DEF NewConsumer
  <2>3. QED
    BY <2>1, <2>2, EmptyTravels
<1>3. QED
  BY <1>1, <1>2 DEF IInv

LEMMA NextIInv == IInv /\ [Next]_vars => IInv'
<1> SUFFICES ASSUME IInv, [Next]_vars PROVE IInv'
  OBVIOUS
<1>1. ASSUME NEW m \in Consumer,
             lookup_coordinator(m) \/ Main(m) \/ Application(m) \/ HeartbeatThread(m)
      PROVE  IInv'
  BY <1>1, LocalActions, LeaveActions, SendActions, JoinAction DEF Main, Application, HeartbeatThread
<1>2. ASSUME NEW m \in Consumer, Responses(m) \/ failed_request(m) PROVE IInv'
  BY <1>2, JoinResponse, SyncResponse, HeartbeatResponse, CommitResponse, LeaveResponse, LostConnection DEF Responses
<1>3. ASSUME NEW m \in Consumer, Broker(m) \/ BrokerRefuses(m) PROVE IInv'
  BY <1>3, BrokerAnswers, BrokerJoins, BrokerSyncs, BrokerRemoves DEF Broker
<1>4. CASE BrokerCompleteJoin
  BY <1>4, BrokerCompletes
<1>5. CASE \E i \in group.members \cup group.pending : BrokerExpire(i) \/ BrokerExpireOrphan(i)
  BY <1>5, BrokerRemoves
<1>6. CASE UNCHANGED vars
  BY <1>6 DEF IInv, vars
<1>7. QED
  BY <1>1, <1>2, <1>3, <1>4, <1>5, <1>6 DEF Next, Expiry

LEMMA Invariant == Spec => []IInv
BY InitIInv, NextIInv, PTL DEF Spec

\* JoinGroup waits for the requests in flight, and only a LeaveGroup may be
\* sent behind it: no heartbeat and no commit of a generation given up.
THEOREM JoinAloneTheorem == Spec => []JoinTravelsAlone
<1>1. IInv => JoinTravelsAlone
  BY DEF IInv, Travels, JoinAlone, JoinTravelsAlone
<1>2. QED
  BY <1>1, Invariant, PTL

\* A response resets only the generation its own request was made under.
THEOREM ResetTheorem == Spec => NoStaleReset
<1>1. IInv /\ [Next]_vars => [\A m \in Consumer :
         (consumer[m].gen # NoGen /\ consumer'[m].gen = NoGen /\ wire[m] # <<>> /\ wire'[m] = Tail(wire[m])
          /\ Head(wire[m]).type # "leave")
         => Head(wire[m]).gen = consumer[m].gen]_vars
  <2> SUFFICES ASSUME IInv, NEW m \in Consumer, consumer[m].gen # NoGen, wire[m] # <<>>,
                      Head(wire[m]).type # "leave"
               PROVE  Head(wire[m]).gen = consumer[m].gen
    OBVIOUS
  <2>1. IsSeq(wire[m]) /\ OfGeneration(consumer[m], wire[m])
    BY DEF IInv, Travels
  <2>2. 1 \in DOMAIN wire[m] /\ Head(wire[m]) = wire[m][1]
    BY <2>1, TailSeq
  <2>3. QED
    BY <2>1, <2>2 DEF OfGeneration
<1>2. QED
  BY <1>1, Invariant, PTL DEF Spec, NoStaleReset

-----------------------------------------------------------------------------
(* Membership.  Of a consumer c, what it has in flight, w, and the group, g.  *)

States == {"UNJOINED", "REBALANCING", "STABLE"}
Counters == {"idle", "prepare", "commit", "prepared", "drain", "await", "closed"}
IsConsumer(c) ==
    /\ DOMAIN c = {"state", "gen", "id", "rejoin_needed", "rejoining", "join", "value", "assigned", "coordinator",
                   "enabled", "leaving", "subscribed", "closing", "pc"}
    /\ c.state \in States /\ c.gen \in Nat /\ c.id \in Nat /\ c.join \in JoinResults /\ c.pc \in Counters
    /\ c.value \subseteq Partition /\ c.assigned \subseteq Partition

Errors == {"none", "parked", "ok", "unknown_member", "illegal_generation", "rebalance", "member_id_required",
           "not_coordinator", "fatal"}
Replies == [error : Errors, gen : Nat, id : Nat, ids : SUBSET Nat, leader : BOOLEAN, parts : SUBSET Partition]

IsRequest(q) ==
    /\ DOMAIN q = {"type", "gen", "id", "parts", "grant", "reply"}
    /\ q.type \in RequestTypes /\ q.gen \in Nat /\ q.id \in Nat /\ q.reply \in Replies
    /\ q.reply.error = "parked" => q.reply = Parked

Gone(i, g) == i \notin g.members \cup g.pending

GroupOK(g) ==
    /\ DOMAIN g = {"phase", "gen", "members", "pending", "joined", "leader", "last", "assignment"}
    /\ g.phase \in {"Empty", "Preparing", "Completing", "Stable"}
    /\ g.gen \in Nat /\ g.last \in Nat /\ g.members \cup g.pending \subseteq 1 .. g.last
    /\ g.phase = "Completing" => g.gen >= 1
    /\ g.phase = "Stable" => g.assignment = Assign(g.members)

ConsumerOK(c, g) ==
    /\ IsConsumer(c) /\ c.gen <= g.gen /\ c.id <= g.last
    /\ c.pc \in {"drain", "await"} => c.rejoining
    /\ c.state = "STABLE" => c.join \in {"none", "success"} /\ c.gen >= 1

WireOK(w, g) ==
    \A k \in DOMAIN w : /\ IsRequest(w[k]) /\ w[k].gen <= g.gen /\ w[k].id <= g.last
                        /\ w[k].reply.gen <= g.gen /\ w[k].reply.id <= g.last

\* Only the oldest request has been answered, and nothing but a LeaveGroup is with a SyncGroup.
InTurn(w) ==
    \A k \in DOMAIN w :
        /\ k > 1 => w[k].reply = NoReply
        /\ w[k].type = "leave" => w[k].id >= 1
        /\ w[k].type = "sync" => \A l \in DOMAIN w \ {k} : w[l].type = "leave"

\* A LeaveGroup that has been answered has removed the member for good.
LeaveOK(w, g) == \A k \in DOMAIN w : w[k].type = "leave" /\ w[k].reply.error # "none" => Gone(w[k].id, g)

\* A JoinGroup is the consumer's, under the id the LeaveGroup behind it has; one that
\* has been granted names the member, and the leader of the generation that waits for it.
JoinOK(c, w, g) ==
    \A k \in DOMAIN w : w[k].type = "join" =>
        /\ c.state = "REBALANCING" => c.id \in {w[k].id, NoId}
        /\ c.state = "UNJOINED" => c.id = NoId /\ c.gen = NoGen
        /\ \A l \in DOMAIN w : w[l].type = "leave" => w[l].id = w[k].id
        /\ w[k].reply.error = "ok" =>
              /\ w[k].reply.id = w[k].id /\ w[k].id >= 1 /\ w[k].reply.gen >= 1
              /\ w[k].reply.gen = g.gen /\ g.phase = "Completing" =>
                    /\ w[k].reply.leader <=> w[k].id = g.leader
                    /\ w[k].reply.leader => w[k].reply.ids = g.members

\* The consumer of a SyncGroup is still rebalancing with the generation it was sent
\* under; or it has been reset, and the member is gone, so that it is not granted.
Good(c, q) == c.state = "REBALANCING" /\ c.coordinator /\ c.gen = q.gen /\ c.gen >= 1 /\ c.id = q.id /\ c.id >= 1
Doomed(c, q, g) == c.state = "UNJOINED" /\ c.gen = NoGen /\ q.reply.error # "ok" /\ Gone(q.id, g)

SyncOK(c, w, g) ==
    \A k \in DOMAIN w : w[k].type = "sync" =>
        /\ Doomed(c, w[k], g) \/ (Good(c, w[k]) /\ \A l \in 1 .. k - 1 : w[l].id = w[k].id)
        /\ w[k].reply.error = "parked" => w[k].gen = g.gen /\ g.phase = "Completing" /\ w[k].id \in g.members
        /\ w[k].gen = g.gen /\ g.phase = "Completing" /\ w[k].id = g.leader => w[k].grant = Assign(g.members)

\* What a consumer works on, or is to work on, in a generation.
Claims(c, w) ==
    (IF c.state = "STABLE"
     THEN {[gen |-> c.gen, id |-> c.id, parts |-> IF c.join = "success" THEN c.value ELSE c.assigned]}
     ELSE {})
    \cup {[gen |-> w[k].gen, id |-> w[k].id, parts |-> w[k].reply.parts] :
             k \in {l \in DOMAIN w : w[l].type = "sync" /\ w[l].reply.error = "ok"}}

\* Nobody has a share of a generation that waits for its leader.  In a stable one it is the
\* leader's, or nothing more of it while the consumer leaves.
ClaimsOK(c, w, g) ==
    \A x \in Claims(c, w) : x.gen = g.gen =>
        /\ g.phase # "Completing"
        /\ g.phase = "Stable" =>
              /\ x.id \in g.members /\ x.parts \subseteq Assign(g.members)[x.id]
              /\ x.parts = Assign(g.members)[x.id] \/ (c.state = "STABLE" /\ c.join = "none" /\ c.leaving)

MemberOK(c, w, g) ==
    /\ ConsumerOK(c, g) /\ WireOK(w, g) /\ InTurn(w) /\ LeaveOK(w, g)
    /\ JoinOK(c, w, g) /\ SyncOK(c, w, g) /\ ClaimsOK(c, w, g)

Ids(c, w) == {c.id} \cup {w[k].id : k \in DOMAIN w} \cup {w[k].reply.id : k \in DOMAIN w}

Apart(c, v, d, w) ==
    /\ Ids(c, v) \cap Ids(d, w) \subseteq {NoId}
    /\ \A x \in Claims(c, v), y \in Claims(d, w) : x.gen = y.gen => x.parts \cap y.parts = {}

Sound ==
    /\ faults \in 0 .. MaxFaults /\ GroupOK(group)
    /\ \A m \in Consumer : MemberOK(consumer[m], wire[m], group)
    /\ \A m, n \in Consumer : m # n => Apart(consumer[m], wire[m], consumer[n], wire[n])

-----------------------------------------------------------------------------
NoRound(w) == \A k \in DOMAIN w : w[k].type \notin {"join", "sync"}

LEMMA StableNoRound ==
    ASSUME NEW c, NEW w, NEW g, Travels(c, w), MemberOK(c, w, g), c.state = "STABLE"
    PROVE  NoRound(w)
BY DEF Travels, JoinAlone, MemberOK, SyncOK, Good, Doomed, NoRound

OwnOK(c, g) ==
    c.state = "STABLE" /\ c.gen = g.gen =>
        /\ g.phase # "Completing"
        /\ g.phase = "Stable" =>
              /\ c.id \in g.members
              /\ IF c.join = "success" THEN c.value = Assign(g.members)[c.id]
                 ELSE /\ c.assigned \subseteq Assign(g.members)[c.id]
                      /\ c.assigned = Assign(g.members)[c.id] \/ (c.join = "none" /\ c.leaving)

LEMMA OwnClaim ==
    ASSUME NEW c, NEW w, NEW g, ClaimsOK(c, w, g)
    PROVE  OwnOK(c, g)
<1> SUFFICES ASSUME c.state = "STABLE", c.gen = g.gen PROVE OwnOK(c, g)
  BY DEF OwnOK
<1> DEFINE x == [gen |-> c.gen, id |-> c.id, parts |-> IF c.join = "success" THEN c.value ELSE c.assigned]
<1>1. x \in Claims(c, w)
  BY DEF Claims
<1>2. x.gen = c.gen /\ x.id = c.id /\ x.parts = IF c.join = "success" THEN c.value ELSE c.assigned
  OBVIOUS
<1> HIDE DEF x
<1>3. QED
  BY <1>1, <1>2 DEF ClaimsOK, OwnOK

\* With no round under way a consumer claims what it has.
LEMMA NoRoundClaims ==
    ASSUME NEW c, NEW w, NoRound(w), NEW x \in Claims(c, w)
    PROVE  /\ c.state = "STABLE" /\ x.gen = c.gen /\ x.id = c.id
           /\ x.parts = IF c.join = "success" THEN c.value ELSE c.assigned
BY DEF Claims, NoRound

LEMMA NoRoundMember ==
    ASSUME NEW c, NEW w, NEW g, NoRound(w), ConsumerOK(c, g), WireOK(w, g), InTurn(w), LeaveOK(w, g), OwnOK(c, g)
    PROVE  MemberOK(c, w, g)
<1>1. JoinOK(c, w, g) /\ SyncOK(c, w, g)
  BY DEF JoinOK, SyncOK, NoRound
<1>2. ClaimsOK(c, w, g)
  BY NoRoundClaims DEF ClaimsOK, OwnOK
<1>3. QED
  BY <1>1, <1>2 DEF MemberOK

\* The claims of d, with v in flight, are among those of c with w.
Covered(d, v, c, w) ==
    \A x \in Claims(d, v) : \E y \in Claims(c, w) : y.gen = x.gen /\ x.parts \subseteq y.parts

Follows(d, v, c, w) == Ids(d, v) \subseteq Ids(c, w) \cup {NoId} /\ Covered(d, v, c, w)

LEMMA ApartKeeps ==
    ASSUME NEW c, NEW w, NEW d, NEW v, NEW e, NEW u, Follows(d, v, c, w)
    PROVE  /\ Apart(c, w, e, u) => Apart(d, v, e, u)
           /\ Apart(e, u, c, w) => Apart(e, u, d, v)
<1>1. ASSUME Apart(c, w, e, u) PROVE Apart(d, v, e, u)
  <2>1. Ids(d, v) \cap Ids(e, u) \subseteq {NoId}
    BY <1>1 DEF Apart, Follows
  <2>2. ASSUME NEW x \in Claims(d, v), NEW z \in Claims(e, u), x.gen = z.gen PROVE x.parts \cap z.parts = {}
    <3>1. PICK y \in Claims(c, w) : y.gen = x.gen /\ x.parts \subseteq y.parts
      BY DEF Follows, Covered
    <3>2. y.parts \cap z.parts = {}
      BY <1>1, <2>2, <3>1 DEF Apart
    <3>3. QED
      BY <3>1, <3>2
  <2>3. QED
    BY <2>1, <2>2 DEF Apart
<1>2. ASSUME Apart(e, u, c, w) PROVE Apart(e, u, d, v)
  <2>1. Ids(e, u) \cap Ids(d, v) \subseteq {NoId}
    BY <1>2 DEF Apart, Follows
  <2>2. ASSUME NEW z \in Claims(e, u), NEW x \in Claims(d, v), z.gen = x.gen PROVE z.parts \cap x.parts = {}
    <3>1. PICK y \in Claims(c, w) : y.gen = x.gen /\ x.parts \subseteq y.parts
      BY DEF Follows, Covered
    <3>2. z.parts \cap y.parts = {}
      BY <1>2, <2>2, <3>1 DEF Apart
    <3>3. QED
      BY <3>1, <3>2
  <2>3. QED
    BY <2>1, <2>2 DEF Apart
<1>3. QED
  BY <1>1, <1>2

\* A step of one consumer, or of its connection.
LEMMA OneMember ==
    ASSUME Sound, NEW m \in Consumer, OnlyOf(m), UNCHANGED group, faults' \in 0 .. MaxFaults,
           MemberOK(consumer'[m], wire'[m], group), Follows(consumer'[m], wire'[m], consumer[m], wire[m])
    PROVE  Sound'
<1>1. \A n \in Consumer : MemberOK(consumer'[n], wire'[n], group)
  BY DEF Sound, OnlyOf
<1>2. ASSUME NEW n \in Consumer, NEW p \in Consumer, n # p
      PROVE  Apart(consumer'[n], wire'[n], consumer'[p], wire'[p])
  <2>1. Apart(consumer[n], wire[n], consumer[p], wire[p])
    BY <1>2 DEF Sound
  <2>2. CASE n = m
    BY <1>2, <2>1, <2>2, ApartKeeps DEF OnlyOf
  <2>3. CASE p = m
    BY <1>2, <2>1, <2>3, ApartKeeps DEF OnlyOf
  <2>4. CASE n # m /\ p # m
    BY <2>1, <2>4 DEF OnlyOf
  <2>5. QED
    BY <2>2, <2>3, <2>4
<1>3. QED
  BY <1>1, <1>2 DEF Sound

-----------------------------------------------------------------------------
\* What a membership depends on stays; a coordinator found dead matters to nobody STABLE.
Quiet(d, c) ==
    /\ IsConsumer(d)
    /\ d.state = c.state /\ d.gen = c.gen /\ d.id = c.id
    /\ c.state = "STABLE" => d.join = c.join /\ d.value = c.value /\ d.assigned = c.assigned /\ d.leaving = c.leaving
    /\ c.coordinator => d.coordinator \/ c.state = "STABLE"
    /\ d.pc \in {"drain", "await"} => d.rejoining

LEMMA QuietMember ==
    ASSUME NEW c, NEW w, NEW g, MemberOK(c, w, g), NEW d, Quiet(d, c)
    PROVE  MemberOK(d, w, g) /\ Follows(d, w, c, w)
<1>1. Claims(d, w) = Claims(c, w) /\ Ids(d, w) = Ids(c, w)
  BY DEF Claims, Quiet, Ids
<1>2. ConsumerOK(d, g)
  BY DEF MemberOK, ConsumerOK, Quiet
<1>3. JoinOK(d, w, g)
  BY DEF MemberOK, JoinOK, Quiet
<1>4. SyncOK(d, w, g)
  BY DEF MemberOK, SyncOK, Quiet, Good, Doomed
<1>5. ClaimsOK(d, w, g)
  BY <1>1 DEF MemberOK, ClaimsOK, Quiet
<1>6. QED
  BY <1>1, <1>2, <1>3, <1>4, <1>5 DEF MemberOK, Follows, Covered

LEMMA QuietActions ==
    ASSUME Sound, IInv, NEW m \in Consumer,
           \/ lookup_coordinator(m) \/ poll(m) \/ commit_timeout(m) \/ on_join_prepare(m) \/ join_timeout(m)
           \/ join_failed(m) \/ subscribe(m) \/ run_once_disable(m)
    PROVE  Sound'
<1> DEFINE c == consumer[m]
           d == consumer'[m]
<1>1. /\ IsConsumer(c)
      /\ c.pc \in {"drain", "await"} => c.rejoining
      /\ c.state = "STABLE" => c.join \in {"none", "success"}
  BY DEF Sound, MemberOK, ConsumerOK
<1>2. DOMAIN consumer = Consumer /\ DOMAIN wire = Consumer
  BY DEF IInv
<1>3. UNCHANGED <<wire, group, faults>> /\ OnlyOf(m)
  BY <1>2 DEF OnlyOf, lookup_coordinator, poll, commit_timeout, on_join_prepare, join_timeout,
              join_failed, subscribe, run_once_disable
<1>4. \/ d = [c EXCEPT !.coordinator = TRUE]
      \/ d = [c EXCEPT !.pc = IF c.rejoining THEN "drain" ELSE "prepare"]
      \/ d = [c EXCEPT !.pc = "prepared"]
      \/ d = [c EXCEPT !.rejoining = TRUE, !.enabled = FALSE, !.pc = "drain"]
      \/ d = [c EXCEPT !.pc = "idle"]
      \/ /\ c.pc = "await" /\ c.join \notin {"none", "pending", "success"}
         /\ \E pc \in {"drain", "idle"} : d = [c EXCEPT !.join = "none", !.pc = pc]
      \/ d = [c EXCEPT !.subscribed = TRUE]
      \/ d = [c EXCEPT !.enabled = FALSE]
  <2>1. CASE lookup_coordinator(m)
    BY <1>2, <2>1 DEF lookup_coordinator, handle_group_coordinator_response
  <2>2. CASE poll(m)
    BY <1>2, <2>2 DEF poll
  <2>3. CASE commit_timeout(m)
    BY <1>2, <2>3 DEF commit_timeout
  <2>4. CASE on_join_prepare(m)
    BY <1>2, <2>4 DEF on_join_prepare
  <2>5. CASE join_timeout(m)
    BY <1>2, <2>5 DEF join_timeout
  <2>6. CASE join_failed(m)
    BY <1>2, <2>6 DEF join_failed, Runs
  <2>7. CASE subscribe(m)
    BY <1>2, <2>7 DEF subscribe
  <2>8. CASE run_once_disable(m)
    BY <1>2, <2>8 DEF run_once_disable
  <2>9. QED
    BY <2>1, <2>2, <2>3, <2>4, <2>5, <2>6, <2>7, <2>8
<1> HIDE DEF c, d
<1>5. Quiet(d, c)
  BY ZenonT(60), <1>1, <1>4 DEF IsConsumer, Counters, Quiet, JoinResults
<1>6. MemberOK(d, wire'[m], group) /\ Follows(d, wire'[m], c, wire[m])
  BY <1>3, <1>5, QuietMember DEF Sound, c, d
<1>7. QED
  BY <1>3, <1>6, OneMember DEF Sound, c, d

LEMMA NoReplyOK == NoReply \in Replies /\ NoReply.error = "none" /\ NoReply.id = 0 /\ NoReply.gen = 0
BY DEF NoReply, Replies, Errors, NoGen, NoId

\* A request of c that is not answered.
IsNew(e, c, type) == IsRequest(e) /\ e.type = type /\ e.gen = c.gen /\ e.id = c.id /\ e.reply = NoReply

LEMMA NewRequest ==
    ASSUME NEW c, c.gen \in Nat, c.id \in Nat, NEW type \in RequestTypes, NEW parts, NEW grant
    PROVE  IsNew(Request(type, c, parts, grant), c, type) /\ Request(type, c, parts, grant).grant = grant
BY NoReplyOK DEF IsNew, Request, IsRequest

\* What is in flight with one more request of c at its end.
LEMMA OneMore ==
    ASSUME NEW c, NEW w, NEW g, IsSeq(w), WireOK(w, g), g.gen \in Nat, g.last \in Nat, NEW type, NEW e, IsNew(e, c, type),
           c.gen <= g.gen, c.id <= g.last
    PROVE  /\ WireOK(Append(w, e), g)
           /\ \A d : d.id \in {c.id, NoId} => Ids(d, Append(w, e)) \subseteq Ids(c, w) \cup {NoId}
           /\ \A d : Claims(d, Append(w, e)) \subseteq Claims(d, w)
<1> DEFINE v == Append(w, e)
           n == Len(w)
<1>1. /\ IsSeq(v) /\ DOMAIN v = 1 .. n + 1 /\ n \in Nat
      /\ DOMAIN w = 1 .. n /\ (\A k \in 1 .. n : v[k] = w[k]) /\ v[n + 1] = e
  BY AppendSeq
<1> HIDE DEF v, n
<1>2. DOMAIN v = DOMAIN w \cup {n + 1}
  BY <1>1
<1>3. /\ e.reply.gen = 0 /\ e.reply.id = 0 /\ e.reply.error = "none"
      /\ IsRequest(e) /\ e.gen <= g.gen /\ e.id <= g.last
  BY NoReplyOK DEF IsNew
<1>4. WireOK(v, g)
  BY <1>1, <1>2, <1>3 DEF WireOK
<1>5. ASSUME NEW d, d.id \in {c.id, NoId} PROVE Ids(d, v) \subseteq Ids(c, w) \cup {NoId}
  BY <1>1, <1>2, <1>3, <1>5 DEF Ids, IsNew, NoId
<1>6. ASSUME NEW d PROVE Claims(d, v) \subseteq Claims(d, w)
  BY <1>1, <1>2, <1>3 DEF Claims
<1>7. QED
  BY <1>4, <1>5, <1>6 DEF v

\* A heartbeat or a commit of a STABLE consumer.
LEMMA SendMember ==
    ASSUME NEW c, NEW w, NEW g, GroupOK(g), Travels(c, w), MemberOK(c, w, g), c.state = "STABLE", NEW d, Quiet(d, c),
           NEW type \in {"heartbeat", "commit", "sync_commit"}, NEW e, IsNew(e, c, type)
    PROVE  MemberOK(d, Append(w, e), g) /\ Follows(d, Append(w, e), c, w)
<1> DEFINE v == Append(w, e)
<1>1. /\ IsSeq(w) /\ g.gen \in Nat /\ g.last \in Nat /\ c.gen <= g.gen /\ c.id <= g.last /\ d.id = c.id
      /\ WireOK(w, g)
  BY DEF Travels, GroupOK, MemberOK, ConsumerOK, Quiet
<1>2. /\ WireOK(v, g) /\ Ids(d, v) \subseteq Ids(c, w) \cup {NoId} /\ Claims(d, v) \subseteq Claims(d, w)
  BY <1>1, OneMore
<1>3. /\ DOMAIN v = 1 .. Len(w) + 1 /\ Len(w) \in Nat
      /\ DOMAIN w = 1 .. Len(w) /\ (\A k \in 1 .. Len(w) : v[k] = w[k]) /\ v[Len(w) + 1] = e
  BY <1>1, AppendSeq
<1> HIDE DEF v
<1>4. NoRound(w)
  BY StableNoRound
<1>5. NoRound(v)
  BY <1>3, <1>4 DEF NoRound, IsNew
<1>6. MemberOK(d, w, g) /\ Follows(d, w, c, w)
  BY QuietMember
<1>7. InTurn(v)
  BY <1>3, <1>4 DEF InTurn, NoRound, MemberOK, IsNew
<1>8. LeaveOK(v, g)
  BY <1>3 DEF LeaveOK, MemberOK, IsNew
<1>9. MemberOK(d, v, g)
  BY <1>2, <1>5, <1>6, <1>7, <1>8, OwnClaim, NoRoundMember DEF MemberOK
<1>10. Covered(d, v, c, w)
  BY <1>2, <1>6 DEF Follows, Covered
<1>11. QED
  BY <1>2, <1>9, <1>10 DEF Follows, v

LEMMA NotStable ==
    ASSUME NEW c, NEW w, NEW g, MemberOK(c, w, g), NEW d, d.state # "STABLE"
    PROVE  Claims(d, w) \subseteq Claims(c, w) /\ ClaimsOK(d, w, g) /\ Covered(d, w, c, w)
<1>1. Claims(d, w) \subseteq Claims(c, w)
  BY DEF Claims
<1>2. Claims(d, w) # {} => c.state # "STABLE"
  <2>1. ASSUME NEW k \in DOMAIN w, w[k].type = "sync" PROVE c.state # "STABLE"
    BY <2>1 DEF MemberOK, SyncOK, Good, Doomed
  <2>2. QED
    BY <2>1 DEF Claims
<1>3. ClaimsOK(d, w, g)
  BY <1>1, <1>2 DEF MemberOK, ClaimsOK
<1>4. QED
  BY <1>1, <1>3 DEF Covered

\* A consumer that gives its membership up, with no SyncGroup that may still be granted.
LEMMA ResetMember ==
    ASSUME NEW c, NEW w, NEW g, GroupOK(g), MemberOK(c, w, g), NEW d, IsConsumer(d),
           d.state = "UNJOINED", d.gen = NoGen, d.id = NoId, d.pc \in {"drain", "await"} => d.rejoining,
           \A k \in DOMAIN w : w[k].type = "sync" => Doomed(c, w[k], g)
    PROVE  MemberOK(d, w, g) /\ Follows(d, w, c, w)
<1>1. ConsumerOK(d, g)
  BY DEF ConsumerOK, GroupOK, NoGen, NoId
<1>2. JoinOK(d, w, g)
  BY DEF MemberOK, JoinOK
<1>3. SyncOK(d, w, g)
  BY DEF MemberOK, SyncOK, Doomed
<1>4. ClaimsOK(d, w, g) /\ Covered(d, w, c, w)
  BY NotStable
<1>5. Ids(d, w) \subseteq Ids(c, w) \cup {NoId}
  BY DEF Ids
<1>6. QED
  BY <1>1, <1>2, <1>3, <1>4, <1>5 DEF MemberOK, Follows

\* LeaveGroup is sent, behind whatever is in flight; what the consumer works on may be given up.
LEMMA LeaveMember ==
    ASSUME NEW c, NEW w, NEW g, GroupOK(g), Travels(c, w), MemberOK(c, w, g), c.state # "UNJOINED", c.id # NoId,
           NEW d, IsConsumer(d), d.state = c.state, d.gen = c.gen, d.id = c.id, d.join = c.join, d.value = c.value,
           d.assigned \in {c.assigned, {}}, d.leaving, c.coordinator => d.coordinator,
           d.pc \in {"drain", "await"} => d.rejoining, NEW e, IsNew(e, c, "leave")
    PROVE  MemberOK(d, Append(w, e), g) /\ Follows(d, Append(w, e), c, w)
<1> DEFINE v == Append(w, e)
<1>1. /\ IsSeq(w) /\ g.gen \in Nat /\ g.last \in Nat /\ c.gen <= g.gen /\ c.id <= g.last /\ WireOK(w, g)
      /\ IsConsumer(c)
  BY DEF Travels, GroupOK, MemberOK, ConsumerOK
<1>2. /\ WireOK(v, g) /\ Ids(d, v) \subseteq Ids(c, w) \cup {NoId} /\ Claims(d, v) \subseteq Claims(d, w)
  BY <1>1, OneMore
<1>3. /\ DOMAIN v = 1 .. Len(w) + 1 /\ Len(w) \in Nat
      /\ DOMAIN w = 1 .. Len(w) /\ (\A k \in 1 .. Len(w) : v[k] = w[k]) /\ v[Len(w) + 1] = e
  BY <1>1, AppendSeq
<1>4. /\ e.type = "leave" /\ e.id = c.id /\ e.id >= 1 /\ e.reply = NoReply /\ e.reply.error = "none"
  BY <1>1, NoReplyOK DEF IsNew, IsConsumer, NoId
<1> HIDE DEF v
<1>5. ConsumerOK(d, g)
  BY DEF MemberOK, ConsumerOK
<1>6. InTurn(v) /\ LeaveOK(v, g)
  BY <1>3, <1>4 DEF InTurn, MemberOK, LeaveOK
<1>7. JoinOK(d, v, g)
  <2> SUFFICES ASSUME NEW k \in DOMAIN v, v[k].type = "join"
               PROVE  /\ d.state = "REBALANCING" => d.id \in {v[k].id, NoId}
                      /\ d.state = "UNJOINED" => d.id = NoId /\ d.gen = NoGen
                      /\ \A l \in DOMAIN v : v[l].type = "leave" => v[l].id = v[k].id
                      /\ v[k].reply.error = "ok" =>
                            /\ v[k].reply.id = v[k].id /\ v[k].id >= 1 /\ v[k].reply.gen >= 1
                            /\ v[k].reply.gen = g.gen /\ g.phase = "Completing" =>
                                  /\ v[k].reply.leader <=> v[k].id = g.leader
                                  /\ v[k].reply.leader => v[k].reply.ids = g.members
    BY DEF JoinOK
  <2>1. k \in DOMAIN w /\ v[k] = w[k]
    BY <1>3, <1>4
  <2>2. c.state = "REBALANCING"
    BY <1>1, <2>1 DEF Travels, JoinAlone, IsConsumer, States
  <2>3. v[k].id = c.id
    BY <2>1, <2>2 DEF MemberOK, JoinOK
  <2>4. \A l \in DOMAIN v : v[l].type = "leave" => v[l].id = v[k].id
    BY <1>3, <1>4, <2>1, <2>3 DEF MemberOK, JoinOK
  <2>5. QED
    BY <2>1, <2>2, <2>3, <2>4 DEF MemberOK, JoinOK
<1>8. SyncOK(d, v, g)
  BY <1>3, <1>4 DEF MemberOK, SyncOK, Good, Doomed
<1>9. ClaimsOK(d, v, g) /\ Covered(d, v, c, w)
  <2>1. CASE c.state # "STABLE"
    BY <1>2, <2>1, NotStable DEF ClaimsOK, Covered
  <2>2. CASE c.state = "STABLE"
    <3>1. NoRound(w) /\ OwnOK(c, g)
      BY <2>2, StableNoRound, OwnClaim DEF MemberOK
    <3>2. NoRound(v)
      BY <1>3, <1>4, <3>1 DEF NoRound
    <3>3. OwnOK(d, g)
      BY <2>2, <3>1 DEF OwnOK, MemberOK, ConsumerOK
    <3>4. MemberOK(d, v, g)
      BY <1>2, <1>5, <1>6, <3>2, <3>3, NoRoundMember
    <3>5. ASSUME NEW x \in Claims(d, v) PROVE \E y \in Claims(c, w) : y.gen = x.gen /\ x.parts \subseteq y.parts
      <4> DEFINE y == [gen |-> c.gen, id |-> c.id, parts |-> IF c.join = "success" THEN c.value ELSE c.assigned]
      <4>1. y \in Claims(c, w) /\ y.gen = c.gen /\ y.parts = IF c.join = "success" THEN c.value ELSE c.assigned
        BY <2>2 DEF Claims
      <4>2. x.gen = d.gen /\ x.parts = IF d.join = "success" THEN d.value ELSE d.assigned
        BY <3>2, NoRoundClaims
      <4> HIDE DEF y
      <4>3. QED
        BY <4>1, <4>2
    <3>6. QED
      BY <3>4, <3>5 DEF MemberOK, Covered
  <2>3. QED
    BY <2>1, <2>2
<1>10. QED
  BY <1>2, <1>5, <1>6, <1>7, <1>8, <1>9 DEF MemberOK, Follows, v

\* JoinGroup is sent, with nothing in flight.
LEMMA JoinMember ==
    ASSUME NEW c, NEW w, NEW g, GroupOK(g), IsSeq(w), Len(w) = 0, MemberOK(c, w, g), NEW d, IsConsumer(d),
           d.state = "REBALANCING", d.gen = c.gen, d.id = c.id, d.pc \in {"drain", "await"} => d.rejoining,
           NEW e, IsNew(e, c, "join")
    PROVE  MemberOK(d, Append(w, e), g) /\ Follows(d, Append(w, e), c, w)
<1> DEFINE v == Append(w, e)
<1>1. g.gen \in Nat /\ g.last \in Nat /\ c.gen <= g.gen /\ c.id <= g.last /\ WireOK(w, g) /\ d.id \in {c.id, NoId}
  BY DEF GroupOK, MemberOK, ConsumerOK
<1> HIDE DEF v
<1>2. /\ WireOK(v, g) /\ Ids(d, v) \subseteq Ids(c, w) \cup {NoId} /\ Claims(d, v) \subseteq Claims(d, w)
  <2>1. /\ WireOK(Append(w, e), g)
        /\ \A x : x.id \in {c.id, NoId} => Ids(x, Append(w, e)) \subseteq Ids(c, w) \cup {NoId}
        /\ \A x : Claims(x, Append(w, e)) \subseteq Claims(x, w)
    BY <1>1, OneMore
  <2>2. QED
    BY <1>1, <2>1 DEF v
<1>3. DOMAIN v = 1 .. 1 /\ DOMAIN w = {} /\ v[1] = e
  BY <1>1, AppendSeq DEF v
<1>4. e.type = "join" /\ e.id = c.id /\ e.reply = NoReply /\ e.reply.error = "none"
  BY NoReplyOK DEF IsNew
<1>5. ConsumerOK(d, g)
  BY DEF MemberOK, ConsumerOK
<1>6. InTurn(v) /\ LeaveOK(v, g) /\ JoinOK(d, v, g) /\ SyncOK(d, v, g)
  BY <1>3, <1>4 DEF InTurn, LeaveOK, JoinOK, SyncOK
<1>7. Claims(d, v) = {}
  BY <1>2, <1>3 DEF Claims
<1>8. QED
  BY <1>2, <1>5, <1>6, <1>7 DEF MemberOK, Follows, Covered, ClaimsOK, v

\* What was granted is worked on.
LEMMA CompleteMember ==
    ASSUME NEW c, NEW w, NEW g, Travels(c, w), MemberOK(c, w, g), c.state = "STABLE", c.join = "success",
           NEW d, IsConsumer(d), d.state = c.state, d.gen = c.gen, d.id = c.id, d.join = "none", d.assigned = c.value,
           d.pc \in {"drain", "await"} => d.rejoining
    PROVE  MemberOK(d, w, g) /\ Follows(d, w, c, w)
<1>1. NoRound(w) /\ OwnOK(c, g)
  BY StableNoRound, OwnClaim DEF MemberOK
<1>2. OwnOK(d, g) /\ ConsumerOK(d, g)
  BY <1>1 DEF OwnOK, ConsumerOK, MemberOK
<1>3. MemberOK(d, w, g)
  BY <1>1, <1>2, NoRoundMember DEF MemberOK
<1>4. Claims(d, w) = Claims(c, w) /\ Ids(d, w) = Ids(c, w)
  BY DEF Claims, Ids
<1>5. QED
  BY <1>3, <1>4 DEF Follows, Covered

-----------------------------------------------------------------------------
(* What the threads of a consumer do. *)

\* What is known of a consumer and what it has in flight.
LEMMA Known ==
    ASSUME Sound, IInv, NEW m \in Consumer
    PROVE  /\ DOMAIN consumer = Consumer /\ DOMAIN wire = Consumer
           /\ GroupOK(group) /\ MemberOK(consumer[m], wire[m], group) /\ Travels(consumer[m], wire[m])
           /\ IsSeq(wire[m]) /\ IsConsumer(consumer[m])
           /\ consumer[m].pc \in {"drain", "await"} => consumer[m].rejoining
           /\ faults \in 0 .. MaxFaults /\ (faults < MaxFaults => faults + 1 \in 0 .. MaxFaults)
BY FaultsAssumption DEF Sound, IInv, Travels, MemberOK, ConsumerOK

LEMMA Pushed ==
    ASSUME NEW m \in Consumer, DOMAIN consumer = Consumer, DOMAIN wire = Consumer, NEW d, NEW e,
           consumer' = [consumer EXCEPT ![m] = d], Push(m, e)
    PROVE  OnlyOf(m) /\ consumer'[m] = d /\ wire'[m] = Append(wire[m], e)
BY DEF OnlyOf, Push

LEMMA SessionExpires ==
    ASSUME Sound, IInv, NEW m \in Consumer, run_once_session_expired(m)
    PROVE  Sound'
<1> DEFINE c == consumer[m]
           d == coordinator_dead(c)
<1>1. consumer' = [consumer EXCEPT ![m] = d] /\ UNCHANGED <<wire, group>> /\ c.state = "STABLE" /\ faults' \in 0 .. MaxFaults
  BY Known DEF run_once_session_expired
<1>2. OnlyOf(m) /\ consumer'[m] = d
  BY <1>1, Known DEF OnlyOf
<1>3. IsConsumer(c) /\ (c.pc \in {"drain", "await"} => c.rejoining) /\ MemberOK(c, wire[m], group)
  BY Known
<1>4. d = [c EXCEPT !.coordinator = FALSE]
  BY DEF coordinator_dead
<1> HIDE DEF c, d
<1>5. Quiet(d, c)
  BY <1>1, <1>3, <1>4 DEF Quiet, IsConsumer
<1>6. MemberOK(d, wire[m], group) /\ Follows(d, wire[m], c, wire[m])
  BY <1>3, <1>5, QuietMember
<1>7. QED
  BY <1>1, <1>2, <1>6, OneMember DEF c

LEMMA StableSends ==
    ASSUME Sound, IInv, NEW m \in Consumer,
           \/ maybe_auto_commit_offsets_sync(m) \/ commit_offsets_async(m) \/ run_once_heartbeat(m)
    PROVE  Sound'
<1> DEFINE c == consumer[m]
<1>1. /\ DOMAIN consumer = Consumer /\ DOMAIN wire = Consumer /\ IsConsumer(c) /\ c.gen \in Nat /\ c.id \in Nat
      /\ GroupOK(group) /\ Travels(c, wire[m]) /\ MemberOK(c, wire[m], group)
      /\ c.pc \in {"drain", "await"} => c.rejoining
      /\ UNCHANGED <<group, faults>> /\ faults' \in 0 .. MaxFaults
  BY Known DEF IsConsumer, maybe_auto_commit_offsets_sync, commit_offsets_async, run_once_heartbeat
<1>2. ASSUME NEW type \in {"heartbeat", "commit", "sync_commit"}, NEW parts, Push(m, Request(type, c, parts, <<>>)),
             DOMAIN consumer' = Consumer, \A n \in Consumer \ {m} : consumer'[n] = consumer[n],
             Quiet(consumer'[m], c), c.state = "STABLE"
      PROVE  Sound'
  <2> DEFINE e == Request(type, c, parts, <<>>)
  <2>1. IsNew(e, c, type)
    BY <1>1, NewRequest DEF RequestTypes
  <2>2. OnlyOf(m) /\ wire'[m] = Append(wire[m], e)
    BY <1>1, <1>2 DEF OnlyOf, Push
  <2> HIDE DEF c, e
  <2>3. MemberOK(consumer'[m], Append(wire[m], e), group) /\ Follows(consumer'[m], Append(wire[m], e), c, wire[m])
    BY <1>1, <1>2, <2>1, SendMember
  <2>4. QED
    BY <1>1, <2>2, <2>3, OneMember DEF c
<1>3. CASE commit_offsets_async(m) \/ run_once_heartbeat(m)
  <2>1. /\ \/ Push(m, Request("commit", c, c.assigned, <<>>)) \/ Push(m, Request("heartbeat", c, {}, <<>>))
        /\ UNCHANGED consumer /\ c.state = "STABLE"
    BY <1>3 DEF commit_offsets_async, generation_if_stable, send_offset_commit_request, run_once_heartbeat,
                send_heartbeat_request
  <2>2. Quiet(c, c)
    BY <1>1 DEF Quiet
  <2> HIDE DEF c
  <2>3. QED
    BY <1>1, <1>2, <2>1, <2>2 DEF c
<1>5. CASE maybe_auto_commit_offsets_sync(m) /\ c.assigned # {} /\ generation_if_stable(c)
  <2>1. /\ Push(m, Request("sync_commit", c, c.assigned, <<>>)) /\ consumer' = [consumer EXCEPT ![m].pc = "commit"]
        /\ c.state = "STABLE"
    BY <1>5 DEF maybe_auto_commit_offsets_sync, generation_if_stable, send_offset_commit_request
  <2> DEFINE d == [c EXCEPT !.pc = "commit"]
  <2>2. /\ consumer'[m] = d /\ DOMAIN consumer' = Consumer
        /\ \A n \in Consumer \ {m} : consumer'[n] = consumer[n]
    BY <1>1, <2>1
  <2> HIDE DEF c
  <2>3. Quiet(d, c)
    BY <1>1 DEF Quiet, IsConsumer, Counters
  <2> HIDE DEF d
  <2>4. QED
    BY <1>2, <2>1, <2>2, <2>3
<1>6. CASE maybe_auto_commit_offsets_sync(m) /\ ~(c.assigned # {} /\ generation_if_stable(c))
  <2> DEFINE d == [c EXCEPT !.pc = "prepared"]
  <2>1. consumer'[m] = d /\ OnlyOf(m) /\ wire' = wire
    BY <1>1, <1>6 DEF maybe_auto_commit_offsets_sync, OnlyOf
  <2> HIDE DEF c
  <2>2. Quiet(d, c)
    BY <1>1 DEF Quiet, IsConsumer, Counters
  <2> HIDE DEF d
  <2>3. QED
    BY <1>1, <2>1, <2>2, QuietMember, OneMember DEF c
<1>7. QED
  BY <1>3, <1>5, <1>6

LEMMA JoinSends ==
    ASSUME Sound, IInv, NEW m \in Consumer, initiate_join_group(m)
    PROVE  Sound'
<1> DEFINE c == consumer[m]
           e == send_join_group_request(c)
           d == [c EXCEPT !.state = "REBALANCING", !.join = "pending", !.pc = "await"]
           a == [c EXCEPT !.pc = "await"]
<1>1. /\ DOMAIN consumer = Consumer /\ DOMAIN wire = Consumer /\ IsConsumer(c) /\ c.gen \in Nat /\ c.id \in Nat
      /\ GroupOK(group) /\ IsSeq(wire[m]) /\ MemberOK(c, wire[m], group)
      /\ c.rejoining /\ wire[m] = <<>> /\ Len(wire[m]) = 0
      /\ UNCHANGED <<group, faults>> /\ faults' \in 0 .. MaxFaults
  BY Known DEF IsConsumer, initiate_join_group, Runs
<1>2. /\ OnlyOf(m)
      /\ \/ consumer'[m] = d /\ wire'[m] = Append(wire[m], e)
         \/ consumer'[m] = a /\ wire'[m] = wire[m]
  BY <1>1 DEF initiate_join_group, Push, OnlyOf
<1>3. IsNew(e, c, "join")
  BY <1>1, NewRequest DEF send_join_group_request, RequestTypes
<1> HIDE DEF c, e
<1>4. /\ IsConsumer(d) /\ d.state = "REBALANCING" /\ d.gen = c.gen /\ d.id = c.id
      /\ d.pc \in {"drain", "await"} => d.rejoining
  BY <1>1 DEF IsConsumer, States, JoinResults, Counters
<1>5. Quiet(a, c)
  BY <1>1 DEF Quiet, IsConsumer, Counters
<1> HIDE DEF a, d
<1>6. MemberOK(d, Append(wire[m], e), group) /\ Follows(d, Append(wire[m], e), c, wire[m])
  BY <1>1, <1>3, <1>4, JoinMember
<1>7. MemberOK(a, wire[m], group) /\ Follows(a, wire[m], c, wire[m])
  BY <1>1, <1>5, QuietMember
<1>8. QED
  BY <1>1, <1>2, <1>6, <1>7, OneMember DEF c

LEMMA Completes ==
    ASSUME Sound, IInv, NEW m \in Consumer, on_join_complete(m)
    PROVE  Sound'
<1> DEFINE c == consumer[m]
           d == [c EXCEPT !.rejoining = FALSE, !.rejoin_needed = FALSE, !.join = "none", !.pc = "idle",
                          !.value = {}, !.assigned = IF c.gen = NoGen THEN @ ELSE c.value]
<1>1. /\ DOMAIN consumer = Consumer /\ DOMAIN wire = Consumer /\ IsConsumer(c)
      /\ GroupOK(group) /\ MemberOK(c, wire[m], group) /\ Travels(c, wire[m])
      /\ UNCHANGED <<wire, group, faults>> /\ faults' \in 0 .. MaxFaults /\ c.join = "success"
      /\ c.state = "STABLE" => c.gen # NoGen
  BY Known DEF on_join_complete, MemberOK, ConsumerOK, NoGen
<1>2. consumer'[m] = d /\ OnlyOf(m)
  BY <1>1 DEF on_join_complete, OnlyOf
<1> HIDE DEF c
<1>3. /\ IsConsumer(d) /\ d.state = c.state /\ d.gen = c.gen /\ d.id = c.id /\ d.join = "none" /\ d.pc = "idle"
      /\ d.coordinator = c.coordinator
      /\ c.gen # NoGen => d.assigned = c.value
  BY <1>1 DEF IsConsumer, JoinResults, Counters
<1> HIDE DEF d
<1>4. MemberOK(d, wire[m], group) /\ Follows(d, wire[m], c, wire[m])
  <2>1. CASE c.state = "STABLE"
    BY <1>1, <1>3, <2>1, CompleteMember
  <2>2. CASE c.state # "STABLE"
    <3>1. Quiet(d, c)
      BY <1>3, <2>2 DEF Quiet
    <3>2. QED
      BY <1>1, <3>1, QuietMember
  <2>3. QED
    BY <2>1, <2>2
<1>5. QED
  BY <1>1, <1>2, <1>4, OneMember DEF c

\* A consumer that leaves, b being what it is by then.
LEMMA Leaving ==
    ASSUME Sound, IInv, NEW m \in Consumer, UNCHANGED group, faults' \in 0 .. MaxFaults, NEW b, IsConsumer(b),
           b.state = consumer[m].state, b.gen = consumer[m].gen, b.id = consumer[m].id, b.join = consumer[m].join,
           b.value = consumer[m].value, b.assigned \in {consumer[m].assigned, {}}, b.coordinator = consumer[m].coordinator,
           b.pc \in {"drain", "await"} => b.rejoining, maybe_leave_group(m, b)
    PROVE  Sound'
<1> DEFINE c == consumer[m]
           d == [b EXCEPT !.leaving = TRUE]
           e == Request("leave", b, {}, <<>>)
           r == reset_generation(b, NoId)
<1>1. /\ DOMAIN consumer = Consumer /\ DOMAIN wire = Consumer /\ IsConsumer(c)
      /\ GroupOK(group) /\ MemberOK(c, wire[m], group) /\ Travels(c, wire[m])
  BY Known
<1>2. CASE b.coordinator /\ b.state # "UNJOINED" /\ b.id # NoId
  <2>1. OnlyOf(m) /\ consumer'[m] = d /\ wire'[m] = Append(wire[m], e)
    BY <1>1, <1>2 DEF maybe_leave_group, OnlyOf, Push
  <2>2. IsNew(e, b, "leave")
    BY NewRequest DEF IsConsumer, RequestTypes
  <2> HIDE DEF c, e
  <2>3. /\ IsConsumer(d) /\ d.state = b.state /\ d.gen = b.gen /\ d.id = b.id /\ d.join = b.join /\ d.value = b.value
        /\ d.assigned = b.assigned /\ d.leaving /\ d.coordinator = b.coordinator
        /\ d.pc \in {"drain", "await"} => d.rejoining
    BY DEF IsConsumer
  <2>4. IsNew(e, c, "leave")
    BY <2>2 DEF IsNew, c
  <2> HIDE DEF d
  <2>5. MemberOK(d, Append(wire[m], e), group) /\ Follows(d, Append(wire[m], e), c, wire[m])
    BY <1>1, <1>2, <2>3, <2>4, LeaveMember DEF c
  <2>6. QED
    BY <1>1, <2>1, <2>5, OneMember DEF c
<1>3. CASE ~(b.coordinator /\ b.state # "UNJOINED" /\ b.id # NoId)
  <2>1. OnlyOf(m) /\ consumer'[m] = r /\ wire'[m] = wire[m]
    BY <1>1, <1>3 DEF maybe_leave_group, OnlyOf
  <2>2. /\ IsConsumer(r) /\ r.state = "UNJOINED" /\ r.gen = NoGen /\ r.id = NoId
        /\ r.pc \in {"drain", "await"} => r.rejoining
    BY DEF IsConsumer, reset_generation, States, NoGen, NoId
  <2>3. \A k \in DOMAIN wire[m] : wire[m][k].type = "sync" => Doomed(c, wire[m][k], group)
    BY <1>1, <1>3 DEF MemberOK, SyncOK, Good, NoId
  <2> HIDE DEF c, r
  <2>4. MemberOK(r, wire[m], group) /\ Follows(r, wire[m], c, wire[m])
    BY <1>1, <2>2, <2>3, ResetMember
  <2>5. QED
    BY <1>1, <2>1, <2>4, OneMember DEF c
<1>4. QED
  BY <1>2, <1>3

LEMMA Leaves ==
    ASSUME Sound, IInv, NEW m \in Consumer, unsubscribe(m) \/ close(m) \/ run_once_poll_expired(m)
    PROVE  Sound'
<1> DEFINE c == consumer[m]
           u == [c EXCEPT !.subscribed = FALSE, !.assigned = {}]
           s == [c EXCEPT !.enabled = FALSE, !.pc = "closed"]
           p == [c EXCEPT !.closing = TRUE, !.pc = "prepare"]
<1>1. /\ DOMAIN consumer = Consumer /\ DOMAIN wire = Consumer /\ IsConsumer(c)
      /\ MemberOK(c, wire[m], group)
      /\ c.pc \in {"drain", "await"} => c.rejoining
  BY Known
<1>2. UNCHANGED group /\ faults' \in 0 .. MaxFaults
  BY Known DEF unsubscribe, close, run_once_poll_expired
<1>3. \/ maybe_leave_group(m, u) \/ maybe_leave_group(m, s) \/ maybe_leave_group(m, c)
      \/ consumer'[m] = p /\ wire' = wire /\ OnlyOf(m)
  BY <1>1 DEF unsubscribe, close, run_once_poll_expired, OnlyOf
<1> HIDE DEF c
<1>4. /\ IsConsumer(u) /\ u.state = c.state /\ u.gen = c.gen /\ u.id = c.id /\ u.join = c.join /\ u.value = c.value
      /\ u.assigned = {} /\ u.coordinator = c.coordinator
      /\ u.pc \in {"drain", "await"} => u.rejoining
  BY <1>1 DEF IsConsumer
<1>5. /\ IsConsumer(s) /\ s.state = c.state /\ s.gen = c.gen /\ s.id = c.id /\ s.join = c.join /\ s.value = c.value
      /\ s.assigned = c.assigned /\ s.coordinator = c.coordinator
      /\ s.pc \in {"drain", "await"} => s.rejoining
  BY <1>1 DEF IsConsumer, Counters
<1>6. Quiet(p, c)
  BY <1>1 DEF Quiet, IsConsumer, Counters
<1> HIDE DEF u, s, p
<1>7. ASSUME maybe_leave_group(m, u) PROVE Sound'
  BY <1>2, <1>4, <1>7, Leaving DEF c
<1>8. ASSUME maybe_leave_group(m, s) PROVE Sound'
  BY <1>2, <1>5, <1>8, Leaving DEF c
<1>9. ASSUME maybe_leave_group(m, c) PROVE Sound'
  BY <1>1, <1>2, <1>9, Leaving DEF c
<1>10. ASSUME consumer'[m] = p, wire' = wire, OnlyOf(m) PROVE Sound'
  <2>1. MemberOK(p, wire[m], group) /\ Follows(p, wire[m], c, wire[m])
    BY <1>1, <1>6, QuietMember
  <2>2. QED
    BY <1>2, <1>10, <2>1, OneMember DEF c
<1>11. QED
  BY <1>3, <1>7, <1>8, <1>9, <1>10

-----------------------------------------------------------------------------
(* Responses. *)

\* With no round under way any more, a consumer has its membership or has lost it.
LEMMA Settles ==
    ASSUME NEW c, NEW w, NEW g, MemberOK(c, w, g), NEW d, NEW v, NoRound(v), WireOK(v, g), InTurn(v), LeaveOK(v, g),
           Ids(d, v) \subseteq Ids(c, w) \cup {NoId}, ConsumerOK(d, g), d.state # "STABLE" \/ Quiet(d, c)
    PROVE  MemberOK(d, v, g) /\ Follows(d, v, c, w)
<1>1. OwnOK(d, g)
  <2>1. CASE d.state # "STABLE"
    BY <2>1 DEF OwnOK
  <2>2. CASE Quiet(d, c)
    BY <2>2, QuietMember, OwnClaim DEF MemberOK
  <2>3. QED
    BY <2>1, <2>2
<1>2. MemberOK(d, v, g)
  BY <1>1, NoRoundMember
<1>3. Covered(d, v, c, w)
  <2>1. SUFFICES ASSUME NEW x \in Claims(d, v) PROVE x \in Claims(c, w)
    BY DEF Covered
  <2>2. d.state = "STABLE"
    BY NoRoundClaims
  <2>3. Quiet(d, c)
    BY <2>2
  <2>4. Claims(d, v) \subseteq Claims(c, w)
    BY <2>2, <2>3 DEF Claims, Quiet, NoRound
  <2>5. QED
    BY <2>4
<1>4. QED
  BY <1>2, <1>3 DEF Follows

\* What is left when the first request has been answered.
LEMMA TailWire ==
    ASSUME NEW c, NEW w, NEW g, Travels(c, w), MemberOK(c, w, g), w # <<>>
    PROVE  /\ IsSeq(Tail(w)) /\ Len(w) \in Nat \ {0} /\ DOMAIN w = 1 .. Len(w)
           /\ DOMAIN Tail(w) = 1 .. Len(w) - 1 /\ Len(Tail(w)) = Len(w) - 1
           /\ \A k \in 1 .. Len(w) - 1 : Tail(w)[k] = w[k + 1] /\ Tail(w)[k].reply = NoReply
           /\ Head(w) = w[1] /\ IsRequest(w[1]) /\ w[1].reply.id \in Ids(c, w)
           /\ WireOK(Tail(w), g) /\ InTurn(Tail(w)) /\ LeaveOK(Tail(w), g)
           /\ \A d : d.id \in Ids(c, w) \cup {NoId} => Ids(d, Tail(w)) \subseteq Ids(c, w) \cup {NoId}
           /\ w[1].type # "leave" => NoRound(Tail(w))
<1> DEFINE v == Tail(w)
           n == Len(w)
<1>1. /\ IsSeq(v) /\ n \in Nat \ {0} /\ DOMAIN w = 1 .. n /\ Len(v) = n - 1
      /\ DOMAIN v = 1 .. n - 1 /\ (\A k \in 1 .. n - 1 : v[k] = w[k + 1]) /\ Head(w) = w[1]
  BY TailSeq DEF Travels
<1> HIDE DEF v, n
<1>2. 1 \in DOMAIN w /\ \A k \in 1 .. n - 1 : k + 1 \in DOMAIN w /\ k + 1 > 1
  BY <1>1
<1>3. \A k \in 1 .. n - 1 : v[k].reply = NoReply
  BY <1>1, <1>2 DEF MemberOK, InTurn
<1>4. WireOK(v, g)
  BY <1>1, <1>2 DEF MemberOK, WireOK
<1>5. IsRequest(w[1]) /\ w[1].reply.id \in Ids(c, w)
  BY <1>2 DEF MemberOK, WireOK, Ids
<1>6. LeaveOK(v, g)
  BY <1>1, <1>2 DEF MemberOK, LeaveOK
<1>7. InTurn(v)
  <2>1. ASSUME NEW k \in DOMAIN v, v[k].type = "sync", NEW l \in DOMAIN v \ {k} PROVE v[l].type = "leave"
    <3>1. l + 1 \in DOMAIN w \ {k + 1} /\ w[k + 1].type = "sync" /\ k + 1 \in DOMAIN w
      BY <1>1, <1>2, <2>1
    <3>2. w[l + 1].type = "leave"
      BY <3>1 DEF MemberOK, InTurn
    <3>3. QED
      BY <1>1, <3>2
  <2>2. \A k \in DOMAIN v : v[k].type = "leave" => v[k].id >= 1
    BY <1>1, <1>2 DEF MemberOK, InTurn
  <2>3. QED
    BY <1>1, <1>3, <2>1, <2>2 DEF InTurn
<1>8. ASSUME NEW d, d.id \in Ids(c, w) \cup {NoId} PROVE Ids(d, v) \subseteq Ids(c, w) \cup {NoId}
  <2>1. \A k \in DOMAIN v : \E l \in DOMAIN w : v[k] = w[l]
    BY <1>1, <1>2
  <2>2. /\ {v[k].id : k \in DOMAIN v} \subseteq {w[k].id : k \in DOMAIN w}
        /\ {v[k].reply.id : k \in DOMAIN v} \subseteq {w[k].reply.id : k \in DOMAIN w}
    BY <2>1
  <2>3. QED
    BY <1>8, <2>2 DEF Ids
<1>9. ASSUME w[1].type # "leave" PROVE NoRound(v)
  <2>1. ASSUME NEW k \in 1 .. n - 1 PROVE w[k + 1].type \notin {"join", "sync"}
    <3>1. w[k + 1].type # "join"
      BY <1>1, <1>2 DEF Travels, JoinAlone
    <3>2. w[k + 1].type # "sync"
      BY <1>1, <1>2, <1>9 DEF MemberOK, InTurn
    <3>3. QED
      BY <3>1, <3>2
  <2>2. QED
    BY <1>1, <2>1 DEF NoRound
<1>10. QED
  BY <1>1, <1>3, <1>4, <1>5, <1>6, <1>7, <1>8, <1>9 DEF v, n

\* What a response may make of c, apart from the ones that go on with a rebalance: it
\* keeps the membership it has, or has none.
Fate(d, c, ids) ==
    /\ IsConsumer(d) /\ d.gen \in {c.gen, NoGen} /\ d.id \in ids
    /\ d.pc \in {"drain", "await"} => d.rejoining
    /\ d.state # "STABLE" \/ Quiet(d, c)

LEMMA Fates ==
    ASSUME NEW c, NEW ids, NEW x, Fate(x, c, ids)
    PROVE  /\ Fate(request_rejoin(x), c, ids) /\ Fate(coordinator_dead(x), c, ids)
           /\ \A kind \in JoinResults : Fate(JoinFails(x, kind), c, ids)
           /\ \A id \in ids : id \in Nat => Fate(reset_generation(x, id), c, ids)
<1>1. Fate(request_rejoin(x), c, ids)
  BY DEF Fate, request_rejoin, IsConsumer, Quiet
<1>2. Fate(coordinator_dead(x), c, ids)
  BY DEF Fate, coordinator_dead, IsConsumer, Quiet
<1>3. ASSUME NEW kind \in JoinResults PROVE Fate(JoinFails(x, kind), c, ids)
  <2> DEFINE y == [x EXCEPT !.join = kind, !.state = "UNJOINED"]
  <2>1. Fate(y, c, ids)
    BY DEF Fate, IsConsumer, States
  <2>2. JoinFails(x, kind) \in {x, y}
    BY DEF JoinFails
  <2> HIDE DEF y
  <2>3. QED
    BY <2>1, <2>2
<1>4. ASSUME NEW id \in ids, id \in Nat PROVE Fate(reset_generation(x, id), c, ids)
  BY <1>4 DEF Fate, reset_generation, IsConsumer, States, NoGen
<1>5. QED
  BY <1>1, <1>2, <1>3, <1>4

LEMMA Delivered ==
    ASSUME Sound, IInv, NEW m \in Consumer, NEW type, NEW d, Deliver(m, type, d, <<>>)
    PROVE  /\ OnlyOf(m) /\ consumer'[m] = d /\ wire'[m] = Tail(wire[m]) /\ UNCHANGED group /\ faults' \in 0 .. MaxFaults
           /\ wire[m] # <<>> /\ Head(wire[m]).type = type /\ Head(wire[m]).reply.error \notin {"none", "parked"}
<1>1. DOMAIN consumer = Consumer /\ DOMAIN wire = Consumer /\ Travels(consumer[m], wire[m]) /\ faults \in 0 .. MaxFaults
  BY Known
<1>2. wire[m] # <<>> /\ Head(wire[m]).type = type /\ Head(wire[m]).reply.error \notin {"none", "parked"}
  BY DEF Deliver, Answered
<1>3. IsSeq(Tail(wire[m]))
  BY <1>1, <1>2, TailSeq DEF Travels
<1>4. Tail(wire[m]) \o <<>> = Tail(wire[m])
  BY <1>3, ConcatSeq
<1>5. QED
  BY <1>1, <1>2, <1>4 DEF Deliver, OnlyOf

LEMMA Receive ==
    ASSUME Sound, IInv, NEW m \in Consumer, NEW type, type # "leave", NEW d, Deliver(m, type, d, <<>>),
           Fate(d, consumer[m], Ids(consumer[m], wire[m]) \cup {NoId})
    PROVE  Sound'
<1> DEFINE c == consumer[m]
           w == wire[m]
           v == Tail(wire[m])
<1>1. /\ OnlyOf(m) /\ consumer'[m] = d /\ wire'[m] = v /\ UNCHANGED group /\ faults' \in 0 .. MaxFaults
      /\ w # <<>> /\ Head(w).type # "leave"
  BY Delivered
<1>2. GroupOK(group) /\ MemberOK(c, w, group) /\ Travels(c, w)
  BY Known
<1>3. /\ WireOK(v, group) /\ InTurn(v) /\ LeaveOK(v, group) /\ NoRound(v)
      /\ Ids(d, v) \subseteq Ids(c, w) \cup {NoId}
  BY <1>1, <1>2, TailWire DEF Fate
<1>4. Ids(c, w) \cup {NoId} \subseteq 0 .. group.last
  BY <1>2 DEF Ids, MemberOK, WireOK, ConsumerOK, IsConsumer, IsRequest, GroupOK, NoId, Replies
<1>5. ConsumerOK(d, group)
  <2>1. IsConsumer(d) /\ d.gen <= group.gen /\ d.id <= group.last /\ (d.pc \in {"drain", "await"} => d.rejoining)
    BY <1>2, <1>4 DEF Fate, MemberOK, ConsumerOK, GroupOK, NoGen, IsConsumer
  <2>2. d.state = "STABLE" => d.join \in {"none", "success"} /\ d.gen >= 1
    BY <1>2 DEF Fate, Quiet, MemberOK, ConsumerOK
  <2>3. QED
    BY <2>1, <2>2 DEF ConsumerOK
<1>6. d.state # "STABLE" \/ Quiet(d, c)
  BY DEF Fate
<1> HIDE DEF c, w, v
<1>7. MemberOK(d, v, group) /\ Follows(d, v, c, w)
  BY <1>2, <1>3, <1>5, <1>6, Settles
<1>8. QED
  BY <1>1, <1>7, OneMember DEF c, w, v

\* A consumer is its own fate, and the ids there are.
LEMMA OwnFate ==
    ASSUME Sound, IInv, NEW m \in Consumer
    PROVE  /\ Fate(consumer[m], consumer[m], Ids(consumer[m], wire[m]) \cup {NoId})
           /\ Ids(consumer[m], wire[m]) \cup {NoId} \subseteq Nat
<1>1. GroupOK(group) /\ MemberOK(consumer[m], wire[m], group) /\ IsConsumer(consumer[m])
      /\ (consumer[m].pc \in {"drain", "await"} => consumer[m].rejoining)
  BY Known
<1>2. Fate(consumer[m], consumer[m], Ids(consumer[m], wire[m]) \cup {NoId})
  BY <1>1 DEF Fate, Quiet, Ids
<1>3. Ids(consumer[m], wire[m]) \cup {NoId} \subseteq Nat
  BY <1>1 DEF Ids, MemberOK, WireOK, IsConsumer, IsRequest, NoId, Replies
<1>4. QED
  BY <1>2, <1>3

LEMMA HeartbeatReceived ==
    ASSUME Sound, IInv, NEW m \in Consumer, handle_heartbeat_response(m)
    PROVE  Sound'
<1> DEFINE c == consumer[m]
           ids == Ids(c, wire[m]) \cup {NoId}
<1>1. Fate(c, c, ids) /\ NoId \in ids /\ NoId \in Nat
  BY OwnFate DEF NoId
<1>2. \E d \in {c, request_rejoin(c), reset_generation(c, NoId), coordinator_dead(c)} : Deliver(m, "heartbeat", d, <<>>)
  BY DEF handle_heartbeat_response
<1> HIDE DEF c, ids
<1>3. \A d \in {c, request_rejoin(c), reset_generation(c, NoId), coordinator_dead(c)} : Fate(d, c, ids)
  BY <1>1, Fates
<1>4. QED
  BY <1>2, <1>3, Receive DEF c, ids

LEMMA CommitReceived ==
    ASSUME Sound, IInv, NEW m \in Consumer, handle_offset_commit_response(m)
    PROVE  Sound'
<1> DEFINE c == consumer[m]
           ids == Ids(c, wire[m]) \cup {NoId}
           r == OldestReply(m)
           after == CASE r.error = "ok" -> consumer[m]
                      [] r.error = "rebalance" -> request_rejoin(consumer[m])
                      [] r.error = "not_coordinator" -> coordinator_dead(consumer[m])
                      [] OTHER -> reset_generation(consumer[m], NoId)
           next == IF r.error = "not_coordinator" THEN "prepare" ELSE "prepared"
           back == [after EXCEPT !.pc = next]
<1>1. Fate(c, c, ids) /\ NoId \in ids /\ NoId \in Nat
  BY OwnFate DEF NoId
<1>2. after \in {c, request_rejoin(c), coordinator_dead(c), reset_generation(c, NoId)}
  BY Zenon
<1>3. next \in {"prepare", "prepared"}
  OBVIOUS
<1>4. \/ Deliver(m, "commit", after, <<>>) \/ Deliver(m, "sync_commit", after, <<>>)
      \/ Deliver(m, "sync_commit", back, <<>>)
  <2>1. \/ Deliver(m, "commit", after, <<>>)
        \/ Deliver(m, "sync_commit", IF c.pc = "commit" THEN back ELSE after, <<>>)
    BY DEF handle_offset_commit_response
  <2> HIDE DEF after, back
  <2>2. QED
    BY <2>1
<1> HIDE DEF c, ids, after, next, r
<1>5. Fate(after, c, ids)
  BY <1>1, <1>2, Fates
<1>6. Fate(back, c, ids)
  BY <1>3, <1>5 DEF Fate, IsConsumer, Counters, Quiet
<1> HIDE DEF back
<1>7. QED
  BY <1>4, <1>5, <1>6, Receive DEF c, ids

\* A JoinGroup that has not been granted, or not to a consumer with a coordinator.
LEMMA JoinRefused ==
    ASSUME Sound, IInv, NEW m \in Consumer, NEW x, NEW kind \in JoinResults,
           Fate(x, consumer[m], Ids(consumer[m], wire[m]) \cup {NoId}), Deliver(m, "join", JoinFails(x, kind), <<>>)
    PROVE  Sound'
<1> DEFINE d == JoinFails(x, kind)
<1>1. Fate(d, consumer[m], Ids(consumer[m], wire[m]) \cup {NoId})
  BY Fates
<1>2. Deliver(m, "join", d, <<>>)
  OBVIOUS
<1> HIDE DEF d
<1>3. QED
  BY <1>1, <1>2, Receive

\* The share of the generation the consumer is in has come.
LEMMA GrantMember ==
    ASSUME NEW c, NEW w, NEW g, GroupOK(g), Travels(c, w), MemberOK(c, w, g), w # <<>>, Head(w).type = "sync",
           Head(w).reply.error = "ok", NEW d, IsConsumer(d), d.state = "STABLE", d.join = "success",
           d.value = Head(w).reply.parts, d.gen = c.gen, d.id = c.id, d.pc \in {"drain", "await"} => d.rejoining
    PROVE  MemberOK(d, Tail(w), g) /\ Follows(d, Tail(w), c, w)
<1> DEFINE v == Tail(w)
           q == w[1]
           x == [gen |-> q.gen, id |-> q.id, parts |-> q.reply.parts]
<1>1. /\ 1 \in DOMAIN w /\ Head(w) = q
      /\ WireOK(v, g) /\ InTurn(v) /\ LeaveOK(v, g)
      /\ \A e : e.id \in Ids(c, w) \cup {NoId} => Ids(e, v) \subseteq Ids(c, w) \cup {NoId}
      /\ NoRound(v)
  BY TailWire
<1>2. Good(c, q)
  BY <1>1 DEF MemberOK, SyncOK, Doomed
<1>3. x \in Claims(c, w)
  BY <1>1 DEF Claims
<1>4. x.gen = c.gen /\ x.id = c.id /\ x.parts = d.value
  BY <1>1, <1>2 DEF Good
<1> HIDE DEF v, q, x
<1>5. ConsumerOK(d, g)
  BY <1>2 DEF ConsumerOK, MemberOK, Good
<1>6. OwnOK(d, g)
  BY <1>2, <1>3, <1>4 DEF OwnOK, MemberOK, ClaimsOK, Good
<1>7. MemberOK(d, v, g)
  BY <1>1, <1>5, <1>6, NoRoundMember
<1>8. \A y \in Claims(d, v) : y.gen = x.gen /\ y.parts \subseteq x.parts
  BY <1>1, <1>4, NoRoundClaims
<1>9. Ids(d, v) \subseteq Ids(c, w) \cup {NoId}
  BY <1>1 DEF Ids
<1>10. QED
  BY <1>3, <1>7, <1>8, <1>9 DEF Follows, Covered, v

LEMMA SyncReceived ==
    ASSUME Sound, IInv, NEW m \in Consumer, handle_sync_group_response(m)
    PROVE  Sound'
<1> DEFINE c == consumer[m]
           w == wire[m]
           ids == Ids(c, w) \cup {NoId}
           r == OldestReply(m)
           d == [c EXCEPT !.join = "success", !.value = r.parts, !.state = "STABLE", !.enabled = TRUE]
<1>1. /\ Fate(c, c, ids) /\ NoId \in ids /\ NoId \in Nat /\ GroupOK(group) /\ MemberOK(c, w, group) /\ Travels(c, w)
      /\ IsConsumer(c)
      /\ c.pc \in {"drain", "await"} => c.rejoining
  BY OwnFate, Known DEF NoId
<1>2. \/ r.error = "ok" /\ Deliver(m, "sync", JoinSucceeds(c, r.parts), <<>>)
      \/ r.error = "rebalance" /\ Deliver(m, "sync", JoinFails(request_rejoin(c), r.error), <<>>)
      \/ /\ r.error \in {"unknown_member", "illegal_generation"}
         /\ Deliver(m, "sync", JoinFails(reset_generation(c, NoId), r.error), <<>>)
      \/ Deliver(m, "sync", JoinFails(coordinator_dead(request_rejoin(c)), "retriable"), <<>>)
  BY DEF handle_sync_group_response
<1>3. /\ {"rebalance", "unknown_member", "illegal_generation", "retriable"} \subseteq JoinResults
  BY DEF JoinResults, RetryJoin, BackoffJoin
<1>4. ASSUME NEW x, NEW kind \in JoinResults, Fate(x, c, ids), Deliver(m, "sync", JoinFails(x, kind), <<>>) PROVE Sound'
  <2> DEFINE b == JoinFails(x, kind)
  <2> HIDE DEF c, ids
  <2>1. Fate(b, c, ids) /\ Deliver(m, "sync", b, <<>>)
    BY <1>4, Fates
  <2> HIDE DEF b
  <2>2. QED
    BY <2>1, Receive DEF c, w, ids
<1>5. CASE r.error = "ok" /\ Deliver(m, "sync", c, <<>>)
  BY <1>1, <1>5, Receive
<1>6. CASE r.error = "ok" /\ Deliver(m, "sync", d, <<>>)
  <2>1. /\ OnlyOf(m) /\ consumer'[m] = d /\ wire'[m] = Tail(w) /\ UNCHANGED group /\ faults' \in 0 .. MaxFaults
        /\ w # <<>> /\ Head(w).type = "sync" /\ r = Head(w).reply
    BY <1>6, Delivered DEF OldestReply
  <2>2. r \in Replies
    BY <1>1, <2>1, TailWire DEF IsRequest
  <2> HIDE DEF c, w, r
  <2>3. /\ IsConsumer(d) /\ d.state = "STABLE" /\ d.join = "success" /\ d.value = r.parts /\ d.gen = c.gen /\ d.id = c.id
        /\ d.pc \in {"drain", "await"} => d.rejoining
    BY <1>1, <2>2 DEF IsConsumer, States, JoinResults, Replies
  <2> HIDE DEF d
  <2>4. MemberOK(d, Tail(w), group) /\ Follows(d, Tail(w), c, w)
    BY <1>1, <1>6, <2>1, <2>3, GrantMember
  <2>5. QED
    BY <2>1, <2>4, OneMember DEF c, w
<1>7. Fate(request_rejoin(c), c, ids) /\ Fate(reset_generation(c, NoId), c, ids)
  <2> HIDE DEF c, ids
  <2>1. QED
    BY <1>1, Fates
<1>8. Fate(coordinator_dead(request_rejoin(c)), c, ids)
  <2> HIDE DEF c, ids
  <2>1. QED
    BY <1>7, Fates
<1>9. JoinSucceeds(c, r.parts) \in {c, d}
  BY DEF JoinSucceeds
<1> HIDE DEF c, d, ids, r
<1>10. QED
  BY <1>2, <1>3, <1>4, <1>5, <1>6, <1>7, <1>8, <1>9

\* The JoinGroup has been granted: SyncGroup is sent behind the LeaveGroups there may be.
LEMMA SyncSent ==
    ASSUME NEW c, NEW w, NEW g, GroupOK(g), Travels(c, w), MemberOK(c, w, g), w # <<>>, Head(w).type = "join",
           Head(w).reply.error = "ok", NEW d, IsConsumer(d), d.pc \in {"drain", "await"} => d.rejoining,
           \/ d.state = "REBALANCING" /\ d.gen = Head(w).reply.gen /\ d.id = Head(w).reply.id /\ d.coordinator
           \/ c.state # "REBALANCING" /\ d.state = "UNJOINED" /\ d.gen = c.gen /\ d.id = c.id,
           NEW e, IsNew(e, d, "sync"), Head(w).reply.leader => e.grant = Assign(Head(w).reply.ids)
    PROVE  MemberOK(d, Append(Tail(w), e), g) /\ Follows(d, Append(Tail(w), e), c, w)
<1> DEFINE u == Tail(w)
           v == Append(u, e)
           q == w[1]
           r == q.reply
           n == Len(w)
<1>1. /\ IsSeq(u) /\ n \in Nat \ {0} /\ DOMAIN w = 1 .. n
      /\ DOMAIN u = 1 .. n - 1 /\ Len(u) = n - 1
      /\ \A k \in 1 .. n - 1 : u[k] = w[k + 1] /\ u[k].reply = NoReply
      /\ Head(w) = q /\ IsRequest(q) /\ r.id \in Ids(c, w)
      /\ WireOK(u, g) /\ InTurn(u) /\ LeaveOK(u, g)
      /\ \A x : x.id \in Ids(c, w) \cup {NoId} => Ids(x, u) \subseteq Ids(c, w) \cup {NoId}
  BY TailWire
<1>2. /\ 1 \in DOMAIN w /\ IsConsumer(c) /\ g.gen \in Nat /\ g.last \in Nat /\ c.gen <= g.gen /\ c.id <= g.last
      /\ r.gen <= g.gen /\ r.id <= g.last
      /\ c.id \in Ids(c, w) /\ r.id = q.id /\ r.gen >= 1 /\ q.id >= 1
      /\ r.gen = g.gen /\ g.phase = "Completing" =>
            /\ r.leader <=> q.id = g.leader
            /\ r.leader => r.ids = g.members
  <2>1. 1 \in DOMAIN w /\ q.type = "join" /\ r.error = "ok"
    BY <1>1
  <2>2. /\ r.id = q.id /\ r.gen >= 1 /\ q.id >= 1
        /\ r.gen = g.gen /\ g.phase = "Completing" =>
              /\ r.leader <=> q.id = g.leader
              /\ r.leader => r.ids = g.members
    BY <2>1 DEF MemberOK, JoinOK
  <2>3. r.gen <= g.gen /\ r.id <= g.last
    BY <2>1 DEF MemberOK, WireOK
  <2>4. IsConsumer(c) /\ g.gen \in Nat /\ g.last \in Nat /\ c.gen <= g.gen /\ c.id <= g.last
    BY DEF MemberOK, ConsumerOK, GroupOK
  <2>5. QED
    BY <2>1, <2>2, <2>3, <2>4 DEF Ids
<1>3. \A k \in 1 .. n - 1 : u[k].type = "leave" /\ u[k].id = q.id
  <2>1. ASSUME NEW k \in 1 .. n - 1 PROVE w[k + 1].type = "leave"
    BY <1>1, <1>2 DEF Travels, JoinAlone
  <2>2. ASSUME NEW k \in 1 .. n - 1 PROVE w[k + 1].id = q.id
    BY <1>1, <1>2, <2>1 DEF MemberOK, JoinOK
  <2>3. QED
    BY <1>1, <2>1, <2>2
<1>4. c.state # "REBALANCING" => c.id = NoId /\ c.gen = NoGen
  BY <1>1, <1>2 DEF Travels, JoinAlone, IsConsumer, States, MemberOK, JoinOK
<1>5. /\ d.gen <= g.gen /\ d.id <= g.last /\ d.id \in Ids(c, w)
  BY <1>1, <1>2
<1>6. /\ e.reply = NoReply /\ e.reply.error = "none" /\ e.type = "sync" /\ e.id = d.id /\ e.gen = d.gen
      /\ e.reply.id = 0 /\ IsRequest(e)
  BY NoReplyOK DEF IsNew
<1> HIDE DEF u
<1>7. /\ WireOK(v, g) /\ Ids(d, v) \subseteq Ids(c, w) \cup {NoId} /\ Claims(d, v) \subseteq Claims(d, u)
  <2>1. /\ WireOK(Append(u, e), g)
        /\ \A x : x.id \in {d.id, NoId} => Ids(x, Append(u, e)) \subseteq Ids(d, u) \cup {NoId}
        /\ \A x : Claims(x, Append(u, e)) \subseteq Claims(x, u)
    BY <1>1, <1>2, <1>5, OneMore
  <2>2. Ids(d, u) \subseteq Ids(c, w) \cup {NoId}
    BY <1>1, <1>5
  <2>3. QED
    BY <2>1, <2>2
<1> HIDE DEF v, q, n
<1>8. /\ DOMAIN v = 1 .. n /\ (\A k \in 1 .. n - 1 : v[k] = u[k]) /\ v[n] = e
  <2>1. n - 1 + 1 = n /\ n - 1 \in Nat
    BY <1>1
  <2>2. QED
    BY <1>1, <2>1, AppendSeq DEF v
<1> HIDE DEF r
<1>9. ConsumerOK(d, g)
  BY <1>5 DEF ConsumerOK
<1>10. InTurn(v) /\ LeaveOK(v, g) /\ JoinOK(d, v, g)
  <2>1. InTurn(v)
    BY <1>1, <1>2, <1>3, <1>6, <1>8 DEF InTurn
  <2>2. LeaveOK(v, g)
    BY <1>1, <1>2, <1>3, <1>6, <1>8, NoReplyOK DEF LeaveOK
  <2>3. JoinOK(d, v, g)
    BY <1>1, <1>3, <1>6, <1>8 DEF JoinOK
  <2>4. QED
    BY <2>1, <2>2, <2>3
<1>11. Doomed(d, e, g) \/ (Good(d, e) /\ \A l \in 1 .. n - 1 : v[l].id = e.id)
  <2>1. CASE d.state = "REBALANCING"
    BY <1>1, <1>2, <1>3, <1>6, <1>8, <2>1 DEF Good, r
  <2>2. CASE d.state # "REBALANCING"
    BY <1>1, <1>2, <1>4, <1>6, <2>2 DEF Doomed, Gone, GroupOK, NoId
  <2>3. QED
    BY <2>1, <2>2
<1>12. e.gen = g.gen /\ g.phase = "Completing" /\ e.id = g.leader => e.grant = Assign(g.members)
  BY <1>1, <1>2, <1>4, <1>6 DEF GroupOK, NoGen, r
<1>13. SyncOK(d, v, g)
  <2>1. ASSUME NEW k \in DOMAIN v, v[k].type = "sync" PROVE k = n /\ v[k] = e
    BY <1>1, <1>3, <1>8, <2>1
  <2>2. QED
    BY <1>6, <1>11, <1>12, <2>1 DEF SyncOK
<1>14. Claims(d, v) = {}
  BY <1>1, <1>3, <1>7 DEF Claims
<1>15. QED
  BY <1>7, <1>9, <1>10, <1>13, <1>14 DEF MemberOK, Follows, Covered, ClaimsOK, v, u

\* Anything that is not STABLE, with an id and a generation there have been.
LEMMA ReceiveUnsettled ==
    ASSUME Sound, IInv, NEW m \in Consumer, NEW type, type # "leave", NEW d, Deliver(m, type, d, <<>>),
           ConsumerOK(d, group), d.state # "STABLE", d.id \in Ids(consumer[m], wire[m]) \cup {NoId}
    PROVE  Sound'
<1> DEFINE c == consumer[m]
           w == wire[m]
           v == Tail(wire[m])
<1>1. /\ OnlyOf(m) /\ consumer'[m] = d /\ wire'[m] = v /\ UNCHANGED group /\ faults' \in 0 .. MaxFaults
      /\ w # <<>> /\ Head(w).type # "leave"
  BY Delivered
<1>2. GroupOK(group) /\ MemberOK(c, w, group) /\ Travels(c, w)
  BY Known
<1>3. /\ WireOK(v, group) /\ InTurn(v) /\ LeaveOK(v, group) /\ NoRound(v)
      /\ Ids(d, v) \subseteq Ids(c, w) \cup {NoId}
  BY <1>1, <1>2, TailWire
<1> HIDE DEF c, w, v
<1>4. MemberOK(d, v, group) /\ Follows(d, v, c, w)
  BY <1>2, <1>3, Settles
<1>5. QED
  BY <1>1, <1>4, OneMember DEF c, w, v

\* What a consumer is when its JoinGroup has been granted.
LEMMA Granted ==
    ASSUME NEW c, NEW w, NEW g, GroupOK(g), Travels(c, w), MemberOK(c, w, g), w # <<>>, Head(w).type = "join",
           NEW r, r = Head(w).reply, r.error = "ok", NEW d,
           \/ d = [c EXCEPT !.gen = r.gen, !.id = r.id]
           \/ d = [c EXCEPT !.join = "retriable", !.state = "UNJOINED"]
           \/ d = c
    PROVE  ConsumerOK(d, g) /\ d.id \in Ids(c, w)
<1> DEFINE q == w[1]
<1>1. /\ 1 \in DOMAIN w /\ Head(w) = q /\ r = q.reply /\ r.id \in Ids(c, w) /\ IsRequest(q)
  BY TailWire
<1>2. /\ r.gen <= g.gen /\ r.id <= g.last /\ r.gen \in Nat /\ r.id \in Nat
  BY <1>1 DEF MemberOK, WireOK, IsRequest, Replies
<1>3. c.state # "STABLE" /\ ConsumerOK(c, g)
  BY <1>1 DEF Travels, JoinAlone, MemberOK
<1>4. c.id \in Ids(c, w)
  BY DEF Ids
<1>5. QED
  BY ZenonT(60), <1>1, <1>2, <1>3, <1>4 DEF ConsumerOK, IsConsumer, States, JoinResults, BackoffJoin

LEMMA JoinReceived ==
    ASSUME Sound, IInv, NEW m \in Consumer, handle_join_group_response(m)
    PROVE  Sound'
<1> DEFINE c == consumer[m]
           w == wire[m]
           ids == Ids(c, w) \cup {NoId}
           r == OldestReply(m)
           a == [c EXCEPT !.gen = r.gen, !.id = r.id]
           b == [c EXCEPT !.join = "retriable", !.state = "UNJOINED"]
           fresh == IF c.state = "REBALANCING" THEN a ELSE JoinFails(c, "retriable")
           sync == IF r.leader THEN on_join_leader(fresh, r) ELSE on_join_follower(fresh)
<1>1. /\ Fate(c, c, ids) /\ NoId \in ids /\ NoId \in Nat /\ GroupOK(group) /\ MemberOK(c, w, group) /\ Travels(c, w)
      /\ IsConsumer(c) /\ ids \subseteq Nat /\ IsSeq(w)
      /\ DOMAIN consumer = Consumer /\ DOMAIN wire = Consumer /\ faults \in 0 .. MaxFaults
  BY OwnFate, Known DEF NoId
<1>2. \/ r.error = "ok" /\ c.coordinator /\ Deliver(m, "join", fresh, <<sync>>)
      \/ r.error = "ok" /\ Deliver(m, "join", JoinFails(fresh, "retriable"), <<>>)
      \/ r.error = "unknown_member" /\ Deliver(m, "join", JoinFails(reset_generation(c, NoId), r.error), <<>>)
      \/ r.error = "member_id_required" /\ Deliver(m, "join", JoinFails(reset_generation(c, r.id), r.error), <<>>)
      \/ Deliver(m, "join", JoinFails(coordinator_dead(c), "retriable"), <<>>)
      \/ Deliver(m, "join", JoinFails(c, "fatal"), <<>>)
  BY Zenon DEF handle_join_group_response
<1>3. {"unknown_member", "member_id_required", "retriable", "fatal"} \subseteq JoinResults
  BY DEF JoinResults, RetryJoin, BackoffJoin, FatalJoin
<1>4. ASSUME NEW x, NEW kind \in JoinResults, Deliver(m, "join", JoinFails(x, kind), <<>>)
      PROVE  w # <<>> /\ Head(w).type = "join" /\ r = Head(w).reply /\ r.id \in ids
  <2>1. w # <<>> /\ Head(w).type = "join" /\ r = Head(w).reply
    BY <1>4 DEF Deliver, Answered, OldestReply
  <2>2. QED
    BY <1>1, <2>1, TailWire
<1>5. ASSUME NEW id \in ids, NEW kind \in JoinResults, Deliver(m, "join", JoinFails(reset_generation(c, id), kind), <<>>)
      PROVE  Sound'
  <2> DEFINE x == reset_generation(c, id)
  <2> HIDE DEF c, ids
  <2>1. Fate(x, c, ids)
    BY <1>1, Fates
  <2>2. Deliver(m, "join", JoinFails(x, kind), <<>>)
    BY <1>5
  <2> HIDE DEF x
  <2>3. QED
    BY <2>1, <2>2, JoinRefused DEF c, w, ids
<1>6. CASE Deliver(m, "join", JoinFails(coordinator_dead(c), "retriable"), <<>>)
  <2> DEFINE x == coordinator_dead(c)
  <2> HIDE DEF c, ids
  <2>1. Fate(x, c, ids)
    BY <1>1, Fates
  <2>2. Deliver(m, "join", JoinFails(x, "retriable"), <<>>)
    BY <1>6
  <2> HIDE DEF x
  <2>3. QED
    BY <1>3, <2>1, <2>2, JoinRefused DEF c, w, ids
<1>7. CASE Deliver(m, "join", JoinFails(c, "fatal"), <<>>)
  BY <1>1, <1>3, <1>7, JoinRefused
<1>8. /\ JoinFails(c, "retriable") \in {b, c} /\ fresh \in {a, b, c}
      /\ fresh.state # "REBALANCING" \/ fresh = a
  BY DEF JoinFails
<1>9. ASSUME w # <<>>, Head(w).type = "join", r = Head(w).reply, r.error = "ok"
       PROVE  ConsumerOK(fresh, group) /\ fresh.id \in Ids(c, w)
  <2> HIDE DEF c, w, r, fresh
  <2>1. \/ fresh = [c EXCEPT !.gen = r.gen, !.id = r.id]
        \/ fresh = [c EXCEPT !.join = "retriable", !.state = "UNJOINED"]
        \/ fresh = c
    BY <1>8
  <2> HIDE DEF a, b
  <2>2. QED
    BY <1>1, <1>9, <2>1, Granted
<1>10. CASE r.error = "ok" /\ Deliver(m, "join", JoinFails(fresh, "retriable"), <<>>)
  <2> DEFINE d == JoinFails(fresh, "retriable")
             y == [fresh EXCEPT !.join = "retriable", !.state = "UNJOINED"]
  <2>1. w # <<>> /\ Head(w).type = "join" /\ r = Head(w).reply
    BY <1>10 DEF Deliver, Answered, OldestReply
  <2>2. c.state # "STABLE"
    BY <1>1, <2>1, TailWire DEF Travels, JoinAlone
  <2> HIDE DEF c, w, r, fresh
  <2>3. ConsumerOK(fresh, group) /\ fresh.id \in Ids(c, w)
    BY <1>10, <1>9, <2>1
  <2>4. fresh.state # "STABLE"
    BY <1>1, <1>8, <2>2 DEF IsConsumer
  <2>5. d \in {fresh, y}
    BY DEF JoinFails
  <2> HIDE DEF a, b
  <2>6. ConsumerOK(d, group) /\ d.id \in Ids(c, w) /\ d.state # "STABLE"
    BY <2>3, <2>4, <2>5 DEF ConsumerOK, IsConsumer, States, JoinResults, BackoffJoin
  <2>7. Deliver(m, "join", d, <<>>)
    BY <1>10
  <2> HIDE DEF d
  <2>8. QED
    BY <2>6, <2>7, ReceiveUnsettled DEF c, w
<1>11. CASE r.error = "ok" /\ c.coordinator /\ Deliver(m, "join", fresh, <<sync>>)
  <2>1. w # <<>> /\ Head(w).type = "join" /\ r = Head(w).reply
    BY <1>11 DEF Deliver, Answered, OldestReply
  <2>2. c.state # "STABLE"
    BY <1>1, <2>1, TailWire DEF Travels, JoinAlone
  <2>3. IsSeq(Tail(w))
    BY <1>1, <2>1, TailWire
  <2>4. Tail(w) \o <<sync>> = Append(Tail(w), sync)
    BY <2>3, ConcatSeq
  <2>5. OnlyOf(m) /\ consumer'[m] = fresh /\ wire'[m] = Append(Tail(w), sync) /\ UNCHANGED <<group, faults>>
    BY <1>1, <1>11, <2>4 DEF Deliver, OnlyOf
  <2> HIDE DEF c, w, r, fresh
  <2>6. ConsumerOK(fresh, group)
    BY <1>11, <1>9, <2>1
  <2>7. /\ IsNew(sync, fresh, "sync")
        /\ r.leader => sync.grant = Assign(r.ids)
    BY <2>6, NewRequest DEF on_join_leader, on_join_follower, send_sync_group_request, RequestTypes, ConsumerOK, IsConsumer
  <2>8. /\ IsConsumer(fresh)
        /\ fresh.pc \in {"drain", "await"} => fresh.rejoining
    BY <2>6 DEF ConsumerOK
  <2>9. \/ fresh.state = "REBALANCING" /\ fresh.gen = r.gen /\ fresh.id = r.id /\ fresh.coordinator
        \/ c.state # "REBALANCING" /\ fresh.state = "UNJOINED" /\ fresh.gen = c.gen /\ fresh.id = c.id
    <3>1. CASE c.state = "REBALANCING"
      BY <1>1, <1>11, <3>1 DEF IsConsumer, fresh
    <3>2. CASE c.state # "REBALANCING"
      BY <1>1, <2>2, <3>2 DEF IsConsumer, fresh, JoinFails, States
    <3>3. QED
      BY <3>1, <3>2
  <2> HIDE DEF sync, a, b
  <2>10. MemberOK(fresh, Append(Tail(w), sync), group) /\ Follows(fresh, Append(Tail(w), sync), c, w)
    BY <1>1, <1>11, <2>1, <2>7, <2>8, <2>9, SyncSent
  <2>11. QED
    BY <1>1, <2>5, <2>10, OneMember DEF c, w
<1> HIDE DEF c, w, ids, r, fresh, sync, a, b
<1>12. CASE r.error = "unknown_member" /\ Deliver(m, "join", JoinFails(reset_generation(c, NoId), r.error), <<>>)
  BY <1>1, <1>3, <1>5, <1>12
<1>13. CASE r.error = "member_id_required" /\ Deliver(m, "join", JoinFails(reset_generation(c, r.id), r.error), <<>>)
  BY <1>3, <1>4, <1>5, <1>13
<1>14. QED
  BY <1>2, <1>6, <1>7, <1>10, <1>11, <1>12, <1>13

\* The member has left: a SyncGroup that is still behind finds it gone.
LEMMA LeftMember ==
    ASSUME NEW c, NEW w, NEW g, GroupOK(g), Travels(c, w), MemberOK(c, w, g), w # <<>>, Head(w).type = "leave",
           Head(w).reply.error # "none", NEW d, IsConsumer(d), d.pc \in {"drain", "await"} => d.rejoining,
           d.state = "UNJOINED", d.gen = NoGen, d.id = NoId
    PROVE  MemberOK(d, Tail(w), g) /\ Follows(d, Tail(w), c, w)
<1> DEFINE v == Tail(w)
           q == w[1]
           n == Len(w)
<1>1. /\ n \in Nat \ {0} /\ DOMAIN w = 1 .. n /\ DOMAIN v = 1 .. n - 1
      /\ \A k \in 1 .. n - 1 : v[k] = w[k + 1] /\ v[k].reply = NoReply
      /\ Head(w) = q /\ WireOK(v, g) /\ InTurn(v) /\ LeaveOK(v, g)
      /\ \A x : x.id \in Ids(c, w) \cup {NoId} => Ids(x, v) \subseteq Ids(c, w) \cup {NoId}
  BY TailWire
<1> HIDE DEF v, n
<1>2. 1 \in DOMAIN w /\ \A k \in 1 .. n - 1 : k + 1 \in DOMAIN w /\ k + 1 # 1 /\ 1 \in 1 .. (k + 1) - 1
  BY <1>1
<1>3. Gone(q.id, g)
  BY <1>1, <1>2 DEF MemberOK, LeaveOK
<1>4. ConsumerOK(d, g)
  BY DEF ConsumerOK, GroupOK, NoGen, NoId
<1>5. \A k \in DOMAIN v : v[k].reply.error = "none"
  BY <1>1, NoReplyOK
<1>6. JoinOK(d, v, g)
  BY <1>1, <1>2 DEF JoinOK, Travels, JoinAlone
<1>7. SyncOK(d, v, g)
  <2>1. ASSUME NEW k \in DOMAIN v, v[k].type = "sync" PROVE Doomed(d, v[k], g)
    <3>1. k + 1 \in DOMAIN w /\ w[k + 1] = v[k] /\ 1 \in 1 .. (k + 1) - 1
      BY <1>1, <1>2
    <3>2. Doomed(c, w[k + 1], g) \/ \A l \in 1 .. (k + 1) - 1 : w[l].id = w[k + 1].id
      BY <2>1, <3>1 DEF MemberOK, SyncOK
    <3>3. Gone(v[k].id, g)
      BY <1>3, <3>1, <3>2 DEF Doomed
    <3>4. QED
      BY <1>5, <3>3 DEF Doomed
  <2>2. ASSUME NEW k \in DOMAIN v, v[k].type = "sync", v[k].gen = g.gen, g.phase = "Completing", v[k].id = g.leader
        PROVE  v[k].grant = Assign(g.members)
    BY SMTT(30), <1>1, <1>2, <2>2 DEF MemberOK, SyncOK
  <2>3. QED
    BY <1>5, <2>1, <2>2 DEF SyncOK
<1>8. Claims(d, v) = {}
  BY <1>5 DEF Claims
<1>9. Ids(d, v) \subseteq Ids(c, w) \cup {NoId}
  BY <1>1
<1>10. QED
  BY <1>1, <1>4, <1>6, <1>7, <1>8, <1>9 DEF MemberOK, Follows, Covered, ClaimsOK, v

LEMMA LeaveReceived ==
    ASSUME Sound, IInv, NEW m \in Consumer, handle_leave_group_response(m)
    PROVE  Sound'
<1> DEFINE c == consumer[m]
           w == wire[m]
           d == [reset_generation(c, NoId) EXCEPT !.leaving = FALSE]
<1>1. Deliver(m, "leave", d, <<>>)
  BY DEF handle_leave_group_response
<1>2. /\ OnlyOf(m) /\ consumer'[m] = d /\ wire'[m] = Tail(w) /\ UNCHANGED group /\ faults' \in 0 .. MaxFaults
      /\ w # <<>> /\ Head(w).type = "leave" /\ Head(w).reply.error # "none"
  BY <1>1, Delivered
<1>3. /\ GroupOK(group) /\ MemberOK(c, w, group) /\ Travels(c, w) /\ IsConsumer(c)
      /\ c.pc \in {"drain", "await"} => c.rejoining
  BY Known
<1> HIDE DEF c, w
<1>4. /\ IsConsumer(d) /\ d.state = "UNJOINED" /\ d.gen = NoGen /\ d.id = NoId
      /\ d.pc \in {"drain", "await"} => d.rejoining
  BY <1>3 DEF IsConsumer, reset_generation, States, NoGen, NoId
<1> HIDE DEF d
<1>5. MemberOK(d, Tail(w), group) /\ Follows(d, Tail(w), c, w)
  BY <1>2, <1>3, <1>4, LeftMember
<1>6. QED
  BY <1>2, <1>5, OneMember DEF c, w

LEMMA ConnectionLost ==
    ASSUME Sound, IInv, NEW m \in Consumer, failed_request(m)
    PROVE  Sound'
<1> DEFINE c == consumer[m]
           w == wire[m]
           ids == Ids(c, w) \cup {NoId}
           types == {wire[m][i].type : i \in DOMAIN wire[m]}
           x == coordinator_dead(c)
           y == JoinFails(x, "retriable")
           dead == IF types \cap {"join", "sync"} # {} THEN y ELSE x
           z == [dead EXCEPT !.pc = "prepare"]
           back == IF c.pc = "commit" /\ "sync_commit" \in types THEN z ELSE dead
           r == reset_generation(back, NoId)
           s == [r EXCEPT !.leaving = FALSE]
           d == consumer'[m]
<1>1. /\ Fate(c, c, ids) /\ NoId \in ids /\ NoId \in Nat /\ GroupOK(group) /\ MemberOK(c, w, group)
      /\ ids \subseteq Nat /\ DOMAIN consumer = Consumer /\ DOMAIN wire = Consumer
  BY OwnFate, Known DEF NoId
<1>2. UNCHANGED group /\ faults' \in 0 .. MaxFaults
  BY Known DEF failed_request
<1>3. OnlyOf(m) /\ d = (IF c.leaving THEN s ELSE back) /\ wire'[m] = <<>>
  BY <1>1 DEF failed_request, OnlyOf
<1> HIDE DEF c, ids, types
<1>4. Fate(x, c, ids)
  BY <1>1, Fates
<1>5. Fate(y, c, ids)
  BY <1>4, Fates DEF JoinResults, BackoffJoin
<1> HIDE DEF x, y
<1>6. Fate(dead, c, ids)
  BY <1>4, <1>5
<1> HIDE DEF dead
<1>7. Fate(z, c, ids)
  BY <1>6 DEF Fate, IsConsumer, Counters, Quiet
<1> HIDE DEF z
<1>8. Fate(back, c, ids)
  BY <1>6, <1>7
<1> HIDE DEF back
<1>9. Fate(r, c, ids) /\ r.state = "UNJOINED"
  <2>1. Fate(r, c, ids)
    BY <1>1, <1>8, Fates
  <2>2. r.state = "UNJOINED"
    BY <1>8 DEF reset_generation, Fate, IsConsumer
  <2>3. QED
    BY <2>1, <2>2
<1> HIDE DEF r
<1>10. Fate(s, c, ids)
  BY <1>9 DEF Fate, IsConsumer
<1> HIDE DEF s
<1>11. Fate(d, c, ids)
  BY <1>3, <1>8, <1>10
<1> HIDE DEF d
<1>12. /\ ids \subseteq 0 .. group.last
  BY <1>1 DEF Ids, MemberOK, WireOK, ConsumerOK, IsConsumer, IsRequest, GroupOK, NoId, Replies, ids
<1>13. ConsumerOK(d, group)
  <2>1. IsConsumer(d) /\ d.gen <= group.gen /\ d.id <= group.last /\ (d.pc \in {"drain", "await"} => d.rejoining)
    BY <1>1, <1>11, <1>12 DEF Fate, MemberOK, ConsumerOK, GroupOK, NoGen, IsConsumer
  <2>2. d.state = "STABLE" => d.join \in {"none", "success"} /\ d.gen >= 1
    BY <1>1, <1>11 DEF Fate, Quiet, MemberOK, ConsumerOK
  <2>3. QED
    BY <2>1, <2>2 DEF ConsumerOK
<1>14. /\ NoRound(<<>>) /\ WireOK(<<>>, group) /\ InTurn(<<>>) /\ LeaveOK(<<>>, group)
       /\ Ids(d, <<>>) \subseteq Ids(c, w) \cup {NoId}
  <2>1. DOMAIN <<>> = {}
    BY EmptyIsSeq
  <2>2. d.id \in Ids(c, w) \cup {NoId}
    BY <1>11 DEF Fate, ids
  <2>3. QED
    BY <2>1, <2>2 DEF NoRound, WireOK, InTurn, LeaveOK, Ids
<1>15. d.state # "STABLE" \/ Quiet(d, c)
  BY <1>11 DEF Fate
<1> HIDE DEF w
<1>16. MemberOK(d, <<>>, group) /\ Follows(d, <<>>, c, w)
  BY <1>1, <1>13, <1>14, <1>15, Settles
<1>17. QED
  BY <1>2, <1>3, <1>16, OneMember DEF c, d, w

-----------------------------------------------------------------------------
(* The cluster's coordinator.  What it answers, and how the group goes on.    *)

LEMMA AReply ==
    ASSUME NEW error \in Errors
    PROVE  Reply(error) \in Replies /\ Reply(error).error = error /\ Reply(error).gen = 0 /\ Reply(error).id = 0
BY DEF Reply, NoReply, Replies, Errors, NoGen, NoId

LEMMA ParkedReply == Parked \in Replies /\ Parked.error = "parked" /\ Parked.gen = 0 /\ Parked.id = 0
BY DEF Parked, NoReply, Replies, Errors, NoGen, NoId

\* Nobody comes back: a round begins with a generation of its own and ends in the generation
\* and with the members it began with.
Moves(g, h) ==
    /\ GroupOK(g) /\ GroupOK(h) /\ g.gen <= h.gen /\ g.last <= h.last
    /\ \A i \in 0 .. g.last : Gone(i, g) => Gone(i, h)
    /\ h.phase = "Completing" =>
          g.gen < h.gen \/ (g.phase = "Completing" /\ h.gen = g.gen /\ h.members = g.members /\ h.leader = g.leader)
    /\ h.phase = "Stable" => g.phase \in {"Completing", "Stable"} /\ h.gen = g.gen /\ h.members = g.members

LEMMA MovesNowhere ==
    ASSUME NEW g, GroupOK(g)
    PROVE  Moves(g, g)
BY DEF Moves, GroupOK

NoneParked(w) == \A k \in DOMAIN w : w[k].type = "sync" => w[k].reply.error # "parked"

\* Whatever it has been granted is of a generation there has been.
LEMMA OldClaims ==
    ASSUME NEW c, NEW w, NEW g, MemberOK(c, w, g), NEW x \in Claims(c, w)
    PROVE  x.gen <= g.gen /\ x.id \in Ids(c, w)
BY DEF Claims, MemberOK, ConsumerOK, WireOK, Ids

\* Of what is granted before, nothing changes.
LEMMA MovesClaims ==
    ASSUME NEW c, NEW w, NEW g, NEW h, MemberOK(c, w, g), Moves(g, h)
    PROVE  ClaimsOK(c, w, h)
BY OldClaims DEF MemberOK, ClaimsOK, Moves, GroupOK

LEMMA MovesMember ==
    ASSUME NEW c, NEW w, NEW g, NEW h, MemberOK(c, w, g), Moves(g, h), NoneParked(w) \/ (h.gen = g.gen
               /\ h.phase = g.phase /\ h.members = g.members)
    PROVE  MemberOK(c, w, h)
<1> USE DEF MemberOK
<1>1. ClaimsOK(c, w, h)
  BY MovesClaims
<1>2. ConsumerOK(c, h)
  BY DEF ConsumerOK, IsConsumer, Moves, GroupOK
<1>3. WireOK(w, h)
  BY DEF WireOK, IsRequest, Replies, Moves, GroupOK
<1>4. \A k \in DOMAIN w : w[k].id \in 0 .. g.last /\ w[k].gen <= g.gen /\ w[k].gen \in Nat
                          /\ w[k].reply.gen <= g.gen /\ w[k].reply.gen \in Nat
  BY DEF WireOK, IsRequest, Replies, Moves, GroupOK
<1>5. LeaveOK(w, h)
  BY <1>4 DEF LeaveOK, Moves
<1>6. JoinOK(c, w, h)
  BY <1>4 DEF JoinOK, Moves, GroupOK
<1>7. SyncOK(c, w, h)
  BY <1>4 DEF SyncOK, Moves, GroupOK, Doomed, NoneParked
<1>8. QED
  BY <1>1, <1>2, <1>3, <1>5, <1>6, <1>7

\* e is q as the coordinator answers it, or parks it, the group being h by then.
Answers(e, q, h) ==
    /\ IsRequest(e) /\ e.type = q.type /\ e.gen = q.gen /\ e.grant = q.grant
    /\ e.id = q.id \/ (q.type = "join" /\ q.id = NoId)
    /\ e.id <= h.last /\ e.reply.gen <= h.gen /\ e.reply.id <= h.last
    /\ e.type = "leave" => e.reply.error = "none" \/ Gone(e.id, h)
    /\ e.type = "join" /\ e.reply.error = "ok" =>
          /\ e.reply.id = e.id /\ e.id >= 1 /\ e.reply.gen >= 1
          /\ e.reply.gen = h.gen /\ h.phase = "Completing" =>
                /\ e.reply.leader <=> e.id = h.leader
                /\ e.reply.leader => e.reply.ids = h.members
    /\ e.type = "sync" =>
          /\ e.reply.error = "parked" => e.gen = h.gen /\ h.phase = "Completing" /\ e.id \in h.members
          /\ e.reply.error = "ok" =>
                e.gen = h.gen /\ h.phase = "Stable" /\ e.id \in h.members /\ e.reply.parts = Assign(h.members)[e.id]

\* How one consumer, c, and what it has in flight come through a step of the coordinator.
Progress(c, v, w, h) ==
    /\ MemberOK(c, v, h)
    /\ \A x \in Claims(c, v) : x \in Claims(c, w) \/ (x.gen = h.gen /\ h.phase = "Stable")

LEMMA HeadMoves ==
    ASSUME NEW c, NEW w, NEW g, NEW h, Travels(c, w), MemberOK(c, w, g), Moves(g, h), w # <<>>,
           NEW e, Answers(e, w[1], h)
    PROVE  /\ Progress(c, <<e>> \o Tail(w), w, h)
           /\ Ids(c, <<e>> \o Tail(w)) \subseteq Ids(c, w) \cup {e.id, e.reply.id}
<1> DEFINE v == <<e>> \o Tail(w)
           q == w[1]
           n == Len(w)
<1>1. /\ n \in Nat \ {0} /\ DOMAIN w = 1 .. n /\ DOMAIN v = 1 .. n
      /\ (\A k \in 2 .. n : v[k] = w[k]) /\ v[1] = e
  BY ReplaceSeq DEF Travels
<1> HIDE DEF v, n
<1>2. 1 \in DOMAIN w
  BY <1>1
<1>3. \A k \in DOMAIN w : /\ w[k].id \in 0 .. g.last /\ w[k].gen <= g.gen /\ w[k].gen \in Nat
                          /\ w[k].reply.gen <= g.gen /\ w[k].reply.gen \in Nat
  BY DEF MemberOK, WireOK, IsRequest, Replies, Moves, GroupOK
<1>4. \A k \in 2 .. n : k \in DOMAIN w /\ w[k].reply = NoReply /\ w[k].reply.error = "none"
  BY <1>1, NoReplyOK DEF MemberOK, InTurn
<1>5. GroupOK(g) /\ GroupOK(h) /\ g.gen <= h.gen /\ g.last <= h.last
  BY DEF Moves
<1>6. ConsumerOK(c, h)
  BY <1>5 DEF MemberOK, ConsumerOK, IsConsumer, GroupOK
<1>7. WireOK(v, h)
  <2>1. ASSUME NEW k \in 2 .. n
        PROVE  IsRequest(w[k]) /\ w[k].gen <= h.gen /\ w[k].id <= h.last /\ w[k].reply.gen <= h.gen /\ w[k].reply.id <= h.last
    BY <1>3, <1>4, <1>5, NoReplyOK DEF MemberOK, WireOK, GroupOK
  <2>2. IsRequest(e) /\ e.gen <= h.gen /\ e.id <= h.last /\ e.reply.gen <= h.gen /\ e.reply.id <= h.last
    BY <1>2, <1>3, <1>5 DEF Answers, GroupOK
  <2>3. QED
    BY <1>1, <2>1, <2>2 DEF WireOK
<1>8. InTurn(v)
  <2>1. \A k \in DOMAIN v : v[k].type = w[k].type
    BY <1>1 DEF Answers
  <2>2. e.type = "leave" => e.id >= 1
    BY <1>2 DEF Answers, MemberOK, InTurn
  <2>3. QED
    BY <1>1, <1>4, <2>1, <2>2 DEF MemberOK, InTurn
<1>9. LeaveOK(v, h)
  BY <1>1, <1>4 DEF LeaveOK, Answers
<1>10. JoinOK(c, v, h)
  <2>1. \A k \in 2 .. n : w[k].type # "join"
    BY <1>1 DEF Travels, JoinAlone
  <2>2. ASSUME e.type = "join"
        PROVE  /\ c.state = "REBALANCING" => c.id \in {e.id, NoId}
               /\ c.state = "UNJOINED" => c.id = NoId /\ c.gen = NoGen
               /\ \A k \in 2 .. n : w[k].type = "leave" => w[k].id = e.id
    <3>1. /\ c.state = "REBALANCING" => c.id \in {q.id, NoId}
          /\ c.state = "UNJOINED" => c.id = NoId /\ c.gen = NoGen
          /\ \A k \in 2 .. n : w[k].type = "leave" => w[k].id = q.id
      BY <1>2, <1>4, <2>2 DEF MemberOK, JoinOK, Answers
    <3>2. \A k \in 2 .. n : w[k].type = "leave" => w[k].id # NoId
      BY <1>4 DEF MemberOK, InTurn, NoId
    <3>3. QED
      BY <3>1, <3>2 DEF Answers
  <2>3. QED
    BY <1>1, <2>1, <2>2 DEF JoinOK, Answers
<1>11. SyncOK(c, v, h)
  <2>1. ASSUME NEW k \in 2 .. n, w[k].type = "sync"
        PROVE  /\ Doomed(c, w[k], h) \/ (Good(c, w[k]) /\ \A l \in 1 .. k - 1 : v[l].id = w[k].id)
               /\ w[k].gen = h.gen /\ h.phase = "Completing" /\ w[k].id = h.leader => w[k].grant = Assign(h.members)
    <3>1. q.type = "leave" /\ e.id = q.id
      BY <1>1, <1>4, <2>1 DEF MemberOK, InTurn, Answers
    <3>2. \A l \in 1 .. k - 1 : v[l].id = w[l].id
      BY <1>1, <3>1
    <3>3. Doomed(c, w[k], h) \/ (Good(c, w[k]) /\ \A l \in 1 .. k - 1 : w[l].id = w[k].id)
      BY <1>3, <1>4, <2>1 DEF MemberOK, SyncOK, Doomed, Moves
    <3>4. w[k].gen = h.gen /\ h.phase = "Completing" /\ w[k].id = h.leader => w[k].grant = Assign(h.members)
      BY <1>3, <1>4, <1>5, <2>1 DEF MemberOK, SyncOK, Moves, GroupOK
    <3>5. QED
      BY <3>2, <3>3, <3>4
  <2>2. ASSUME e.type = "sync"
        PROVE  /\ Doomed(c, e, h) \/ Good(c, e)
               /\ e.gen = h.gen /\ h.phase = "Completing" /\ e.id = h.leader => e.grant = Assign(h.members)
    <3>1. q.type = "sync" /\ e.id = q.id /\ e.gen = q.gen /\ e.grant = q.grant
      BY <2>2 DEF Answers
    <3>2. (Doomed(c, q, g) /\ Gone(q.id, h)) \/ Good(c, q)
      BY <1>2, <1>3, <3>1 DEF MemberOK, SyncOK, Doomed, Moves
    <3>3. e.reply.error = "ok" => ~Gone(e.id, h)
      BY <2>2 DEF Answers, Gone
    <3>4. Doomed(c, e, h) \/ Good(c, e)
      BY <3>1, <3>2, <3>3 DEF Doomed, Good
    <3>5. q.gen = h.gen /\ h.phase = "Completing" /\ q.id = h.leader => q.grant = Assign(h.members)
      BY <1>2, <1>3, <1>5, <3>1 DEF MemberOK, SyncOK, Moves, GroupOK
    <3>6. QED
      BY <3>1, <3>4, <3>5
  <2>3. QED
    BY <1>1, <1>4, <2>1, <2>2 DEF SyncOK, Answers
<1>12. ASSUME NEW x \in Claims(c, v)
       PROVE  \/ x \in Claims(c, w) /\ c.state = "STABLE"
              \/ /\ x.gen = h.gen /\ h.phase = "Stable"
                 /\ x.id \in h.members /\ x.parts = Assign(h.members)[x.id]
  <2>1. CASE c.state = "STABLE"
    <3>1. NoRound(w)
      BY <2>1, StableNoRound
    <3>2. NoRound(v)
      BY <1>1, <1>2, <3>1 DEF NoRound, Answers
    <3>3. QED
      BY <2>1, <3>2, NoRoundClaims DEF Claims, NoRound
  <2>2. CASE c.state # "STABLE"
    <3>1. PICK k \in DOMAIN v : v[k].type = "sync" /\ v[k].reply.error = "ok"
                                /\ x = [gen |-> v[k].gen, id |-> v[k].id, parts |-> v[k].reply.parts]
      BY <2>2 DEF Claims
    <3>2. k = 1 /\ v[k] = e
      BY <1>1, <1>4, <3>1
    <3>3. QED
      BY <3>1, <3>2 DEF Answers
  <2>3. QED
    BY <2>1, <2>2
<1>13. ClaimsOK(c, v, h)
  <2>1. ClaimsOK(c, w, h)
    BY MovesClaims
  <2>2. QED
    BY <1>12, <2>1 DEF ClaimsOK
<1>14. Ids(c, v) \subseteq Ids(c, w) \cup {e.id, e.reply.id}
  BY <1>1 DEF Ids
<1>15. QED
  BY <1>6, <1>7, <1>8, <1>9, <1>10, <1>11, <1>12, <1>13, <1>14 DEF MemberOK, Progress, v

LEMMA AllMembers ==
    ASSUME Sound, IInv, UNCHANGED consumer, GroupOK(group'), faults' \in 0 .. MaxFaults, NEW m,
           \A n \in Consumer :
              /\ Progress(consumer[n], wire'[n], wire[n], group')
              /\ n # m => Ids(consumer[n], wire'[n]) \subseteq Ids(consumer[n], wire[n]) \cup {NoId}
              /\ n = m => Ids(consumer[n], wire'[n]) \subseteq Ids(consumer[n], wire[n]) \cup {NoId, group.last + 1}
    PROVE  Sound'
<1> DEFINE c(n) == consumer[n]
           h == group'
<1>1. \A n \in Consumer : /\ Ids(c(n), wire[n]) \subseteq 0 .. group.last /\ group.last \in Nat
                          /\ Progress(c(n), wire'[n], wire[n], h) /\ MemberOK(c(n), wire'[n], h)
  BY SMTT(30) DEF Sound, Ids, MemberOK, WireOK, ConsumerOK, IsConsumer, IsRequest, GroupOK, Replies, Progress
<1>2. ASSUME NEW n \in Consumer, NEW p \in Consumer, n # p
      PROVE  Apart(c(n), wire'[n], c(p), wire'[p])
  <2>1. Apart(c(n), wire[n], c(p), wire[p])
    BY <1>2 DEF Sound
  <2>2. Ids(c(n), wire'[n]) \cap Ids(c(p), wire'[p]) \subseteq {NoId}
    <3>1. /\ Ids(c(n), wire[n]) \cap Ids(c(p), wire[p]) \subseteq {NoId}
          /\ group.last + 1 \notin Ids(c(n), wire[n]) \cup Ids(c(p), wire[p]) \cup {NoId}
      BY <1>1, <2>1 DEF Apart, NoId
    <3>2. /\ n # m => Ids(c(n), wire'[n]) \subseteq Ids(c(n), wire[n]) \cup {NoId}
          /\ n = m => Ids(c(n), wire'[n]) \subseteq Ids(c(n), wire[n]) \cup {NoId, group.last + 1}
          /\ p # m => Ids(c(p), wire'[p]) \subseteq Ids(c(p), wire[p]) \cup {NoId}
          /\ p = m => Ids(c(p), wire'[p]) \subseteq Ids(c(p), wire[p]) \cup {NoId, group.last + 1}
      OBVIOUS
    <3> HIDE DEF c, h
    <3>3. QED
      BY <1>2, <3>1, <3>2
  <2>3. ASSUME NEW x \in Claims(c(n), wire'[n]), NEW y \in Claims(c(p), wire'[p]), x.gen = y.gen
        PROVE  x.parts \cap y.parts = {}
    <3>1. CASE x \in Claims(c(n), wire[n]) /\ y \in Claims(c(p), wire[p])
      BY <2>1, <2>3, <3>1 DEF Apart
    <3>2. CASE x.gen = h.gen /\ h.phase = "Stable"
      <4>1. /\ x.id \in h.members /\ x.parts \subseteq Assign(h.members)[x.id]
            /\ y.id \in h.members /\ y.parts \subseteq Assign(h.members)[y.id]
        BY <1>1, <2>3, <3>2 DEF MemberOK, ClaimsOK
      <4>2. x.id \in Ids(c(n), wire'[n]) /\ y.id \in Ids(c(p), wire'[p])
        BY <1>1, OldClaims
      <4>3. x.id # y.id
        BY <2>2, <4>1, <4>2 DEF GroupOK, NoId
      <4>4. Assign(h.members)[x.id] \cap Assign(h.members)[y.id] = {}
        BY <4>1, <4>3 DEF Assign
      <4>5. QED
        BY <4>1, <4>4
    <3>3. QED
      BY <1>1, <2>3, <3>1, <3>2 DEF Progress
  <2>4. QED
    BY <2>2, <2>3 DEF Apart
<1>3. QED
  BY <1>1, <1>2 DEF Sound

\* What is in flight and has not been answered stays as it is.
LEMMA Stays ==
    ASSUME NEW c, NEW w, NEW g, NEW h, MemberOK(c, w, g), Moves(g, h), NoneParked(w) \/ (h.gen = g.gen
               /\ h.phase = g.phase /\ h.members = g.members)
    PROVE  Progress(c, w, w, h)
BY MovesMember DEF Progress

\* An error is an answer to anything, but to a LeaveGroup only when the member is gone.
LEMMA Error ==
    ASSUME NEW q, IsRequest(q), NEW error \in Errors \ {"none", "parked", "ok"}, NEW h, GroupOK(h), q.id <= h.last,
           q.type = "leave" => Gone(q.id, h)
    PROVE  Answers([q EXCEPT !.reply = Reply(error)], q, h)
BY AReply DEF Answers, IsRequest, GroupOK

\* A rebalance takes what is parked with it.
LEMMA Rebalanced ==
    ASSUME NEW c, NEW w, NEW g, NEW h, Travels(c, w), MemberOK(c, w, g), Moves(g, h), NEW i, NEW removed \in BOOLEAN
    PROVE  /\ Progress(c, Rebalance(i, removed, w), w, h)
           /\ Ids(c, Rebalance(i, removed, w)) \subseteq Ids(c, w) \cup {NoId}
<1> DEFINE head == Head(w)
           error == IF removed /\ head.id = i THEN "unknown_member" ELSE "rebalance"
           e == [head EXCEPT !.reply = Reply(error)]
           taken == w # <<>> /\ head.reply = Parked /\ (head.type = "sync" \/ (removed /\ head.id = i))
<1>1. Rebalance(i, removed, w) = IF taken THEN <<e>> \o Tail(w) ELSE w
  BY DEF Rebalance
<1>2. ASSUME w # <<>>
      PROVE  1 \in DOMAIN w /\ head = w[1] /\ IsRequest(head) /\ head.id \in Ids(c, w) /\ head.id <= h.last /\ GroupOK(h)
  <2>1. 1 \in DOMAIN w /\ head = w[1] /\ IsRequest(head)
    BY <1>2, TailWire
  <2>2. head.id <= g.last /\ head.id \in Nat /\ head.id \in Ids(c, w)
    BY <2>1 DEF MemberOK, WireOK, Ids, IsRequest
  <2>3. QED
    BY <2>1, <2>2 DEF Moves, GroupOK
<1>3. CASE taken
  <2>1. head.type = "leave" => Gone(head.id, h)
    BY <1>2, <1>3, ParkedReply DEF MemberOK, LeaveOK, Moves, IsRequest, WireOK, GroupOK
  <2>2. error \in Errors \ {"none", "parked", "ok"}
    BY DEF Errors
  <2> HIDE DEF head, error
  <2>3. Answers(e, w[1], h)
    BY <1>2, <1>3, <2>1, <2>2, Error
  <2>4. e.id = head.id /\ e.reply.id = 0
    BY <1>2, <1>3, <2>2, AReply DEF IsRequest
  <2> HIDE DEF e
  <2>5. Progress(c, <<e>> \o Tail(w), w, h) /\ Ids(c, <<e>> \o Tail(w)) \subseteq Ids(c, w) \cup {e.id, e.reply.id}
    BY <1>3, <2>3, HeadMoves
  <2>6. QED
    BY <1>1, <1>2, <1>3, <2>4, <2>5 DEF NoId
<1>4. CASE ~taken
  <2>1. NoneParked(w)
    <3>1. CASE w = <<>>
      BY <3>1, EmptyIsSeq DEF NoneParked
    <3>2. CASE w # <<>>
      <4>1. w[1].type = "sync" => w[1].reply.error # "parked"
        BY <1>2, <1>4, <3>2 DEF IsRequest
      <4>2. \A k \in DOMAIN w : k = 1 \/ w[k].reply.error = "none"
        BY <3>2, TailWire, NoReplyOK DEF MemberOK, InTurn
      <4>3. QED
        BY <4>1, <4>2 DEF NoneParked
    <3>3. QED
      BY <3>1, <3>2
  <2> HIDE DEF taken
  <2>2. QED
    BY <1>1, <1>4, <2>1, Stays
<1>5. QED
  BY <1>3, <1>4

LEMMA HeadKnown ==
    ASSUME Sound, IInv, NEW m \in Consumer, wire[m] # <<>>
    PROVE  /\ 1 \in DOMAIN wire[m] /\ Head(wire[m]) = wire[m][1] /\ IsRequest(Head(wire[m]))
           /\ Head(wire[m]).id \in Ids(consumer[m], wire[m])
           /\ Head(wire[m]).id <= group.last /\ Head(wire[m]).gen <= group.gen
           /\ group.gen \in Nat /\ group.last \in Nat
           /\ GroupOK(group) /\ MemberOK(consumer[m], wire[m], group) /\ Travels(consumer[m], wire[m])
<1>1. GroupOK(group) /\ MemberOK(consumer[m], wire[m], group) /\ Travels(consumer[m], wire[m])
  BY Known
<1>2. 1 \in DOMAIN wire[m] /\ Head(wire[m]) = wire[m][1] /\ IsRequest(wire[m][1])
  BY <1>1, TailWire
<1>3. QED
  BY <1>1, <1>2 DEF MemberOK, WireOK, Ids, GroupOK

\* One consumer is answered, and the others do not notice.
LEMMA OneAnswer ==
    ASSUME Sound, IInv, NEW m \in Consumer, wire[m] # <<>>, NEW e, Answers(e, Head(wire[m]), group'),
           wire' = [wire EXCEPT ![m] = <<e>> \o Tail(wire[m])], UNCHANGED consumer, faults' \in 0 .. MaxFaults,
           Moves(group, group'), group'.gen = group.gen, group'.phase = group.phase, group'.members = group.members,
           {e.id, e.reply.id} \subseteq Ids(consumer[m], wire[m]) \cup {NoId, group.last + 1}
    PROVE  Sound'
<1>1. /\ DOMAIN wire = Consumer
      /\ wire'[m] = <<e>> \o Tail(wire[m]) /\ \A n \in Consumer \ {m} : wire'[n] = wire[n]
  BY Known
<1>2. /\ Progress(consumer[m], wire'[m], wire[m], group')
      /\ Ids(consumer[m], wire'[m]) \subseteq Ids(consumer[m], wire[m]) \cup {NoId, group.last + 1}
  <2>1. Travels(consumer[m], wire[m]) /\ MemberOK(consumer[m], wire[m], group) /\ Head(wire[m]) = wire[m][1]
    BY HeadKnown
  <2>2. /\ Progress(consumer[m], <<e>> \o Tail(wire[m]), wire[m], group')
        /\ Ids(consumer[m], <<e>> \o Tail(wire[m])) \subseteq Ids(consumer[m], wire[m]) \cup {e.id, e.reply.id}
    BY <2>1, HeadMoves
  <2>3. QED
    BY <1>1, <2>2
<1>3. ASSUME NEW n \in Consumer \ {m} PROVE Progress(consumer[n], wire'[n], wire[n], group') /\ wire'[n] = wire[n]
  BY <1>1, Known, Stays
<1>4. \A n \in Consumer :
         /\ Progress(consumer[n], wire'[n], wire[n], group')
         /\ n # m => Ids(consumer[n], wire'[n]) \subseteq Ids(consumer[n], wire[n]) \cup {NoId}
         /\ n = m => Ids(consumer[n], wire'[n]) \subseteq Ids(consumer[n], wire[n]) \cup {NoId, group.last + 1}
  BY <1>2, <1>3
<1>5. GroupOK(group')
  BY DEF Moves
<1>6. QED
  BY <1>4, <1>5, AllMembers

\* The same, with the group as it is: an error, or what need not be granted.
LEMMA ReplyInPlace ==
    ASSUME Sound, IInv, NEW m \in Consumer, wire[m] # <<>>, NEW reply, reply \in Replies, reply.id = NoId, reply.gen = NoGen,
           LET q == Head(wire[m]) IN
              /\ q.type # "leave" /\ (q.type = "join" => reply.error # "ok")
              /\ q.type = "sync" /\ reply.error = "ok" =>
                    q.gen = group.gen /\ group.phase = "Stable" /\ q.id \in group.members
                    /\ reply.parts = Assign(group.members)[q.id]
              /\ q.type = "sync" /\ reply.error = "parked" =>
                    q.gen = group.gen /\ group.phase = "Completing" /\ q.id \in group.members,
           reply.error = "parked" => reply = Parked,
           Answer(m, reply), UNCHANGED <<consumer, group>>, faults' \in 0 .. MaxFaults
    PROVE  Sound'
<1> DEFINE q == Head(wire[m])
           e == [q EXCEPT !.reply = reply]
<1>1. IsRequest(q) /\ q.id \in Ids(consumer[m], wire[m]) /\ q.id <= group.last /\ q.gen <= group.gen /\ GroupOK(group)
      /\ group.gen \in Nat /\ group.last \in Nat
  BY HeadKnown
<1>2. /\ q.type # "leave" /\ (q.type = "join" => reply.error # "ok")
      /\ q.type = "sync" /\ reply.error = "ok" =>
            q.gen = group.gen /\ group.phase = "Stable" /\ q.id \in group.members
            /\ reply.parts = Assign(group.members)[q.id]
      /\ q.type = "sync" /\ reply.error = "parked" =>
            q.gen = group.gen /\ group.phase = "Completing" /\ q.id \in group.members
  OBVIOUS
<1>3. wire' = [wire EXCEPT ![m] = <<e>> \o Tail(wire[m])]
  BY DEF Answer
<1> HIDE DEF q
<1>4. Answers(e, q, group) /\ e.id = q.id /\ e.reply = reply
  BY <1>1, <1>2 DEF Answers, IsRequest, NoId, NoGen
<1> HIDE DEF e
<1>5. Moves(group, group') /\ Answers(e, Head(wire[m]), group')
  BY <1>1, <1>4, MovesNowhere DEF q
<1>6. {e.id, e.reply.id} \subseteq Ids(consumer[m], wire[m]) \cup {NoId, group.last + 1}
  BY <1>1, <1>4
<1>7. QED
  BY <1>3, <1>5, <1>6, OneAnswer

LEMMA Fenced ==
    ASSUME NEW q
    PROVE  /\ Fence(q) \in {"unknown_member", "illegal_generation", "ok"}
           /\ Fence(q) = "ok" => q.id \in group.members /\ q.gen = group.gen
BY DEF Fence

\* The answer to a heartbeat or a commit, or an error.
LEMMA PlainReply ==
    ASSUME Sound, IInv, NEW m \in Consumer, wire[m] # <<>>, NEW error \in Errors \ {"parked", "none"},
           Head(wire[m]).type # "leave", Head(wire[m]).type \in {"join", "sync"} => error # "ok",
           Answer(m, Reply(error)), UNCHANGED <<consumer, group>>, faults' \in 0 .. MaxFaults
    PROVE  Sound'
<1> DEFINE r == Reply(error)
<1>1. r \in Replies /\ r.error = error /\ r.id = NoId /\ r.gen = NoGen
  BY AReply DEF NoId, NoGen
<1>2. Answer(m, r)
  OBVIOUS
<1> HIDE DEF r
<1>3. QED
  BY <1>1, <1>2, ReplyInPlace

LEMMA HeartbeatAnswered ==
    ASSUME Sound, IInv, NEW m \in Consumer, BrokerHeartbeat(m) \/ BrokerCommit(m)
    PROVE  Sound'
<1>1. \E phase : /\ wire[m] # <<>> /\ Head(wire[m]).type \in {"heartbeat", "commit", "sync_commit"}
                 /\ UNCHANGED <<consumer, group, faults>>
                 /\ Answer(m, Reply(IF Fence(Head(wire[m])) = "ok" /\ group.phase = phase THEN "rebalance"
                                    ELSE Fence(Head(wire[m]))))
  BY DEF BrokerHeartbeat, BrokerCommit, Unanswered
<1>2. PICK error \in {"rebalance", "ok", "unknown_member", "illegal_generation"} :
         /\ wire[m] # <<>> /\ Head(wire[m]).type \in {"heartbeat", "commit", "sync_commit"}
         /\ UNCHANGED <<consumer, group, faults>> /\ Answer(m, Reply(error))
  BY <1>1, Fenced
<1>3. faults' \in 0 .. MaxFaults
  BY <1>2, Known
<1>4. QED
  BY <1>2, <1>3, PlainReply DEF Errors

LEMMA BrokerRefused ==
    ASSUME Sound, IInv, NEW m \in Consumer, BrokerRefuses(m)
    PROVE  Sound'
<1>1. PICK error \in {"not_coordinator", "fatal"} : Answer(m, Reply(error))
  BY DEF BrokerRefuses, FatalJoin
<1>2. wire[m] # <<>> /\ Head(wire[m]).type # "leave" /\ UNCHANGED <<consumer, group>> /\ faults' \in 0 .. MaxFaults
  BY Known DEF BrokerRefuses
<1>3. QED
  BY <1>1, <1>2, PlainReply DEF Errors

LEMMA SyncAnswered ==
    ASSUME Sound, IInv, NEW m \in Consumer, BrokerSync(m), UNCHANGED group
    PROVE  Sound'
<1> DEFINE q == Head(wire[m])
           parts == group.assignment[q.id]
           r == [Reply("ok") EXCEPT !.parts = parts]
<1>1. wire[m] # <<>> /\ q.type = "sync" /\ UNCHANGED consumer /\ faults' \in 0 .. MaxFaults
  BY Known DEF BrokerSync, Unanswered
<1>2. CASE Fence(q) # "ok" /\ Answer(m, Reply(Fence(q)))
  <2> DEFINE error == Fence(q)
  <2>1. error \in {"unknown_member", "illegal_generation"}
    BY <1>2, Fenced
  <2>2. Answer(m, Reply(error))
    BY <1>2
  <2> HIDE DEF error
  <2>3. QED
    BY <1>1, <2>1, <2>2, PlainReply DEF Errors
<1>3. CASE Answer(m, Reply("rebalance"))
  BY <1>1, <1>3, PlainReply DEF Errors
<1>4. CASE Fence(q) = "ok" /\ group.phase = "Completing" /\ Answer(m, Parked)
  <2>1. q.gen = group.gen /\ q.id \in group.members
    BY <1>4, Fenced
  <2>2. QED
    BY <1>1, <1>4, <2>1, ParkedReply, ReplyInPlace DEF NoId, NoGen
<1>5. CASE Fence(q) = "ok" /\ group.phase = "Stable" /\ Answer(m, r)
  <2>1. q.gen = group.gen /\ q.id \in group.members
    BY <1>5, Fenced
  <2>2. group.assignment = Assign(group.members)
    BY <1>5, Known DEF GroupOK
  <2>3. parts \in SUBSET Partition /\ parts = Assign(group.members)[q.id]
    BY <2>1, <2>2 DEF Assign
  <2> HIDE DEF parts
  <2>4. r \in Replies /\ r.id = NoId /\ r.gen = NoGen /\ r.error = "ok" /\ r.parts = parts
    BY <2>3 DEF Reply, NoReply, Replies, Errors, NoId, NoGen
  <2>5. Answer(m, r)
    BY <1>5
  <2> HIDE DEF r
  <2>6. QED
    BY <1>1, <1>5, <2>1, <2>3, <2>4, <2>5, ReplyInPlace
<1>6. CASE group' = [group EXCEPT !.phase = "Stable", !.assignment = q.grant] /\ group.phase = "Completing"
  <2>1. group'.phase = "Stable"
    BY <1>6, Known DEF GroupOK
  <2>2. QED
    BY <1>6, <2>1
<1>7. QED
  BY <1>2, <1>3, <1>4, <1>5, <1>6 DEF BrokerSync

\* What a member that waits for its share gets from the leader.
LEMMA Shared ==
    ASSUME NEW c, NEW w, NEW g, NEW h, Travels(c, w), MemberOK(c, w, g), Moves(g, h), h.phase = "Stable", w # <<>>,
           Head(w).type = "sync", Head(w).gen = g.gen, Head(w).id \in g.members,
           NEW parts, parts = Assign(g.members)[Head(w).id], NEW e,
           e = [Head(w) EXCEPT !.reply = [Reply("ok") EXCEPT !.parts = parts]]
    PROVE  Progress(c, <<e>> \o Tail(w), w, h) /\ Ids(c, <<e>> \o Tail(w)) \subseteq Ids(c, w) \cup {NoId}
<1> DEFINE q == Head(w)
           r == [Reply("ok") EXCEPT !.parts = parts]
<1>1. /\ IsRequest(q) /\ q = w[1] /\ q.id <= g.last /\ q.id \in Ids(c, w) /\ q.id \in Nat
      /\ h.members = g.members /\ h.gen = g.gen /\ g.last <= h.last /\ h.last \in Nat /\ g.last \in Nat /\ h.gen \in Nat
  <2>1. 1 \in DOMAIN w /\ IsRequest(q) /\ q = w[1]
    BY TailWire
  <2>2. QED
    BY <2>1 DEF MemberOK, WireOK, Ids, IsRequest, Moves, GroupOK
<1>2. parts \in SUBSET Partition
  BY DEF Assign
<1>3. r \in Replies /\ r.error = "ok" /\ r.gen = 0 /\ r.id = 0 /\ r.parts = parts
  BY <1>2 DEF Reply, NoReply, Replies, Errors, NoId, NoGen
<1>4. e = [q EXCEPT !.reply = r]
  OBVIOUS
<1>5. q.type = "sync" /\ q.gen = g.gen /\ q.id \in g.members /\ parts = Assign(g.members)[q.id]
  OBVIOUS
<1> HIDE DEF q, r
<1>6. Answers(e, q, h) /\ e.id = q.id /\ e.reply.id = 0
  BY <1>1, <1>3, <1>4, <1>5 DEF Answers, IsRequest
<1>7. Answers(e, w[1], h)
  BY <1>1, <1>6
<1>8. /\ Progress(c, <<e>> \o Tail(w), w, h)
      /\ Ids(c, <<e>> \o Tail(w)) \subseteq Ids(c, w) \cup {e.id, e.reply.id}
  BY <1>7, HeadMoves
<1>9. QED
  BY <1>1, <1>6, <1>8 DEF NoId

\* Nothing is parked unless it is the oldest.
LEMMA OnlyHeadParked ==
    ASSUME NEW c, NEW w, NEW g, Travels(c, w), MemberOK(c, w, g),
           w # <<>> => ~(Head(w).type = "sync" /\ Head(w).reply = Parked)
    PROVE  NoneParked(w)
<1>1. CASE w = <<>>
  BY <1>1, EmptyIsSeq DEF NoneParked
<1>2. CASE w # <<>>
  <2>1. w[1].type = "sync" => w[1].reply.error # "parked"
    BY <1>2, TailWire DEF IsRequest
  <2>2. \A k \in DOMAIN w : k = 1 \/ w[k].reply.error = "none"
    BY <1>2, TailWire, NoReplyOK DEF MemberOK, InTurn
  <2>3. QED
    BY <2>1, <2>2 DEF NoneParked
<1>3. QED
  BY <1>1, <1>2

\* The leader has assigned the partitions.
LEMMA SyncFinished ==
    ASSUME Sound, IInv, NEW m \in Consumer, BrokerSync(m), group.phase = "Completing", Fence(Head(wire[m])) = "ok",
           Head(wire[m]).id = group.leader
    PROVE  Sound'
<1> DEFINE q == Head(wire[m])
           Share(i) == [Reply("ok") EXCEPT !.parts = q.grant[i]]
           Finish(w) == IF w # <<>> /\ Head(w).type = "sync" /\ Head(w).reply = Parked
                           /\ Head(w).id \in group.members
                        THEN <<[Head(w) EXCEPT !.reply = Share(Head(w).id)]>> \o Tail(w)
                        ELSE w
           h == group'
<1>1. /\ wire[m] # <<>> /\ q.type = "sync" /\ UNCHANGED consumer /\ faults' \in 0 .. MaxFaults
      /\ q.gen = group.gen /\ q.id \in group.members
  BY Fenced, Known DEF BrokerSync, Unanswered
<1>2. /\ h = [group EXCEPT !.phase = "Stable", !.assignment = q.grant]
      /\ wire' = [n \in Consumer |-> IF n = m THEN <<[q EXCEPT !.reply = Share(q.id)]>> \o Tail(wire[m])
                                     ELSE Finish(wire[n])]
  BY DEF BrokerSync
<1>3. q.grant = Assign(group.members)
  BY <1>1, HeadKnown DEF MemberOK, SyncOK
<1>4. Moves(group, h) /\ h.phase = "Stable"
  <2>1. GroupOK(group)
    BY Known
  <2>2. /\ h.phase = "Stable" /\ h.gen = group.gen /\ h.members = group.members /\ h.pending = group.pending
        /\ h.last = group.last /\ h.assignment = q.grant /\ DOMAIN h = DOMAIN group
    BY <1>2, <2>1 DEF GroupOK
  <2> HIDE DEF h, q
  <2>3. GroupOK(h)
    BY <1>3, <2>1, <2>2 DEF GroupOK
  <2>4. QED
    BY <2>1, <2>2, <2>3 DEF Moves, GroupOK, Gone
<1>5. ASSUME NEW n \in Consumer, NEW w, w = wire[n], w # <<>>, Head(w).type = "sync", Head(w).gen = group.gen,
             Head(w).id \in group.members
      PROVE  LET v == <<[Head(w) EXCEPT !.reply = Share(Head(w).id)]>> \o Tail(w)
             IN  Progress(consumer[n], v, wire[n], h) /\ Ids(consumer[n], v) \subseteq Ids(consumer[n], wire[n]) \cup {NoId}
  <2> DEFINE parts == q.grant[Head(w).id]
             e == [Head(w) EXCEPT !.reply = [Reply("ok") EXCEPT !.parts = parts]]
  <2>1. parts = Assign(group.members)[Head(w).id]
    BY <1>3
  <2>2. Travels(consumer[n], w) /\ MemberOK(consumer[n], w, group)
    BY <1>5, Known
  <2>3. e = [Head(w) EXCEPT !.reply = [Reply("ok") EXCEPT !.parts = parts]]
    OBVIOUS
  <2> HIDE DEF parts, e, h
  <2>4. /\ Progress(consumer[n], <<e>> \o Tail(w), w, h)
        /\ Ids(consumer[n], <<e>> \o Tail(w)) \subseteq Ids(consumer[n], w) \cup {NoId}
    BY <1>4, <1>5, <2>1, <2>2, <2>3, Shared
  <2>5. QED
    BY <1>5, <2>4 DEF e, parts
<1>6. ASSUME NEW n \in Consumer
      PROVE  /\ Progress(consumer[n], wire'[n], wire[n], h)
             /\ Ids(consumer[n], wire'[n]) \subseteq Ids(consumer[n], wire[n]) \cup {NoId}
  <2> DEFINE w == wire[n]
  <2>1. CASE n = m
    BY <1>1, <1>2, <1>5, <2>1
  <2>2. CASE n # m /\ w # <<>> /\ Head(w).type = "sync" /\ Head(w).reply = Parked
    <3>1. Head(w).gen = group.gen /\ Head(w).id \in group.members
      BY <2>2, HeadKnown, ParkedReply DEF MemberOK, SyncOK
    <3>2. wire'[n] = <<[Head(w) EXCEPT !.reply = Share(Head(w).id)]>> \o Tail(w)
      BY <1>2, <2>2, <3>1
    <3>3. QED
      BY <1>5, <2>2, <3>1, <3>2
  <2>3. CASE n # m /\ (w # <<>> => ~(Head(w).type = "sync" /\ Head(w).reply = Parked))
    <3>1. wire'[n] = w
      BY <1>2, <2>3
    <3>2. NoneParked(w)
      BY <2>3, Known, OnlyHeadParked
    <3>3. QED
      BY <1>4, <3>1, <3>2, Known, Stays
  <2>4. QED
    BY <2>1, <2>2, <2>3
<1>7. GroupOK(h)
  BY <1>4 DEF Moves
<1>8. QED
  BY <1>1, <1>6, <1>7, AllMembers

\* What a member that has joined gets when the round is complete.
LEMMA Joined ==
    ASSUME NEW c, NEW w, NEW g, NEW h, Travels(c, w), MemberOK(c, w, g), Moves(g, h), h.gen >= 1, w # <<>>,
           Head(w).type = "join", Head(w).id \in h.members,
           NEW r \in Replies, r.error = "ok", r.gen = h.gen, r.id = Head(w).id, r.leader <=> Head(w).id = h.leader,
           r.leader => r.ids = h.members, NEW e, e = [Head(w) EXCEPT !.reply = r]
    PROVE  Progress(c, <<e>> \o Tail(w), w, h) /\ Ids(c, <<e>> \o Tail(w)) \subseteq Ids(c, w) \cup {NoId}
<1> DEFINE q == Head(w)
<1>1. /\ IsRequest(q) /\ q = w[1] /\ q.id <= g.last /\ q.id \in Ids(c, w) /\ q.id \in Nat
      /\ g.last <= h.last /\ h.last \in Nat /\ g.last \in Nat /\ h.gen \in Nat /\ h.members \subseteq 1 .. h.last
  <2>1. 1 \in DOMAIN w /\ IsRequest(q) /\ q = w[1]
    BY TailWire
  <2>2. q.id <= g.last /\ q.id \in Ids(c, w) /\ q.id \in Nat
    BY <2>1 DEF MemberOK, WireOK, Ids, IsRequest
  <2>3. QED
    BY <2>1, <2>2 DEF Moves, GroupOK
<1>2. e = [q EXCEPT !.reply = r]
  OBVIOUS
<1>3. q.type = "join" /\ q.id \in h.members /\ r.id = q.id /\ (r.leader <=> q.id = h.leader)
  OBVIOUS
<1> HIDE DEF q
<1>4. /\ IsRequest(e) /\ e.type = "join" /\ e.gen = q.gen /\ e.grant = q.grant /\ e.id = q.id /\ e.reply = r
  BY <1>1, <1>2, <1>3 DEF IsRequest
<1>5. Answers(e, q, h)
  BY <1>1, <1>3, <1>4 DEF Answers
<1>6. /\ Progress(c, <<e>> \o Tail(w), w, h)
      /\ Ids(c, <<e>> \o Tail(w)) \subseteq Ids(c, w) \cup {e.id, e.reply.id}
  BY <1>1, <1>5, HeadMoves
<1>7. QED
  BY <1>1, <1>3, <1>4, <1>6

LEMMA JoinCompleted ==
    ASSUME Sound, IInv, BrokerCompleteJoin
    PROVE  Sound'
<1> DEFINE leader == CHOOSE i \in group.members : \A j \in group.members : i <= j
           gen == group.gen + 1
           Done(w) == IF w # <<>> /\ Head(w).type = "join" /\ Head(w).reply = Parked
                         /\ Head(w).id \in group.members
                      THEN <<[Head(w) EXCEPT !.reply =
                               [Reply("ok") EXCEPT !.gen = gen, !.id = Head(w).id,
                                   !.leader = Head(w).id = leader,
                                   !.ids = IF Head(w).id = leader THEN group.members ELSE {}]]>> \o Tail(w)
                      ELSE w
           h == group'
<1>1. /\ group.phase = "Preparing"
      /\ h = [group EXCEPT !.phase = "Completing", !.gen = gen, !.joined = {}, !.leader = leader, !.assignment = <<>>]
      /\ wire' = [m \in Consumer |-> Done(wire[m])]
      /\ UNCHANGED <<consumer, faults>>
  BY DEF BrokerCompleteJoin
<1>2. GroupOK(group) /\ faults' \in 0 .. MaxFaults
  BY <1>1, Known DEF Sound
<1> HIDE DEF leader
<1>3. /\ h.phase = "Completing" /\ h.gen = group.gen + 1 /\ h.members = group.members /\ h.pending = group.pending
      /\ h.last = group.last /\ h.leader = leader /\ DOMAIN h = DOMAIN group
  BY <1>1, <1>2 DEF GroupOK
<1>4. Moves(group, h) /\ h.gen >= 1
  <2> HIDE DEF h
  <2>1. GroupOK(h)
    BY <1>2, <1>3 DEF GroupOK
  <2>2. QED
    BY <1>2, <1>3, <2>1 DEF Moves, GroupOK, Gone
<1>5. ASSUME NEW n \in Consumer
      PROVE  /\ Progress(consumer[n], wire'[n], wire[n], h)
             /\ Ids(consumer[n], wire'[n]) \subseteq Ids(consumer[n], wire[n]) \cup {NoId}
  <2> DEFINE w == wire[n]
             taken == w # <<>> /\ Head(w).type = "join" /\ Head(w).reply = Parked /\ Head(w).id \in group.members
             leads == Head(w).id = leader
             ids == IF leads THEN group.members ELSE {}
             r == [Reply("ok") EXCEPT !.gen = gen, !.id = Head(w).id, !.leader = leads, !.ids = ids]
             e == [Head(w) EXCEPT !.reply = r]
  <2>1. Travels(consumer[n], w) /\ MemberOK(consumer[n], w, group)
    BY Known
  <2>2. CASE taken
    <3>1. wire'[n] = <<e>> \o Tail(w)
      BY <1>1, <2>2
    <3>2. w # <<>> /\ Head(w).type = "join" /\ Head(w).id \in h.members /\ gen = h.gen
      BY <1>3, <2>2
    <3>3. leads \in BOOLEAN /\ (leads <=> Head(w).id = h.leader) /\ ids \in SUBSET Nat /\ (leads => ids = h.members)
      BY <1>2, <1>3 DEF GroupOK
    <3>4. Head(w).id \in Nat
      BY <2>1, <2>2, TailWire DEF IsRequest
    <3>5. gen \in Nat
      BY <1>2 DEF GroupOK
    <3> HIDE DEF leads, ids, gen
    <3>6. r \in Replies /\ r.error = "ok" /\ r.gen = gen /\ r.id = Head(w).id /\ r.leader = leads /\ r.ids = ids
      BY <3>3, <3>4, <3>5, AReply DEF Replies, Errors
    <3> HIDE DEF r
    <3>7. e = [Head(w) EXCEPT !.reply = r]
      OBVIOUS
    <3> HIDE DEF e, h
    <3>8. /\ Progress(consumer[n], <<e>> \o Tail(w), w, h)
          /\ Ids(consumer[n], <<e>> \o Tail(w)) \subseteq Ids(consumer[n], w) \cup {NoId}
      BY <1>4, <2>1, <3>2, <3>3, <3>6, <3>7, Joined
    <3>9. QED
      BY <3>1, <3>8
  <2>3. CASE ~taken
    <3>1. wire'[n] = w
      BY <1>1, <2>3
    <3>2. NoneParked(w)
      BY <1>1, <2>1 DEF NoneParked, MemberOK, SyncOK
    <3>3. QED
      BY <1>4, <2>1, <3>1, <3>2, Stays
  <2>4. QED
    BY <2>2, <2>3
<1>6. GroupOK(h)
  BY <1>4 DEF Moves
<1>7. QED
  BY <1>1, <1>2, <1>5, <1>6, AllMembers

\* A member is let in, with the id it has or a new one, and everybody has to join again.
LEMMA BrokerLetsIn ==
    ASSUME Sound, IInv, NEW m \in Consumer, wire[m] # <<>>, Head(wire[m]).type = "join", UNCHANGED <<consumer, faults>>,
           NEW i, NEW last, i \in 1 .. last, last \in {group.last, group.last + 1},
           (i = Head(wire[m]).id /\ ~Gone(i, group)) \/ (Head(wire[m]).id = NoId /\ i = group.last + 1),
           group' = [group EXCEPT !.phase = "Preparing", !.members = @ \cup {i}, !.last = last,
                                  !.joined = @ \cup {i}, !.pending = @ \ {i}],
           wire' = [n \in Consumer |-> IF n = m THEN <<[Head(wire[m]) EXCEPT !.reply = Parked, !.id = i]>> \o Tail(wire[m])
                                       ELSE Rebalance(i, FALSE, wire[n])]
    PROVE  Sound'
<1> DEFINE h == group'
           q == Head(wire[m])
           e == [q EXCEPT !.reply = Parked, !.id = i]
<1>1. GroupOK(group) /\ faults' \in 0 .. MaxFaults
  BY Known
<1>2. /\ h.phase = "Preparing" /\ h.gen = group.gen /\ h.members = group.members \cup {i}
      /\ h.pending = group.pending \ {i} /\ h.last = last /\ DOMAIN h = DOMAIN group
  BY <1>1 DEF GroupOK
<1> HIDE DEF h
<1>3. Moves(group, h)
  <2>1. GroupOK(h)
    BY <1>1, <1>2 DEF GroupOK
  <2>2. \A j \in 0 .. group.last : Gone(j, group) => Gone(j, h)
    BY <1>1, <1>2 DEF Gone, GroupOK
  <2>3. QED
    BY <1>1, <1>2, <2>1, <2>2 DEF Moves, GroupOK
<1>4. Progress(consumer[m], wire'[m], wire[m], h)
      /\ Ids(consumer[m], wire'[m]) \subseteq Ids(consumer[m], wire[m]) \cup {NoId, group.last + 1}
  <2>1. /\ IsRequest(q) /\ q = wire[m][1] /\ q.type = "join" /\ q.id \in Ids(consumer[m], wire[m]) /\ q.id <= group.last
        /\ MemberOK(consumer[m], wire[m], group) /\ Travels(consumer[m], wire[m])
    BY HeadKnown
  <2>2. i = q.id \/ (q.id = NoId /\ i = group.last + 1)
    OBVIOUS
  <2> HIDE DEF q
  <2>3. IsRequest(e) /\ e.id = i /\ e.reply = Parked /\ e.type = q.type /\ e.gen = q.gen /\ e.grant = q.grant
    BY <1>1, <2>1, ParkedReply DEF IsRequest, GroupOK
  <2> HIDE DEF e
  <2>4. Answers(e, q, h)
    BY <1>1, <1>2, <2>1, <2>2, <2>3, ParkedReply DEF Answers, GroupOK
  <2>5. /\ Progress(consumer[m], <<e>> \o Tail(wire[m]), wire[m], h)
        /\ Ids(consumer[m], <<e>> \o Tail(wire[m])) \subseteq Ids(consumer[m], wire[m]) \cup {e.id, e.reply.id}
    BY <1>3, <2>1, <2>4, HeadMoves
  <2>6. wire'[m] = <<e>> \o Tail(wire[m])
    BY DEF e, q
  <2>7. QED
    BY <2>1, <2>2, <2>3, <2>5, <2>6, ParkedReply DEF NoId
<1>5. ASSUME NEW n \in Consumer \ {m}
      PROVE  /\ Progress(consumer[n], wire'[n], wire[n], h)
             /\ Ids(consumer[n], wire'[n]) \subseteq Ids(consumer[n], wire[n]) \cup {NoId}
  <2>1. wire'[n] = Rebalance(i, FALSE, wire[n])
    OBVIOUS
  <2>2. QED
    BY <1>3, <2>1, Known, Rebalanced
<1>6. GroupOK(group')
  BY <1>3 DEF Moves, h
<1>7. \A n \in Consumer :
         /\ Progress(consumer[n], wire'[n], wire[n], group')
         /\ n # m => Ids(consumer[n], wire'[n]) \subseteq Ids(consumer[n], wire[n]) \cup {NoId}
         /\ n = m => Ids(consumer[n], wire'[n]) \subseteq Ids(consumer[n], wire[n]) \cup {NoId, group.last + 1}
  BY <1>4, <1>5 DEF h
<1>8. QED
  BY <1>1, <1>6, <1>7, AllMembers

LEMMA BrokerJoined ==
    ASSUME Sound, IInv, NEW m \in Consumer, BrokerJoin(m)
    PROVE  Sound'
<1> DEFINE q == Head(wire[m])
           fresh == group.last + 1
           known == group.members \cup group.pending
           Enter(i, last) ==
             /\ group' = [group EXCEPT !.phase = "Preparing", !.members = @ \cup {i}, !.last = last,
                                       !.joined = @ \cup {i}, !.pending = @ \ {i}]
             /\ wire' = [n \in Consumer |-> IF n = m THEN <<[q EXCEPT !.reply = Parked, !.id = i]>> \o Tail(wire[m])
                                             ELSE Rebalance(i, FALSE, wire[n])]
           r == [Reply("member_id_required") EXCEPT !.id = fresh]
           e == [q EXCEPT !.reply = r]
           h == group'
<1>1. wire[m] # <<>> /\ q.type = "join" /\ UNCHANGED <<consumer, faults>> /\ faults' \in 0 .. MaxFaults
      /\ GroupOK(group) /\ group.last \in Nat /\ fresh \in Nat /\ known \subseteq 1 .. group.last
  BY Known DEF BrokerJoin, Unanswered, GroupOK
<1>2. CASE q.id = NoId /\ Enter(fresh, fresh)
  <2> DEFINE i == fresh
             last == fresh
  <2>1. i \in 1 .. last /\ last \in {group.last, group.last + 1} /\ q.id = NoId /\ i = group.last + 1
    BY <1>1, <1>2
  <2>2. Enter(i, last)
    BY <1>2
  <2> HIDE DEF i, last
  <2>3. QED
    BY <1>1, <2>1, <2>2, BrokerLetsIn
<1>3. CASE q.id \in known /\ Enter(q.id, group.last)
  <2> DEFINE i == q.id
             last == group.last
  <2>1. i \in 1 .. last /\ last \in {group.last, group.last + 1} /\ i = q.id /\ ~Gone(i, group)
    BY <1>1, <1>3 DEF Gone
  <2>2. Enter(i, last)
    BY <1>3
  <2> HIDE DEF i, last
  <2>3. QED
    BY <1>1, <2>1, <2>2, BrokerLetsIn
<1>4. CASE Answer(m, Reply("unknown_member")) /\ UNCHANGED group
  BY <1>1, <1>4, PlainReply DEF Errors
<1>5. CASE /\ q.id = NoId
           /\ h = [group EXCEPT !.last = fresh, !.pending = @ \cup {fresh}]
           /\ Answer(m, r)
  <2>1. /\ h.phase = group.phase /\ h.gen = group.gen /\ h.members = group.members /\ h.leader = group.leader
        /\ h.pending = group.pending \cup {fresh} /\ h.last = fresh /\ h.assignment = group.assignment
        /\ DOMAIN h = DOMAIN group
    BY <1>1, <1>5 DEF GroupOK
  <2>2. IsRequest(q) /\ q.id \in Ids(consumer[m], wire[m])
    BY <1>1, HeadKnown
  <2>3. wire' = [wire EXCEPT ![m] = <<e>> \o Tail(wire[m])]
    BY <1>5 DEF Answer
  <2> HIDE DEF h, q
  <2>4. GroupOK(h)
    BY <1>1, <2>1 DEF GroupOK
  <2>5. \A i \in 0 .. group.last : Gone(i, group) => Gone(i, h)
    BY <1>1, <2>1 DEF Gone
  <2>6. Moves(group, h)
    BY <1>1, <2>1, <2>4, <2>5 DEF Moves, GroupOK
  <2>7. r \in Replies /\ r.error = "member_id_required" /\ r.id = fresh /\ r.gen = 0
    BY <1>1, AReply DEF Replies, Errors
  <2> HIDE DEF r
  <2>8. IsRequest(e) /\ e.id = q.id /\ e.reply = r /\ e.type = q.type /\ e.gen = q.gen /\ e.grant = q.grant
    BY <2>2, <2>7 DEF IsRequest
  <2> HIDE DEF e
  <2>9. Answers(e, q, h)
    BY <1>1, <1>5, <2>1, <2>7, <2>8, <2>4 DEF Answers, GroupOK, NoId
  <2>10. {e.id, e.reply.id} \subseteq Ids(consumer[m], wire[m]) \cup {NoId, group.last + 1}
    BY <2>2, <2>7, <2>8
  <2>11. QED
    BY <1>1, <2>1, <2>3, <2>6, <2>9, <2>10, OneAnswer DEF h, q
<1>6. QED
  BY <1>2, <1>3, <1>4, <1>5 DEF BrokerJoin

\* A member is gone, and the others have to join again.
LEMMA Removed ==
    ASSUME NEW i, GroupOK(group), group' = Remove(i)
    PROVE  /\ Moves(group, group') /\ Gone(i, group')
           /\ i \notin group.members => group'.gen = group.gen /\ group'.phase = group.phase
                                        /\ group'.members = group.members
<1> DEFINE h == group'
<1>1. /\ h.gen = group.gen /\ h.members = group.members \ {i} /\ h.pending = group.pending \ {i}
      /\ h.last = group.last /\ h.leader = group.leader /\ h.assignment = group.assignment /\ DOMAIN h = DOMAIN group
      /\ h.phase = IF i \notin group.members THEN group.phase ELSE IF group.members = {i} THEN "Empty" ELSE "Preparing"
  BY DEF Remove, GroupOK
<1> HIDE DEF h
<1>2. i \notin group.members => h.members = group.members /\ h.phase = group.phase
  BY <1>1
<1>3. i \in group.members => h.phase \in {"Empty", "Preparing"}
  BY <1>1
<1>4. GroupOK(h)
  BY <1>1, <1>2, <1>3 DEF GroupOK
<1>5. \A j : Gone(j, group) => Gone(j, h)
  BY <1>1 DEF Gone
<1>6. Moves(group, h)
  BY <1>1, <1>2, <1>3, <1>4, <1>5 DEF Moves, GroupOK
<1>7. Gone(i, h)
  BY <1>1 DEF Gone
<1>8. QED
  BY <1>1, <1>2, <1>6, <1>7 DEF h

LEMMA Unparked ==
    ASSUME Sound, IInv, NEW i, group' = Remove(i), NEW n \in Consumer
    PROVE  /\ Progress(consumer[n], Unpark(i, wire[n]), wire[n], group')
           /\ Ids(consumer[n], Unpark(i, wire[n])) \subseteq Ids(consumer[n], wire[n]) \cup {NoId}
<1>1. GroupOK(group) /\ MemberOK(consumer[n], wire[n], group) /\ Travels(consumer[n], wire[n])
  BY Known
<1>2. /\ Moves(group, group')
      /\ i \notin group.members => group'.gen = group.gen /\ group'.phase = group.phase
                                   /\ group'.members = group.members
  BY <1>1, Removed
<1>3. CASE i \in group.members
  BY <1>1, <1>2, <1>3, Rebalanced DEF Unpark
<1>4. CASE i \notin group.members
  BY <1>1, <1>2, <1>4, Stays DEF Unpark
<1>5. QED
  BY <1>3, <1>4

LEMMA BrokerLeft ==
    ASSUME Sound, IInv, NEW m \in Consumer, BrokerLeave(m)
    PROVE  Sound'
<1> DEFINE q == Head(wire[m])
           i == q.id
           e == [q EXCEPT !.reply = Reply("ok")]
<1>1. /\ wire[m] # <<>> /\ q.type = "leave" /\ UNCHANGED consumer /\ faults' \in 0 .. MaxFaults
      /\ group' = Remove(i)
      /\ wire' = [n \in Consumer |-> IF n = m THEN <<e>> \o Tail(wire[m]) ELSE Unpark(i, wire[n])]
  BY Known DEF BrokerLeave, Unanswered
<1>2. /\ GroupOK(group) /\ IsRequest(q) /\ q = wire[m][1] /\ q.id \in Ids(consumer[m], wire[m])
      /\ q.id <= group.last /\ q.id \in Nat /\ i = q.id
      /\ MemberOK(consumer[m], wire[m], group) /\ Travels(consumer[m], wire[m])
  BY <1>1, HeadKnown DEF IsRequest
<1> HIDE DEF i
<1>3. Moves(group, group') /\ Gone(i, group') /\ GroupOK(group') /\ group.last <= group'.last /\ group.gen <= group'.gen
  BY <1>1, <1>2, Removed DEF Moves
<1> HIDE DEF q
<1>4. IsRequest(e) /\ e.id = q.id /\ e.reply.id = 0 /\ e.reply.gen = 0 /\ e.type = "leave" /\ e.gen = q.gen /\ e.grant = q.grant
  BY <1>1, <1>2, AReply DEF IsRequest, Errors
<1> HIDE DEF e
<1>5. Answers(e, q, group')
  BY SMTT(30), <1>1, <1>2, <1>3, <1>4 DEF Answers, GroupOK
<1>6. /\ Progress(consumer[m], <<e>> \o Tail(wire[m]), wire[m], group')
      /\ Ids(consumer[m], <<e>> \o Tail(wire[m])) \subseteq Ids(consumer[m], wire[m]) \cup {e.id, e.reply.id}
  BY <1>1, <1>2, <1>3, <1>5, HeadMoves
<1>7. \A n \in Consumer : /\ Progress(consumer[n], wire'[n], wire[n], group')
                          /\ Ids(consumer[n], wire'[n]) \subseteq Ids(consumer[n], wire[n]) \cup {NoId}
  <2>1. ASSUME NEW n \in Consumer \ {m}
        PROVE  /\ Progress(consumer[n], wire'[n], wire[n], group')
               /\ Ids(consumer[n], wire'[n]) \subseteq Ids(consumer[n], wire[n]) \cup {NoId}
    BY <1>1, Unparked
  <2>2. wire'[m] = <<e>> \o Tail(wire[m])
    BY <1>1
  <2>3. QED
    BY <1>2, <1>4, <1>6, <2>1, <2>2 DEF NoId
<1>8. QED
  BY <1>1, <1>3, <1>7, AllMembers

LEMMA BrokerExpired ==
    ASSUME Sound, IInv, NEW i, BrokerExpire(i) \/ BrokerExpireOrphan(i)
    PROVE  Sound'
<1>1. /\ group' = Remove(i) /\ wire' = [n \in Consumer |-> Unpark(i, wire[n])] /\ UNCHANGED consumer
      /\ faults' \in {faults, faults + 1} /\ (faults' = faults + 1 => faults < MaxFaults \/ faults' = faults)
  BY DEF BrokerExpire, BrokerExpireOrphan
<1>2. faults' \in 0 .. MaxFaults
  BY <1>1, FaultsAssumption DEF Sound
<1>3. GroupOK(group')
  BY <1>1, Removed DEF Moves, Sound
<1>4. \A n \in Consumer : /\ Progress(consumer[n], wire'[n], wire[n], group')
                          /\ Ids(consumer[n], wire'[n]) \subseteq Ids(consumer[n], wire[n]) \cup {NoId}
  BY <1>1, Unparked
<1>5. QED
  BY <1>1, <1>2, <1>3, <1>4, AllMembers

-----------------------------------------------------------------------------
LEMMA InitSound == Init => Sound
<1> SUFFICES ASSUME Init PROVE Sound
  OBVIOUS
<1>1. faults \in 0 .. MaxFaults
  BY FaultsAssumption DEF Init
<1>2. GroupOK(group)
  BY DEF Init, EmptyGroup, GroupOK, NoGen, NoId
<1>3. ASSUME NEW m \in Consumer
      PROVE  consumer[m] = NewConsumer /\ wire[m] = <<>> /\ DOMAIN wire[m] = {}
  BY EmptyIsSeq DEF Init
<1>4. /\ IsConsumer(NewConsumer) /\ NewConsumer.state = "UNJOINED" /\ NewConsumer.gen = 0 /\ NewConsumer.id = 0
      /\ NewConsumer.pc = "idle"
  BY DEF NewConsumer, IsConsumer, States, Counters, JoinResults, NoGen, NoId
<1>5. ASSUME NEW m \in Consumer PROVE MemberOK(consumer[m], wire[m], group) /\ Ids(consumer[m], wire[m]) = {NoId}
                                      /\ Claims(consumer[m], wire[m]) = {}
  <2>1. ConsumerOK(NewConsumer, group)
    BY <1>2, <1>4 DEF ConsumerOK, GroupOK
  <2>2. NoRound(wire[m]) /\ WireOK(wire[m], group) /\ InTurn(wire[m]) /\ LeaveOK(wire[m], group)
    BY <1>3 DEF NoRound, WireOK, InTurn, LeaveOK
  <2>3. OwnOK(NewConsumer, group)
    BY <1>4 DEF OwnOK
  <2>4. MemberOK(NewConsumer, wire[m], group)
    BY <2>1, <2>2, <2>3, NoRoundMember
  <2>5. Ids(NewConsumer, wire[m]) = {NoId} /\ Claims(NewConsumer, wire[m]) = {}
    BY <1>3, <1>4 DEF Ids, Claims, NoId
  <2>6. QED
    BY <1>3, <2>4, <2>5
<1>6. QED
  BY <1>1, <1>2, <1>5 DEF Sound, Apart

LEMMA NextSound == Sound /\ IInv /\ [Next]_vars => Sound'
<1> SUFFICES ASSUME Sound, IInv, [Next]_vars PROVE Sound'
  OBVIOUS
<1>1. ASSUME NEW m \in Consumer,
             lookup_coordinator(m) \/ Main(m) \/ Application(m) \/ HeartbeatThread(m)
      PROVE  Sound'
  BY <1>1, QuietActions, StableSends, JoinSends, Completes, Leaves, SessionExpires DEF Main, Application, HeartbeatThread
<1>2. ASSUME NEW m \in Consumer, Responses(m) \/ failed_request(m) PROVE Sound'
  BY <1>2, JoinReceived, SyncReceived, HeartbeatReceived, CommitReceived, LeaveReceived, ConnectionLost DEF Responses
<1>3. ASSUME NEW m \in Consumer, BrokerSync(m) PROVE Sound'
  <2>1. UNCHANGED group \/ (group.phase = "Completing" /\ Fence(Head(wire[m])) = "ok" /\ Head(wire[m]).id = group.leader)
    BY <1>3 DEF BrokerSync
  <2>2. QED
    BY <1>3, <2>1, SyncAnswered, SyncFinished
<1>4. ASSUME NEW m \in Consumer, Broker(m) \/ BrokerRefuses(m) PROVE Sound'
  BY <1>3, <1>4, BrokerJoined, HeartbeatAnswered, BrokerLeft, BrokerRefused DEF Broker
<1>5. CASE BrokerCompleteJoin
  BY <1>5, JoinCompleted
<1>6. CASE \E i \in group.members \cup group.pending : BrokerExpire(i) \/ BrokerExpireOrphan(i)
  BY <1>6, BrokerExpired
<1>7. CASE UNCHANGED vars
  BY <1>7 DEF Sound, vars
<1>8. QED
  BY <1>1, <1>2, <1>4, <1>5, <1>6, <1>7 DEF Next, Expiry

LEMMA SoundMembership == Sound => MembershipSound
<1> SUFFICES ASSUME Sound PROVE MembershipSound
  OBVIOUS
<1>1. TypeOK
  <2>1. ASSUME NEW m \in Consumer
        PROVE  /\ consumer[m].state \in {"UNJOINED", "REBALANCING", "STABLE"}
               /\ consumer[m].pc \in {"idle", "prepare", "commit", "prepared", "drain", "await", "closed"}
               /\ consumer[m].pc \in {"drain", "await"} => consumer[m].rejoining
               /\ consumer[m].gen \in 0 .. group.gen /\ consumer[m].id \in 0 .. group.last
               /\ consumer[m].join \in JoinResults
               /\ consumer[m].assigned \subseteq Partition
               /\ \A k \in DOMAIN wire[m] : wire[m][k].type \in RequestTypes
    <3>1. ConsumerOK(consumer[m], group) /\ WireOK(wire[m], group) /\ GroupOK(group)
      BY DEF Sound, MemberOK
    <3>2. QED
      BY <3>1 DEF ConsumerOK, WireOK, GroupOK, IsConsumer, IsRequest, States, Counters
  <2>2. QED
    BY <2>1 DEF TypeOK, Sound, GroupOK
<1>2. AssignmentInstalled
  BY OwnClaim DEF AssignmentInstalled, Settled, Sound, MemberOK, GroupOK, OwnOK
<1>3. Exclusive
  <2>1. SUFFICES ASSUME NEW m \in Consumer, NEW n \in Consumer, m # n, consumer[m].gen = consumer[n].gen,
                        \A k \in {m, n} : consumer[k].state = "STABLE" /\ consumer[k].join = "none"
                 PROVE  consumer[m].assigned \cap consumer[n].assigned = {}
    BY DEF Exclusive
  <2>2. ASSUME NEW k \in {m, n}
        PROVE  \E x \in Claims(consumer[k], wire[k]) : x.gen = consumer[k].gen /\ x.parts = consumer[k].assigned
    <3> DEFINE x == [gen |-> consumer[k].gen, id |-> consumer[k].id, parts |-> consumer[k].assigned]
    <3>1. x \in Claims(consumer[k], wire[k])
      BY <2>1 DEF Claims
    <3>2. QED
      BY <3>1
  <2>3. PICK x \in Claims(consumer[m], wire[m]) : x.gen = consumer[m].gen /\ x.parts = consumer[m].assigned
    BY <2>2
  <2>4. PICK y \in Claims(consumer[n], wire[n]) : y.gen = consumer[n].gen /\ y.parts = consumer[n].assigned
    BY <2>2
  <2>5. Apart(consumer[m], wire[m], consumer[n], wire[n])
    BY <2>1 DEF Sound
  <2>6. QED
    BY <2>1, <2>3, <2>4, <2>5 DEF Apart
<1>4. QED
  BY <1>1, <1>2, <1>3 DEF MembershipSound

\* Whatever is late, lost or repeated, a settled member works on exactly what the leader
\* gave to it, and no partition is worked on by two consumers of one generation.
THEOREM MembershipTheorem == Spec => []MembershipSound
<1>1. Init => IInv /\ Sound
  BY InitIInv, InitSound
<1>2. (IInv /\ Sound) /\ [Next]_vars => (IInv /\ Sound)'
  BY NextIInv, NextSound
<1>3. IInv /\ Sound => MembershipSound
  BY SoundMembership
<1>4. QED
  BY <1>1, <1>2, <1>3, PTL DEF Spec
=============================================================================
