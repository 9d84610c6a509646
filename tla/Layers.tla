-------------------------------- MODULE Layers --------------------------------
(* Five parts of the lambda layers that have nothing to do with one another, side
   by side: a behaviour shows one of them, and the others are not there.      *)
CONSTANTS Consumer, Topic, Clusters, MaxGeneration, Modes,           \* assignors
          ByteBits, RecordModes, Timestamps, MaxRecords,           \* records
          Messages, Following,                                     \* wire
          Brokers, Topics, ConsumerGroups, Foreign, Calls, Starts, MaxCalls, MaxMoves,  \* admin
          Threads, minconn, maxconn, Connections, MaxKeys  \* pool

VARIABLES part,
          cluster, subscription, generation, state, assignment, x, mode,
          b, appended, log, buffer, reader, format,
          item, sent, received, decoded,
          brokers, c, call, round, later, abandoned, h,
          pool, used, rused, keys, closed, conn, held

Assignors == INSTANCE KafkaAssignors
Records == INSTANCE KafkaRecords WITH Modes <- RecordModes, mode <- format
Wire == INSTANCE KafkaWire
Admin == INSTANCE KafkaAdmin WITH cluster <- brokers
Pool == INSTANCE DbPool

ASSUME AdminConstants == Admin!AdminAssumption

assignorsVars == <<cluster, subscription, generation, state, assignment, x, mode>>
recordsVars == <<b, appended, log, buffer, reader, format>>
wireVars    == <<item, sent, received, decoded>>
adminVars   == <<brokers, c, call, round, later, abandoned, h>>
poolVars    == <<pool, used, rused, keys, closed, conn, held>>

NoAssignors == cluster = 0 /\ subscription = 0 /\ generation = 0 /\ state = 0 /\ assignment = 0 /\ x = 0 /\ mode = 0
NoRecords   == b = 0 /\ appended = 0 /\ log = 0 /\ buffer = 0 /\ reader = 0 /\ format = 0
NoWire      == item = 0 /\ sent = 0 /\ received = 0 /\ decoded = 0
NoAdmin     == brokers = 0 /\ c = 0 /\ call = 0 /\ round = 0 /\ later = 0 /\ abandoned = 0 /\ h = 0
NoPool      == pool = 0 /\ used = 0 /\ rused = 0 /\ keys = 0 /\ closed = 0 /\ conn = 0 /\ held = 0

LayersInit ==
    \/ part = "assignors" /\ Assignors!Init /\ NoRecords /\ NoWire /\ NoAdmin /\ NoPool
    \/ part = "records" /\ Records!Init /\ NoAssignors /\ NoWire /\ NoAdmin /\ NoPool
    \/ part = "wire" /\ Wire!Init /\ NoAssignors /\ NoRecords /\ NoAdmin /\ NoPool
    \/ part = "admin" /\ Admin!Init /\ NoAssignors /\ NoRecords /\ NoWire /\ NoPool
    \/ part = "pool" /\ Pool!Init /\ NoAssignors /\ NoRecords /\ NoWire /\ NoAdmin

LayersNext ==
    \/ part = "assignors" /\ Assignors!Next /\ UNCHANGED <<part, recordsVars, wireVars, adminVars, poolVars>>
    \/ part = "records" /\ Records!Next /\ UNCHANGED <<part, assignorsVars, wireVars, adminVars, poolVars>>
    \/ part = "wire" /\ Wire!Next /\ UNCHANGED <<part, assignorsVars, recordsVars, adminVars, poolVars>>
    \/ part = "admin" /\ Admin!Next /\ UNCHANGED <<part, assignorsVars, recordsVars, wireVars, poolVars>>
    \/ part = "pool" /\ Pool!Next /\ UNCHANGED <<part, assignorsVars, recordsVars, wireVars, adminVars>>

LayersSpec == LayersInit /\ [][LayersNext]_<<part, assignorsVars, recordsVars, wireVars, adminVars, poolVars>>

-----------------------------------------------------------------------------
(* The properties of the five modules, each where its part is shown. *)

\* The assignors: every partition of a subscribed topic has one member, and one that
\* subscribes; an assignor raises only for a stale report, and roundrobin where
\* subscriptions differ.
AssignmentsComplete ==
    part = "assignors" =>
        /\ Assignors!AssignorsAssumption /\ Assignors!TypeOK
        /\ Assignors!Complete /\ Assignors!RaisesRarely

\* The sticky assignor: the assignment is as even as the subscriptions allow and, where
\* all subscribe alike, moves no more than balance asks for; no two consumers swap
\* partitions of a topic, and the recorded movements lead from where a partition was to
\* where it is.
StickyAndBalanced ==
    part = "assignors" =>
        Assignors!Balanced /\ Assignors!Sticky /\ Assignors!NoSwap /\ Assignors!MovementsTrack

\* _perform_reassignments: every move narrows the spread of the loads, so it ends.
MovesNarrow == [][part = "assignors" => Assignors!Narrows]_assignorsVars

\* Record batches: a consumer reads from the log what was appended and is not cut or
\* compacted away; batches stay within their size, the estimate the accumulator makes
\* room by is an upper bound, and sequence numbers wrap to 0.
BatchesReadBack ==
    part = "records" =>
        /\ Records!TypeOK /\ Records!ReadBack /\ Records!ValidBytes
        /\ Records!WithinBatchSize /\ Records!Estimated /\ Records!SequencesWrap

\* Protocol types: what fits its type is read back, with nothing of what follows; what
\* does not is refused; a message that was cut is not taken for a whole one; the size
\* that is written ahead of a record is that of its varints.
WireFaithful ==
    part = "wire" => Wire!RoundTrip /\ Wire!CutIsNoticed /\ Wire!VarintSized /\ Wire!Refused

\* KafkaAdminClient: while controllers, leaders and coordinators move, no command takes
\* effect twice, a call that returns has done what it says at every broker it concerns,
\* and each is asked that had the part during the call.
AdminCallsSound ==
    part = "admin" =>
        /\ Admin!AdminTypeOK /\ Admin!HandledOnce /\ Admin!ReturnedIsDone
        /\ Admin!OutdatedIsRefreshed /\ Admin!AskedRightly /\ Admin!ListComplete

\* AbstractConnectionPool: no connection is two threads', or a thread's and free, none
\* is lost or put away in a transaction, and no more are open than maxconn.
PoolSound ==
    part = "pool" =>
        /\ Pool!PoolAssumption /\ Pool!PoolTypeOK /\ Pool!WithinMaxconn
        /\ Pool!NotShared /\ Pool!PutAwayIdle /\ Pool!NoneLost
=============================================================================
