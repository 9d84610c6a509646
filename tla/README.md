# A verification project for services-modulith-infra-cdk

TLA+ modules, TLC configurations and TLAPS proofs about the two halves of this repository:

- the CDK application in `src/app.py` and `src/ecomm_modulith_cdk/`: the stacks of an AWS environment and the
  order in which they are deployed, the Lambda functions inlined in them, the boot script of the model host,
  and the Fargate services that use it all;
- the Lambda layers in `src/lambda_layers/`: the Kafka client (kafka-python) and the Python part of psycopg2,
  which are most of the code here and carry its concurrency: consumer groups, fetching, producing and
  transactions, connections, assignors, record formats, the admin client, a connection pool.

- [Inventory](#inventory): the system's parts, their state and their hazards
- [Modules](#modules): which module models which part, and how
- [Runs](#runs): what TLC checks, within which bounds
- [Proofs](#proofs): what holds for every value of the constants
- [Observations](#observations)
- [Assumptions about the world](#assumptions-about-the-world)
- [Not modelled](#not-modelled) and [Plan](#plan)

To check a run: `tlc -config Deployment.cfg MCDeployment`. To check the proofs of a module:
`tlapm Deployment_proofs.tla`. `PROJECT.json` lists runs, theorems, hazards, the lines of code each definition
stands for, and for every property a mutation of the code that breaks it.

## Inventory

### The application

The application contains no long-running program of its own. What runs is

1. `cdk deploy` and `cdk destroy`, which walk the stack graph that `app.py` builds;
2. CloudFormation, which creates, updates, rolls back and deletes the resources of each stack in the order
   its template's edges allow;
3. two Lambda functions, written inline in the stacks, that CloudFormation has run while it deploys: one
   creates databases and schemas, the other completes a secret;
4. the user data script of the model host, run once, and the systemd units it leaves behind (three more
   hosts run a container each);
5. the Fargate services that ECS starts, checks, replaces and rolls back.

Each is started by another, fails in its own way, and works on state another one left. The only test under
`src/tests` is the example that comes with a new CDK project, so all of this is in effect tested by
deploying it.  The layers come without their tests.

| Component (source) | State it keeps | Operations | Hard behaviour | Correct when |
|---|---|---|---|---|
| Stack graph and deployment (`app.py`) | status of each stack, values exported and imported, sessions under way | deploy, destroy, cancel, roll back | two sessions on one account, failure half way, new machine images, declared against derived edges | nobody holds a stale address; a stack whose turn has come finds its imports; deploying again converges |
| Database creator (`Postgres/postgres_config_stack.py`) | databases and schemas, the custom resource's status and physical id, a handler run per execution environment | Create, Update and Delete events, one step per SQL statement | at-least-once delivery, five minute timeout, autocommit, late answers, a physical id that changes | what CloudFormation believes in service exists; deploying again converges |
| DocumentDB stack (`DocumentDb/documentdb_stack.py`) | its resources; the secret, the cluster's password, invocations of the function | create, undo, delete; read and write of the secret | read-modify-write by two invocations, a call whose function failed, a literal name in place of a reference | the secret holds the cluster's password and, once created, the endpoint |
| Redis stack (`Redis/redis_stack.py`) | its resources | create, undo, delete | a literal name in place of a reference, without the edge | (it may lack its subnet group: Observations) |
| Fargate stack (`Fargate/fargate_stack.py`, `Constructs/*.py`) | services, tasks of new and old deployments, endpoints they resolve | create, update, roll back, delete, lose a task | Service Connect endpoints fixed when a deployment begins; rollback half way along the chain; services without circuit breaker | callers resolve their backends; an update keeps a healthy task and ends |
| Model host (`Model/ai_model_stack.py`) | step of the script, build directory, binary, models on disk, units in this boot | script steps, build, downloads, servers, reboot | `set -e` in a script run once, power loss at any point, a oneshot that is not restarted | a server never starts without its files; once enabled it is served in the end |
| Container hosts (`Qdrant`, `Zipkin`, `Redis/redis_insight_stack.py`) | a container with a restart policy | boot, install, run | script run once; data on the root volume | not modelled |
| VPC and Postgres database stacks | none beyond their CloudFormation resources | | | in the stack graph only |
| Scaling helpers (`Fargate/utils.py`) | none; nothing calls them | | step scaling from zero | not modelled |
| Mongo Express (`Constructs/mongo_exp_service.py`, dev) | two containers of one task | download a certificate, then start | ordering of containers | not modelled |

How they interact: `app.py` gives one stack's attributes to the constructor of another; the CDK turns that
into an export, an import, and an edge between the two. CloudFormation locks an export while somebody imports
it. Inside a stack the edges come from references and from `add_dependency`. The database creator is invoked
asynchronously and answers by itself; the secret's function is invoked by the custom resource provider, which
answers for it. Services find each other through Service Connect and find the hosts through addresses
baked into their environment.

### The layers

Paths are below `src/lambda_layers/python/kafka/`, the pool's below `src/lambda_layers/psycopg2/python/`.

| Component (source) | State it keeps | Operations | Hard behaviour | Correct when |
|---|---|---|---|---|
| Group membership (`coordinator/base.py`, `coordinator/consumer.py`) | member state, generation, join future, partitions; the application's place in `ensure_active_group` | join, sync, heartbeat, commit, leave, close, coordinator lookup | two threads and one lock; timeouts that leave a join in flight; answers of an old generation | a generation is never worked on twice; late answers do no harm; members settle |
| Fetcher (`consumer/fetcher.py`, `subscription_state.py`, `group.py`) | position, reset and pause per partition; fetch session; buffered responses; resets and offset lookups under way | poll, seek, pause, assign, commit; responses | every response may be about a position that is gone; control and aborted records, gaps of compaction | records come once, in order, and none is skipped |
| Producer (`producer/*.py`) | batches by partition, in flight and incomplete; producer id and numbers; transaction state and its queue of requests | send, flush, close, transactions; drain, retry, expire, abort | lost answers, retries behind later batches, id resets, a sender thread with its own failures | acknowledged is written, once and in order; transactions are atomic |
| Client (`client_async.py`, `conn.py`, `cluster.py`) | connection states, requests in flight, sets of nodes connecting and sending, wake flag, metadata | poll, send, ready, wakeup, close; version probes; refresh | unlocked checks, several threads in poll, connections lost at every point | each request ends once, with its own answer; no thread sleeps through its work |
| Assignors (`coordinator/assignors/`) | last assignment of the sticky assignor, per class; movements of the round | assign, on_assignment | stale and lost user data; movement records merged; static members | complete, balanced, sticky; ends |
| Records (`record/`) | a builder; bytes; a reader's position | append, close, read | three formats, relative and absolute offsets, cut responses, estimates | read back as written; within the size |
| Protocol types (`protocol/types.py`, `struct.py`) | none | encode, decode | boundaries of varints, nulls, tagged fields, cut input | what is written is read, what does not fit is refused |
| Admin client (`admin/client.py`) | known controller, metadata, coordinators; requests of a call | commands to the controller, groups by coordinator, records by leader, configurations by broker | these move between lookup and request; one of several brokers fails | done once; a call that returns has done it |
| Connection pool (`psycopg2/pool.py`) | free and used connections, by key and by connection | getconn, putconn, closeall | threads, keys used again, connections lost in a transaction | none shared, lost or put away in a transaction; at most maxconn |

How they interact: the application's thread runs the client's `poll`, within which the answers of all
components are handled; the heartbeat thread and the producer's sender thread do the same. The coordinator's
answers move the fetcher's partitions; the fetcher's and the producer's requests travel on the client's
connections; the transaction manager decides when the sender may drain and end. Each model has the interface of
those below it as its environment: a connection is a queue that may be lost with what is on it, a broker answers
in order. The application's handlers use psycopg2's `connect` directly (`DbCreator`), not its pool.

## Modules

| Module | Models | Composes or implements |
|---|---|---|
| `OrderedRollout` | what the outside sees of a deployment: stacks come into service, move and go, never leaving a user with a wrong address | abstract |
| `Deployment` | sessions, CloudFormation operations per stack, export locks, machine images | implements `OrderedRollout` |
| `AppStacks` | the stack graph `app.py` builds for each profile: stacks, `add_dependency` edges, constructor arguments | parameters of `Deployment` |
| `DbCreator` | the database creator's handler, Lambda's delivery, CloudFormation's requests | |
| `StackResources` | the operations of CloudFormation on one stack, for any resources and edges | abstract |
| `StackGraphs` | resources and edges of the DocumentDB stack; the services of the Fargate stack, their edges, and whom they call | parameters |
| `FargateServices` | ECS deployments of the services, and the stack's creation, update, rollback and deletion around them | built on the operations of `StackResources` (`Cfn == INSTANCE`) |
| `DocumentDbSecret` | secret, cluster, custom resource and function | |
| `ModelHost` | user data and systemd units of the model host | |
| `KafkaGroup` | consumers with both threads, and a group coordinator | |
| `KafkaFetcher` | one consumer's positions, fetches and calls; a log, fetch sessions, other members | |
| `KafkaTransactionManager` | states and requests of the transaction manager | extended by `KafkaProducer` |
| `KafkaProducer` | accumulator, sender, application; brokers and transaction coordinator | |
| `KafkaClient` | connections, client, cluster metadata, threads that poll | |
| `KafkaAssignors` | range, round robin and sticky assignor over a history of rebalances | |
| `KafkaVarints` | varints of records and of the protocol, on bytes of any width | used by the next two |
| `KafkaRecords` | builders and readers of record batches, and what brokers do to the log | |
| `KafkaWire` | protocol types: encode, deliver (cut or whole), decode | |
| `KafkaAdmin` | a call of the admin client, its rounds of requests, a cluster that moves | |
| `DbPool` | psycopg2's pool under several threads | |
| `Layers` | the last five components side by side: a behaviour shows one of them | INSTANCEs of their modules |
| `MC*` | instances for TLC | |
| `*_proofs` | theorems and their proofs | |

**Deployment.** `stack`, `addr`, `seen`, `next` are CloudFormation's: the status of each stack, the address it
exports, the addresses it was given when its last operation began, and the address its running operation is
to give it. `owner`, `mode`, `todo`, `failed` are the CDK sessions'. `BeginDeploy` stands for one
`deployStack`; its `seen' = addr` is the template's `Fn::ImportValue`. `DependsOn` is the union of the edges
`app.py` declares and those the CDK derives from the values passed between constructors. An address is
represented by the machine image its instance was launched from: `latest_amazon_linux2023()` is resolved at
every deployment, and a new image replaces the instance.

**DbCreator.** One action per call to the outside: `Start` (secret and admin connection), `Lookup`,
`CreateDatabase`, `Connect`, `CreateSchema`, `Close`, `Answer`. The connections are in autocommit, so each
statement is durable by itself and two runs may interleave between any two of them. `bound` is whether the
local `db_conn` has been assigned. `phys` is the log stream `cfnresponse` reports as physical id: an update
answered by another environment looks like a replacement, and CloudFormation follows it by a Delete.

**StackResources.** `phase` is the stack's, `res` each resource's. `Needs` are the edges of the template, `Uses`
what a resource needs from the service behind it. The property relates the two: `StackGraphs` derives `Needs`
from the references and calls in the code, and `Uses` from what the resources name, literal names included.

**FargateServices.** A service has tasks `starting` and `up` of its deployment in progress, and `old` ones.
`sees` and `oldSees` are the endpoints in the namespace when the deployments began (the intersection, for
several old ones), `first` and `oldFirst` whether that was the first deployment of the service. Whom a service
calls (`Callees`) is written down apart from the edges (`Needs`): ecomm calls mcp, rag and mail, and has edges to the first
two only. `Optional` are the services (mail) that `fargate_stack.py:234-246` creates without one. `MinHealthy` and `MaxRunning` are the 50 and 200 percent the constructs get by not saying
otherwise. `GivenUp` is the circuit breaker where there is one (mail), and CloudFormation's own patience where
there is none. `roll`, `todo`, `done`, `rolling` are a stack update, or its rollback. The cluster and its
namespace are part of every service's environment and are not resources of their own; a service stands for
its construct.

**DocumentDbSecret.** `secret`, `cluster` (the password it was created with), `call` and `copy` per invocation,
`waits` and `answer` of the custom resource. `Read` and `Write` are `get_secret_value` and `put_secret_value`
of the handler. `Kill` is an exception or the default timeout of three seconds: the invocation itself still
returns normally, with an error in its payload, and nobody looks there (`Return`).

**ModelHost.** `step` walks through the script's last commands, in their order; the earlier ones are one step,
"install", "units" or "verify", since nothing but their success matters. `marker` and `enabled` are what it leaves
on disk besides `dir`, `binary` and `model`. `build`, `download` and `server` are the units' states in this boot,
reset by `Boot`. Unit dependencies (`Requires`, `After`) are the guards of `StartDownload` and `StartServer`.

**KafkaGroup.** `consumer[m]` is a record of the coordinator object: `state`, `gen`, `id`, `join` (the join
future and how it ended), `rejoin_needed`, `rejoining`, and `pc`, where the application is in `poll` and
`join_group`. `wire[m]` is its connection, a queue of requests with the broker's answer written into each; answers are handled at
its head, whichever thread polls, so handlers are actions of their own. The group coordinator is
external: it parks joins and syncs, fences by member and generation, and forgets members. `faults` counts
disturbances: a lost connection, an expired session, a stalled application, a moved coordinator, an
unsubscribe or close. One consumer has one connection to the coordinator; contents of offsets are
left to `KafkaFetcher`.

**KafkaFetcher.** `assignment` maps partitions to the code's `TopicPartitionState`; `call` is the application's
place in `poll` and the records it has collected; `wire` the fetch in flight, `completed` and `current` the
responses that wait, `session` and `broker` the two ends of a fetch session, `resets` and `offset_fetches` lookups in flight.
A call sends in three steps, as the code does without a lock: it takes what is buffered ("partial"), computes the partitions to
fetch ("fetchable", `_create_fetch_requests`), then looks whether a fetch is pending and sends (`send_fetches`). Between any two the
heartbeat thread of a consumer in a group may handle the answer that was pending. `FetchesBounded` says what is left of "one fetch per partition".
`expected` is a history: the offset the application is due to see next. A reset is answered on either thread: `heartbeat_on_success`
splits the check and the seek that `reset_offsets_on_success` does in one.

**KafkaProducer** and **KafkaTransactionManager.** `batch` is the sequence of all batches, `queues`, `incomplete`,
`in_flight_batches` and `muted` are the accumulator's and the sender's; `tm` the transaction manager with its queue of
requests; `sender.pc` and `app.at` where the two threads are. `wire[n]` holds produce requests, `stray` batches a broker
received on a connection that was lost and may still write, `log` what is written, with the marks of transactions.
An answer names the request it belongs to: a batch whose completion raises takes the rest of its request along
(`completes`), and has no result until it expires.
`run_once` is one action up to the point where it waits for the coordinator. Brokers check
producer id, epoch and number as Kafka does.

**KafkaClient.** `s` is the client under its lock (connections, `connecting`, `sending`, `pending` results, cluster), a
thread's `at` its place in a call. What the code does without the lock is a separate step: `maybe_connect`, the check in
`send`, `wakeup`. A connection has its requests in flight, those `unsent`, `sent` and coming `back`, and the state of its
version negotiation. The network loses connections; a connection attempt has no time limit in the code and none here.

**KafkaAssignors.** `Begin`, `Sort`, `Balance`, `Reassign`, `EndOfList`, `Finish` are the phases of a sticky assignment
(`x` is its executor), range and round robin are functions (`Assign`). `Change` is what happens between
rebalances: members come and go, topics grow, one member misses its assignment. `mode.process` says which
consumers run in one process and so share class-level state.

**KafkaRecords** and **KafkaWire** work on lengths and small bytes: `ByteBits` is the width of a byte, and the widths of the
integer types follow from it, so every boundary is within reach. A batch is a record of its fields and its length; compression
keeps the records and changes the length.

**KafkaAdmin.** `call` is the call in progress and `round` the requests of its current round, sent one after another and
answered by brokers that handle or refuse them; `h` remembers what was handled and where things were during the call.

**DbPool.** The locked methods of `ThreadedConnectionPool` are actions; between them threads execute
statements (`execute`) and the server goes away (`ServerGoes`). `held` is what each thread was given.

## Runs

| Run (cfg) | Question | Bounds |
|---|---|---|
| `Deployment` | Two sessions deploy and destroy against each other, with a failure and a new image: are all addresses current (`AddressesCurrent`), and is it an `OrderedRollout` (`ImplementsRollout`)? | VPC, Zipkin, PostgresDB, Fargate; 2 sessions, 2 stacks at a time, 1 fault, 1 image |
| `DeploymentLive` | Does a stack whose turn has come find its imports (`ReadyIsImportable`), does every session end (`SessionsEnd`), and does repeating the deployment converge (`Converges`)? | the same and PostgresConfig; 1 session, 2 faults, no new image |
| `DbCreator` | Is what is in service provisioned (`LiveProvisioned`), do requests succeed without a fault (`FaultFreeNeverFails`), does deploying again converge (`RetriesConverge`)? | 2 environments, the shipped template and one with a database and a schema more, 3 faults |
| `FargateServices` | Do tasks resolve whom they call, but for mail in the first deployment (`BackendsResolve`), does a healthy task stay (`StaysInService`), do updates end (`UpdatesEnd`), do services come into service (`Converges`)? | rag, ecomm and mail; 1 update, 1 bad revision, 1 lost task or cancelled creation |
| `DocumentDb` | Does the secret keep the cluster's password (`CredentialsKept`) and get its endpoint (`EndpointPublished`), does every creation end (`CreationEnds`)? And in every order of creation, undoing and deletion with failures, is a resource of the stack there only with what it uses (`UsedExists`)? | 2 invocations, 2 faults; the whole stack, unbounded failures |
| `ModelHost` | Do servers start only on finished files (`ServersHaveFiles`), do failures of one model spare the other (`FailuresStayApart`), is what was enabled served in the end (`EnabledServes`)? | both models, 4 faults over any number of boots |
| `KafkaGroup` | Does every settled member work on what the leader gave to it, and no partition have two owners in a generation (`MembershipSound`)? Does a JoinGroup travel alone (`JoinTravelsAlone`), and does no late answer take away a newer generation (`NoStaleReset`)? | 2 consumers, 2 partitions, 1 disturbance, 2 requests in flight; symmetric |
| `KafkaGroupLive` | Do members settle in the end (`Converges`)? | both undisturbed, or one alone with 2 disturbances; 1 in flight |
| `KafkaFetcher` | Is every visible record returned once and in order (`RecordsInOrder`), none of a paused or lost partition (`NotReturnedWhilePaused`), and do client and broker agree on what is fetched, with no partition more than once on its way, or twice where a heartbeat thread takes part (`FetchesTracked`)? | a log of a compacted transaction, an aborted one and a batch with a corrupt record; in a group, by iterator, with two partitions, and one that is produced to meanwhile; 2 records per poll, 1 reset, 1 fault, 1 or 2 calls (commits among them) |
| `KafkaProducer` | Is every batch in one place until it has its result (`BatchesTracked`), is what is acknowledged written, once and in order where promised (`DeliverySound`), and are transactions atomic (`Atomic`)? | plain with 1 and with 2 in flight, idempotent, transactional on 1 node and on 2; up to 3 sends, 1 or 2 transactions; batches of 2; 1 fault, of some modes none |
| `KafkaClient` | Does every request end once and with its own answer (`RequestsEndOnce`), is the metadata refresh tracked (`RefreshTracked`), does no thread wait with work queued (`NoLostWakeup`)? | one bootstrap address and one broker; version negotiation with 7 losses; one thread with a new topic, two threads |
| `Layers` | Assignors (`AssignmentsComplete`, `StickyAndBalanced`, `MovesNarrow`), records (`BatchesReadBack`), types (`WireFaithful`), admin calls (`AdminCallsSound`), pool (`PoolSound`) | 4 consumers, 2 topics, 3 generations; bytes of 3 bits, 3 records, every format; every type at its boundaries; 2 brokers, topics and groups, 2 calls, 1 move; 2 threads, 3 connections, 3 keys |

The larger properties are conjunctions of named parts (`MembershipSound == TypeOK /\ AssignmentInstalled /\ Exclusive`),
each with a mutation of its own in `PROJECT.json`.

**Why the bounds are enough.** The safety properties of the application's models, of the consumer group and of the connection
pool are proved for all values of the constants, so their runs mainly keep the models
honest: every action fires in them, and each property has a mutation of the code that TLC finds. For the
others:

- The part of the stack graph used by `DeploymentLive` has one stack of every kind (no dependency, host whose
  edge is only derived, provider, configurator, consumer of all) and both kinds of edge. Two faults allow a
  session to be cancelled and the operation it left behind to fail, or a destroy to fail and its repetition too.
- In `DbCreator` a third environment would only add another duplicate; with two, an old run overlaps a new
  request, and three faults allow a duplicate, a kill and a lost answer in one history. The second template grows
  both lists the handler loops over.
- In `FargateServices` rag and ecomm are one caller and one backend, with desired counts of two, and mail is
  the service with a circuit breaker and one task. The chain mcp, rag, ecomm is the theorem's.
- In `DocumentDb` two invocations are what a lost answer can lead to before the provider gives up;
  two faults make one of them late and kill the other.
- In `KafkaGroup` two members are the leader and a follower, and each may be the one that is disturbed; the
  invariants are about one request and one answer of two members at most. All three safety properties of the
  group are theorems for any numbers.
- In `KafkaFetcher` two records per poll and batches of two make a response outlast a call and a call span two
  responses, and let the heartbeat thread take an answer between the steps of sending; a seek goes to the middle of the last batch, or by a reset to either end; epochs up to 2 include the wrap to a session that is established again. Modes differ in what they
  allow, so that each is exhausted.
- In `KafkaProducer` two batches of one partition are enough for one to overtake the other, two nodes for a
  transaction to be half written. One fault is one lost connection, expired batch, moved leader, fenced or evicted
  producer id: two of them together are not explored.
- In `KafkaClient` seven losses take the version negotiation past the end of its list of probes; two threads are
  enough for one to act between the check and the use of the other.
- In `Layers` bytes of 3 bits leave 2 bits for a varint's group, so that every
  boundary of 1 to n bytes is met with numbers TLC can enumerate. Assignments of up to six partitions to four
  consumers meet uneven division, a stale report, and movements that merge.

**Fairness.** Weak fairness on what the services do on their own: CloudFormation ends its operations, ECS starts
and stops tasks, Lambda runs what was delivered, the script and systemd go on, a session works on while it
has something to do. Four assumptions go further, and are about people: the operator deploys everything again
now and then (strong fairness of `Launch`, since other sessions may always be in between), removes a stack
that failed to delete or to create, and reboots a model host on which a unit failed. Without them no liveness
could be promised: nothing in the code retries a failed deployment or a failed oneshot. Faults are bounded, so
"in the end" means after the last of them. `CheckModel`, `Fetch` and the like are fair only until they fail;
tasks of a good revision come up, those of a bad one never do. The driver comes up in every boot that lasts:
the build script waits for it without a bound.

`KafkaGroupLive` assumes that both threads of a consumer keep running and the cluster answers (weak fairness), and
strong fairness of three steps that can be disabled again and again by the other thread's requests: sending the
JoinGroup once drained, polling on a quiet connection, and the heartbeat. Seconds pass between two heartbeats in
the code, so none of the three is starved for ever. Liveness of the fetcher and of the producer is not stated: the
code has ends without result in both (Observations). `Converges` excepts one such end of the group, `LostRejoin`.

`CHECK_DEADLOCK FALSE` is given where the system may stop: `ModelHost` (a host that serves both models, or whose
script failed before enabling them, has nothing left to do once the faults are used up), the Kafka runs and `Layers`
(the application has closed its consumer or producer, or made all the calls it is allowed).

## Proofs

All theorems are checked by TLAPS down to the leaves, for any stack graph, any number of sessions,
environments, tasks, services and faults, from the assumptions the modules name (`DeploymentAssumption`,
`DbCreatorAssumption`, ...), which only fix the types of the constants. Type correctness of these modules is left to
its theorems and not checked again by the runs. Five theorems have a hypothesis besides: one is about a graph
(`BackendsFirst`), one about the template (`AppDbFirst`, which the shipped one satisfies), one
about the operator (`OneSession`, as for the property itself), one about the arguments of the pool (`SizesFit`), and one
about the time a producer has run (`NumbersSuffice`). `AdminConstants`, which `Layers` assumes, says what the admin client is called
with (each name once, and one at least, of the kind the operation is for), and that the client knows some broker when it begins.

| Theorem | Says | Inductive invariant |
|---|---|---|
| `Deployment_proofs!TypeCorrect` | `TypeOK` | itself |
| `Deployment_proofs!AddressesStayCurrent` | no stack holds a stale or dangling address | below |
| `Deployment_proofs!DeploymentImplementsRollout` | every behaviour is one of `OrderedRollout` | the same |
| `DbCreator_proofs!TypeCorrect`, `LiveIsProvisioned` | every database and schema of the properties in service exists | `IInv` |
| `DbCreator_proofs!FaultFreeAlwaysSucceeds` | without a fault no request fails | `CleanInv`, below |
| `Deployment_proofs!ReadyIsAlwaysImportable` | a stack that is ready finds what it imports | `WaitsRightly` and `UpstreamDone`, below |
| `FargateServices_proofs!BackendsAlwaysResolve` | no task ever runs that cannot resolve whom it calls, but for services without an edge (mail), which a first deployment may miss | below |
| `FargateServices_proofs!ServicesStayInService` | no rollout or rollback takes the last healthy task | below |
| `DocumentDb_proofs!CredentialsAlwaysKept` | the secret keeps the cluster's password | below |
| `DocumentDb_proofs!EndpointAlwaysPublished` | a complete stack has its endpoint in the secret unless the function was killed | `EndpointInv`: an invocation that was written, and an answer of success, stand for an endpoint |
| `DocumentDb_proofs!UsedAlwaysExists` | in every order of creation, undoing and deletion, what a resource of the stack uses exists as long as it does | below |
| `DocumentDb_proofs!ShowsBoth` | the run's specification implements that of the secret and that of the resources, so that what is proved of one holds of the run | none: step by step |
| `DocumentDb_proofs!TypeCorrect`, `ModelHost_proofs!TypeCorrect` | `TypeOK` | itself |
| `KafkaGroup_proofs!JoinAloneTheorem` | a JoinGroup is alone on its connection, or followed by a LeaveGroup | `Travels`, below |
| `KafkaGroup_proofs!ResetTheorem` | no answer takes away a generation but that of its request | the same |
| `KafkaGroup_proofs!MembershipTheorem` | each settled member works on what the leader gave it, and no partition is worked on twice in one generation | `Sound`, below |
| `KafkaProducer_proofs!BatchesAlwaysTracked` | a batch without a result is in one queue, once, or in flight, and a flush waits for it; one with a result is in none | `IInv`, below |
| `KafkaProducer_proofs!DeliveryAlwaysSound` | what is acknowledged is written, by an idempotent producer once, and in order where one request is in flight | `DInv`, below |
| `Layers_proofs!PoolAlwaysSound` | a connection in use is one thread's and not in the pool, what is in the pool is idle, none is lost, and the pool keeps to its sizes | below |
| `Layers_proofs!AdminAlwaysSound` | no command is handled twice, a call that returns has done what it says, and who was asked had the part during the call | `AdminInv`, below |
| `ModelHost_proofs!ServersAlwaysHaveFiles`, `FailuresAlwaysStayApart` | as the run | `UnitsInv` |

*AddressesCurrent* relates a stack to those it imports from, in every status in which it holds their values.
It is inductive together with the types because CloudFormation's lock (`InUse`) counts a stack that is still
being created, updated or deleted; counting complete ones only is the mutant that breaks it.

*LiveProvisioned* alone is not inductive: an answer makes the target live, and only the history of the run
says that it was provisioned. `RunInv` states what a run has done at each point of the handler (the
iterations below `di` and `si`), `CurrentInv` that the run whose answer counts works on the outstanding request,
`ServingInv` that the properties in service are those a rollback returns to. No action ever drops a database,
which is why Delete events that CloudFormation sends for a "replaced" resource do no harm.

*ReadyIsImportable* is about one session (`OneSession`; with two, one may destroy what the other has just waited for).
`WaitsRightly` says that a session waits for operations of its own kind only, and `UpstreamDone` that behind a stack which is
still to be deployed everything it depends on is in service or is yet to come; a stack whose turn has come has nothing
yet to come behind it.

*FaultFreeNeverFails* needs to know that nothing else runs. `CleanInv` says that while no fault has occurred there is one
invocation at a time, that it works on the outstanding event, that what it creates is absent, and that `db_conn` is
assigned when it is closed. The last is where `AppDbFirst` is used: the list of databases begins with the one whose
connection is kept (Observations, `postgres_config_stack.py:103`).

*UsedExists* carries existence along the edges: a resource that exists has all it needs live, in every phase. What a
resource of the DocumentDB stack uses it needs by itself or through one other resource; lemma `UsesReached`
goes through the graph of `StackGraphs` and shows it. For the Redis stack there is no such lemma: its replication
group uses a subnet group no edge leads to (Observations).

*BackendsResolve* assumes `BackendsFirst`: everyone called is discoverable, and among the `Needs` or `Optional`. `Ordered` says that
the needs of a service that exists are live and that an absent one has no tasks; `Resolved` that the endpoints
a deployment began with include those called, in a first deployment those needed. The first makes the second hold when a
deployment begins, and both together keep a backend's endpoint as long as a caller is left. A later deployment finds the optional
ones too (`Began`): an update begins when the creation is complete, and then every service is live.

*StaysInService* is inductive together with the types and the order of the stack (`Ordered`): a service is
live only once its deployment was complete, `StopOld` leaves `MinHealthy` tasks, which is at least one for every
desired count, and `Deploy` makes old tasks of those that are up without stopping any.

*CredentialsKept* needs the copies: whatever an invocation has read contains the cluster's password, also if
it read before another one wrote. It is true because the handler writes back the whole secret it read and
only sets the endpoint.

*JoinTravelsAlone* and *NoStaleReset* are proved together, for any consumers and partitions, any number of faults and
any limit on requests in flight. The first is inductive once the application's place is known: a join is sent at
"drain" with the connection empty, and from "await" nothing but a leave is added (`JoinAlone`). The second needs
`OfGeneration` besides: while a consumer has a generation, every request under way was made under it, for a
generation arrives only with the answer to a join or sync, and a join has drained the connection before. Both are named
parts of `Travels`; the proof has one lemma per handler and per thread.

*MembershipSound* is a statement about pairs of members, the log of assignments, and what is under way between them and the
coordinator. Its invariant `Sound` has a part for the coordinator alone (`GroupOK`: who is a member, who has joined
and who has been given what in the present generation), one for each consumer with its connection (`MemberOK`: the answer
to a join or sync on the wire is the coordinator's for that generation, or its sender has been forgotten and is told so),
and one for each pair (`Apart`: two that hold partitions in one generation hold different ones). A step of one consumer
leaves the others' parts alone (lemma `OneMember`); a step of the coordinator, which writes into several connections, changes each in
one of a few ways (`AllMembers`, `Moves`).

*BatchesTracked* of the producer needs three things besides itself, together `IInv`. `Placed` says it as the steps use it: every
queue holds batches of its own partition, each once, and the batches incomplete are those without a result.
`Once` says that what is under way is in one request or answered once, and is in no queue; without it an answer could put a
batch back that is in a queue already. `ManagerInv` is about the transaction manager: one request that ends something (InitProducerId,
EndTxn) exists at a time; an EndTxn has the application wait for it, and is only sent when every batch has its result; and while
there are batches the transaction is open. That is what keeps an expired batch from raising in the middle of `_send_producer_data`,
between the queues it has taken batches from and the requests it would have put them into. The proof has one lemma per operation of
the manager, one per way in which queues change (a batch joins, returns, is drained, expires or gets its result), and one per
action. That batches are removed in order, `Kept`, is an induction over the queue, written out for the set of lengths
for which it holds. No assumption is made beyond the types of the constants, and that every mode is one the
constructor accepts. TLC has checked `IInv` on the states of the run `kafka_producer`.

*DeliverySound* relates what the application was told to what the brokers have written, while batches are retried,
expire, are aborted, and may arrive after their connection is lost. Its invariant `DInv`, on top of `IInv`, has four parts.
`Closed`: a batch that has been sent takes no further record, also when it is back in a queue, and a request has one batch
of a partition. `OneByOne`, where one request is in flight: queues are in the order of creation, what is under way has its
partition muted and is alone there, and no batch is sent before every earlier one of its partition has its result. `Numbered`:
the manager's next number is above those of the batches that succeeded under its producer id, and two batches share a number only
if one of them was given up; this is where a batch that is sent again must keep its number, and why the sequence is
raised when a batch is acknowledged and not when it is sent. `Recorded`: what is answered without an error is in the log or was
taken for a duplicate of what is; where numbers are given the log has no batch twice, and where one request is in flight what
has succeeded precedes in it whatever was created later.
A broker's verdict is then enough: it writes a batch only where neither it nor one with its number is written. `NumbersSuffice`
says that the numbers have not come to the end of 31 bits; behind that they begin again at 0, and a broker that remembers
every number, as the model's does, would take a new batch for an old one. TLC has checked `DInv` on the states of the run
`kafka_producer`, where `NumbersSuffice` always holds; the theorem is about any number of faults, of which the run explores one.

*PoolSound* is that of psycopg2's pool in any composition with the other layers that only ever shows one of them. The
invariant says that `_used` and `_rused` are each other's inverse, that each holder has its key, that no two hold one
connection, and that the pool has each once and none that is used; `CountInv` adds them up against `maxconn`. `SizesFit` is
`minconn <= maxconn`: `__init__` opens `minconn` connections without looking at `maxconn`.

*AdminCallsSound* is about one call of the admin client at a time, while controller, coordinators and leaders move beneath it and requests of
earlier calls that raised are still carried out. `AdminInv` says of a call at work which requests its round consists of, for which names and of whom
(`Asks`); that nothing but the round and `later` has what is still to be done (`RecordsOK`); and of every answer that has come that what it
reports as done is in `h.done`, and that whom it names, or the broker that refused, had the part at some moment of the
call (`AnsweredRightly`). A command is handled once because it is sent a second time only behind an answer `not_controller`, and an answer like that
comes from a broker that has not handled it (`CommandsOK`). Deletions of groups need `DeletedOK` besides: a group that is gone was deleted by a request of
this round that has been answered, so that the coordinator's report of it is not lost among the others. What is true when a call returns stays so, for
`h` begins anew with the next one (`EndsOK`). Orders of brokers are chosen, not computed, since the code takes them from sets and dicts;
the only fact needed about them is that an order of a finite set has all of it (lemma `Ordered`). TLC has checked `AdminInv` on the states of the
run `layers`.

Only model-checked: all liveness, since the prover handles neither fairness nor `ENABLED`; the properties of the
fetcher and the client; the producer's `Atomic`, which holds with the one fault of its run and not with any number of them (see Observations);
and those of the assignors, the record formats and the types, which are in
the main what recursive functions and folds over sequences compute. The prover knows nothing of a fold, and of a recursive function
only what an induction that is written out for it shows. The graph of `AppStacks` is
any graph to the theorems, and `BackendsFirst` is checked for the graph of the services by their run.

## Observations

The application:

- `app.py:143` No edge puts `PostgresConfigStack` before `EcsFargateStack`. `app.py:127-128` says Fargate is
  deployed last; it may be created before the database and schemas are, and `cdk deploy` of that stack alone
  never creates them. `Deployment` has no such edge either.
- `Qdrant/qdrant_stack.py:42` (also Zipkin and the model host) A machine image published between two
  deployments would replace the instance and change an exported address in use: CloudFormation refuses, and
  every later deployment fails until the Fargate stack is destroyed. The repository's `README.md:15` promises
  repeatable deployments. `Converges` is checked without a new image for that reason.
- `Redis/redis_stack.py:55` The replication group takes the subnet group by its literal name, without
  the `add_dependency` that `documentdb_stack.py:64` has for the same case: their creation and deletion race.
- `Fargate/fargate_stack.py:246` Nothing orders the mail service before ecomm. A task of ecomm deployed
  first never resolves it, until its next deployment; `BackendsResolve` excepts the first deployment for mail and no other.
- `DocumentDb/documentdb_stack.py:105` The custom resource names the service `f"{environment}-Lambda"`, which the
  SDK does not have: it fails at every creation, and the stack is rolled back. The run has an SDK that accepts
  the name, to check the rest of the design.
- `postgres_config_stack.py:103` closes `db_conn`, which is assigned for "ecomm" only (line 84). A list of databases
  that begins with another one makes every Create fail; the shipped list does not.
- `ai_model_stack.py:403` writes the marker `ec2-provisioning-complete`, after the message that all steps completed,
  before the two servers are enabled (405-406). A failure in between leaves a marked host that never serves.
- `documentdb_stack.py:104` invokes the function and takes the call's success for the function's. A function
  that is killed leaves a complete stack whose secret has an empty endpoint; `EndpointPublished` excepts it.
- `Constructs/ecomm_service.py:75` asks for two tasks; the repository's `README.md:137` says the application is
  deployed as a single instance.
- `Redis/redis_insight_stack.py:60` pulls `redis-insight:latest` and line 69 runs `redis/redisinsight:latest`.

The Kafka consumer. The models do what the code does in each of these cases, and the properties except
what follows from them by name (`LostRejoin`, `Overridden`) or are stated so that they hold all the same:

- `coordinator/base.py:499` `join_group` clears `rejoin_needed` when it looks at a join that succeeded; if the heartbeat
  thread has reset the generation in between, the consumer stays outside the group for good.
- `coordinator/base.py:608-610` A JoinGroup answer in a state other than REBALANCING fails the future and goes on to
  send the SyncGroup.
- `coordinator/consumer.py:476` After a join that timed out and then succeeded, `close` and `commit` commit the old
  partitions under the new generation.
- `consumer/fetcher.py:335,980` A record that cannot be unpacked, met with an empty response, holds `fetched_records` in its loop for
  ever; `group.py:680-683` says a poll takes `timeout_ms` at most.
- `consumer/fetcher.py:639,668` `send_fetches` computes which partitions to fetch before it looks which nodes have a fetch pending,
  without a lock. A response that the heartbeat thread handles in between leaves its partitions buffered and fetched again,
  contrary to the docstring (143-144). The second response is dropped by its offset; `FetchesBounded` allows for two.
- `consumer/fetcher.py:420` A seek on the application's thread between the check and the use of a reset on the
  heartbeat thread is lost (`SeekHonoured` in `KafkaFetcher`, which no run checks, states the contrary).
- `coordinator/consumer.py:451` An offset lookup that timed out is taken up by a later call for the same partitions,
  after other members have gone on from there.
- `consumer/subscription_state.py:433` `reset_failed` raises a `KeyError` for a partition that has been taken away, and the
  offsets that came with it are not applied.

The Kafka producer:

- `producer/sender.py:340` `_maybe_abort_batches` calls a method the accumulator does not have: after a fatal error every
  `run_once` raises before it polls.
- `producer/record_accumulator.py:473` Aborting batches raises `ValueError` for the first one in flight: an abort never ends,
  and a forced close kills the sender's thread.
- `producer/sender.py:402` `_failed_produce` passes on an exception where `_fail_batch` (466) calls a class. For a batch that is not sent
  again after its connection was lost the `TypeError` is swallowed (`future.py:87-94`): it has no result until its delivery
  timeout, its partition stays muted for good, and the batches behind it in the request are not looked at. `BatchesTracked`
  says that it stays among the incomplete ones, in flight.
- `producer/sender.py:223` When the producer id is reset because a batch expired, batches drained in the same call are neither sent nor
  put back, and their partitions stay muted.
- `producer/transaction_manager.py` A reset gives numbers again that a batch given up has used and may have written: a later record with
  the same number is acknowledged as a duplicate and never written (`NumberTaken`). In the same way a record of a
  committed transaction may be missing, contrary to the comment at `sender.py:291-294`.
- An exception in `await_ready` loses the transactional request that was taken from the queue; the error paths of
  TxnOffsetCommit raise `AttributeError`; `begin_flush` of an ending transaction is never undone, so that later batches do not
  linger; a `close` whose flush times out does not close; a late batch error while EndTxn is
  under way leaves `commit_transaction` waiting.
- `producer/transaction_manager.py:259-265` The same late error, of an expired batch of an earlier transaction, replaces
  COMMITTING_TRANSACTION by ABORTABLE_ERROR. When the answer to EndTxn is lost as well, `commit_transaction` raises although
  the transaction is committed, and the application may abort it. The model's coordinator (external) accepts that
  abort, and TLC then finds `Atomic` violated with two faults; a real one answers INVALID_TXN_STATE, which
  `EndTxnHandler.handle_response` makes fatal. With the one fault the run explores, `Atomic` holds.

The Kafka client:

- `cluster.py:340` The answer to a metadata request sent before a topic was added clears `_need_update`; the topic waits
  for the next refresh. `need_all_topic_metadata` clears it behind the listeners and leaves a future unresolved.
- `client_async.py:393` `maybe_connect` looks and adds to `_connecting` without the lock; a node connected meanwhile stays there.
- `conn.py:626` Losses during version negotiation make the client fall back probe by probe and halve its
  timeout, and neither is ever reset: it ends with "Unable to determine broker version" or an older version than the broker's.
- The limit on requests in flight is exceeded by one for each further thread (`InFlightBounded` allows for it).

Assignors, records and types:

- `assignors/sticky/sticky_assignor.py:433-443` A stale report, or a former owner that has left the topic, may end in a
  `KeyError`; `RaisesRarely` says when. `assignors/roundrobin.py:79` raises where its docstring (33-35) says a member is skipped.
- `assignors/range.py:45` `groupby` keeps only the last run of static or dynamic members in arrival order; others get no partition.
- The sticky assignor's state is the class's: two consumers of one process share it.
- `record/util.py:10` `encode_varint` returns one less than it wrote for six bytes and more; `protocol/types.py:320` writes tagged
  fields in the order of the dict, while decoding asks for ascending tags, and accepts a value that was cut.
- `record/legacy_records.py:536` The estimate is no upper bound for compressed records that grow.

Admin client and pool:

- `admin/client.py:1099` says that a partition without leader raises; the request goes to node -1, maybe after
  records of others were deleted. That node, like a controller the client's metadata does not know yet, is waited for
  (30 s) and reported as not ready (`client_async.py:613`), where the docstring (605) says `AssertionError`. A leader that cannot be reached hides what was deleted before.
- `describe_consumer_groups` raises `TypeError` for a group of another protocol that has members.
- `send_requests` that raises leaves the requests sent before to be carried out unseen; a list of groups asks the brokers
  of the cached metadata only.
- `psycopg2/pool.py:115` A `rollback` that raises in `_putconn` leaves the connection in use until it is put away again.
  Putting one away twice with its key leaves it twice in the pool. Idle connections whose server is gone are handed out.

## Assumptions about the world

What is not in the repository is modelled from how the code uses it, and marked external in `PROJECT.json`:

- CloudFormation takes one operation per stack at a time, refuses to change or delete an export in use, rolls
  back what fails, takes the first answer to its outstanding custom resource request and ignores later ones,
  starts a resource when its edges are satisfied and deletes in the reverse order.
- The CDK's command line deploys upstream stacks along and destroys downstream ones along; a stack starts when
  all its edges are done; a failure stops what has not begun.
- Lambda delivers asynchronous events at least once, may rerun a killed execution, and may run two at once.
- ECS keeps 50 to 200 percent of the desired count during a deployment and fixes the Service Connect endpoints
  a task resolves when its deployment begins. CloudFormation waits for a service to become steady, for hours
  if it has no circuit breaker; a breaker trips after three failed tasks, the least ECS uses.
- Kafka brokers answer the requests of a connection in order, may carry out what was sent on one that is lost, and check
  generations, fetch sessions, producer ids, epochs and numbers as the protocol says. A group coordinator parks joins and syncs until the group is
  complete or the time is up.
- The lock of a Python object is held for what is inside its `with` statement; what is outside may interleave.
- cloud-init runs user data once in an instance's life. systemd starts a unit after those it requires have
  succeeded; `Restart=always` restarts what exits, not what never started.

## Not modelled

- The VPC and the Postgres cluster beyond their place in the stack graph: declarative, nothing to order.
- Roles, policies, log groups, and security group rules: the database ingress rules that ecomm adds are
  redundant with the wider ones the database stacks have.
- Sizes and intervals: memory and heap, health check periods, grace periods. A health check is a task that
  comes up or fails.
- The `on_update` call of the DocumentDB custom resource, which writes the same endpoint again.
- `Fargate/utils.py`, which nothing calls, Mongo Express's two containers, and the user data of the container hosts, which
  pull and run one image.
- Of the Kafka layer: TLS, SASL and SOCKS handshakes, metrics, codecs, checksums, the schemas of the requests (declarations), lookups of
  offsets by time, partitioners, serializers, the accumulator's limit by bytes, the command line tools and benchmarks, `vendor/`.
- Of the psycopg2 layer: everything but the pool, which is adapters, cursors and errors around a C library.
- Two disturbances at once in `KafkaGroup` and `KafkaProducer`: beyond five minutes.

## Plan

What would come next, in order. The list of runs is kept short on purpose: a new question replaces one that is answered.

1. `Atomic` with any number of faults: first a coordinator that remembers how a transaction ended and refuses to end it
   otherwise, then, beside `DeliverySound` in `KafkaProducer_proofs`, an invariant that relates the phases of a transaction
   to the marks in the logs. About the fetcher, `FetchesTracked`.
2. The SOCKS handshake and the sampled statistics of `metrics/` as further parts of `Layers`.
3. `KafkaGroup` with `KafkaFetcher`: offsets committed by one member and taken up by the next.
4. A composition of `Deployment`, `DbCreator` and `FargateServices` along the environment's life: what a service
   finds when it starts, given the missing edge.
