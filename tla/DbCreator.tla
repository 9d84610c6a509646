----------------------------- MODULE DbCreator -----------------------------
(***************************************************************************)
(* The custom resource "DatabaseCreator" of PostgresConfigStack: an inline *)
(* Lambda handler that CloudFormation invokes asynchronously with Create,  *)
(* Update and Delete events, and that creates the application's database   *)
(* and its schemas on the Aurora cluster.                                  *)
(*                                                                         *)
(* One action per call the handler makes to the outside (autocommit is on, *)
(* so each statement is durable by itself).  Around it, the environment    *)
(* the handler lives in: an event may be delivered twice, an execution may *)
(* be killed by the five minute timeout and rerun by Lambda, any database  *)
(* call may raise, an answer may be lost, and CloudFormation takes the     *)
(* first answer to its outstanding request and ignores every later one.    *)
(***************************************************************************)
EXTENDS Naturals, Sequences

CONSTANTS
  DbNames, SchemaNames,
  AppDb,        \* the database the handler compares with ("ecomm")
  Templates,    \* the ResourceProperties a deployed template may carry
  Slots,        \* Lambda execution environments, each with its log stream
  None,
  MaxFaults     \* bound on kills, lost answers, duplicates and call errors

ASSUME DbCreatorAssumption ==
  /\ Templates \subseteq [databases : Seq(DbNames), schemas : Seq(SchemaNames)]
  /\ AppDb \in DbNames
  /\ None \notin Templates \cup Slots
  /\ MaxFaults \in Nat

VARIABLES
  dbs, schemas,        \* the cluster: databases, and schemas of AppDb
  status, target,      \* the custom resource and the properties last sent
  live,                \* the properties in service, or None
  phys,                \* its PhysicalResourceId (a log stream), or None
  sent,                \* the outstanding event has reached Lambda
  pc, event, current,  \* per environment: control, event, is it outstanding
  di, si, bound,       \* loop indexes, and whether db_conn is assigned
  faults

pg     == <<dbs, schemas>>
cfn    == <<status, target, live, phys, sent>>
locals == <<di, si, bound>>
vars   == <<pg, cfn, pc, event, current, locals, faults>>

Open == status \in {"creating", "updating", "restoring", "cleaning", "deleting"}

Init ==
  /\ dbs = {} /\ schemas = {}
  /\ status = "absent" /\ live = None /\ phys = None /\ sent = FALSE
  /\ target \in Templates
  /\ pc = [s \in Slots |-> "idle"]
  /\ event = [s \in Slots |-> [type |-> "Delete", props |-> target]]
  /\ current = [s \in Slots |-> FALSE]
  /\ di = [s \in Slots |-> 1] /\ si = [s \in Slots |-> 1]
  /\ bound = [s \in Slots |-> FALSE]
  /\ faults = 0

Fault == faults < MaxFaults /\ faults' = faults + 1

-----------------------------------------------------------------------------
(* CloudFormation: the requests it sends to the service token.             *)

EventType ==
  CASE status = "creating" -> "Create"
    [] status \in {"updating", "restoring"} -> "Update"
    [] OTHER -> "Delete"

Send(from, to, props) ==
  /\ status = from
  /\ status' = to
  /\ target' = props
  /\ sent' = FALSE
  /\ current' = [s \in Slots |-> FALSE]
  /\ UNCHANGED <<pg, phys, pc, event, locals, faults>>

CreateStack(p)  == Send("absent", "creating", p) /\ UNCHANGED live
UpdateStack(p)  == p # live /\ Send("complete", "updating", p) /\ UNCHANGED live
RestoreStack    == Send("updateFailed", "restoring", live) /\ UNCHANGED live
CleanUpReplaced == Send("replaced", "cleaning", live) /\ UNCHANGED live
RemoveStack ==
  \E from \in {"complete", "createFailed", "deleteFailed"} :
    Send(from, "deleting", target) /\ live' = None

(* The answer s gives (or, for a timeout, the one never given) settles the *)
(* request.  A new log stream on Update is a new physical resource: the    *)
(* old one is then deleted.                                                *)
Succeeded(s) ==
  /\ status' = CASE status = "deleting" -> "absent"
                 [] status \in {"updating", "restoring"} /\ s # phys -> "replaced"
                 [] OTHER -> "complete"
  /\ live' = IF status = "deleting" THEN None ELSE target
  /\ phys' = IF status = "cleaning" THEN phys ELSE s

FailedRequest ==
  /\ status' = CASE status = "creating" -> "createFailed"
                 [] status = "deleting" -> "deleteFailed"
                 [] status = "cleaning" -> "complete"
                 [] OTHER -> "updateFailed"
  /\ UNCHANGED <<live, phys>>

RequestTimeout ==
  /\ Open /\ sent
  /\ \A s \in Slots : current[s] => pc[s] = "idle"
  /\ FailedRequest
  /\ UNCHANGED <<pg, target, sent, pc, event, current, locals, faults>>

-----------------------------------------------------------------------------
(* Lambda: delivery, duplicate delivery and the timeout of an execution.   *)

Deliver(s) ==
  /\ Open /\ pc[s] = "idle"
  /\ IF sent THEN Fault ELSE UNCHANGED faults
  /\ sent' = TRUE
  /\ pc' = [pc EXCEPT ![s] = "start"]
  /\ event' = [event EXCEPT ![s] = [type |-> EventType, props |-> target]]
  /\ current' = [current EXCEPT ![s] = TRUE]
  /\ UNCHANGED <<pg, status, target, live, phys, locals>>

Kill(s) ==
  /\ pc[s] # "idle" /\ Fault
  /\ \E next \in {"idle", "start"} : pc' = [pc EXCEPT ![s] = next]
  /\ UNCHANGED <<pg, cfn, event, current, locals>>

-----------------------------------------------------------------------------
(* The handler.  db is the element of the for loop at di.                  *)

Db(s)     == event[s].props.databases[di[s]]
Schema(s) == event[s].props.schemas[si[s]]
More(s)   == di[s] <= Len(event[s].props.databases)
MoreSchemas(s) == si[s] <= Len(event[s].props.schemas)

Goto(s, from, to) == pc[s] = from /\ pc' = [pc EXCEPT ![s] = to]
Quiet == UNCHANGED <<cfn, event, current, faults>>

\* mutant: Delete drops what Create made
StartDropping(s) ==
  /\ Goto(s, "start", IF event[s].type = "Delete" THEN "succeed" ELSE "loop")
  /\ dbs' = IF event[s].type = "Delete" THEN {} ELSE dbs
  /\ di' = [di EXCEPT ![s] = 1] /\ bound' = [bound EXCEPT ![s] = FALSE]
  /\ UNCHANGED <<schemas, si>> /\ Quiet

\* a Delete event is answered at once; otherwise the secret is read and the
\* admin connection opened
Start(s) ==
  /\ Goto(s, "start", IF event[s].type = "Delete" THEN "succeed" ELSE "loop")
  /\ di' = [di EXCEPT ![s] = 1]
  /\ bound' = [bound EXCEPT ![s] = FALSE]
  /\ UNCHANGED <<pg, si>> /\ Quiet

\* after the database exists: schemas only for AppDb
Made(s) == IF Db(s) = AppDb THEN "connect" ELSE "close"

\* mutant: the database is created without looking for it first
LookupUnchecked(s) ==
  /\ Goto(s, "loop", IF More(s) THEN "create" ELSE "succeed")
  /\ UNCHANGED <<pg, locals>> /\ Quiet

Lookup(s) ==
  /\ Goto(s, "loop", IF ~More(s) THEN "succeed"
                     ELSE IF Db(s) \in dbs THEN Made(s) ELSE "create")
  /\ UNCHANGED <<pg, locals>> /\ Quiet

\* CREATE DATABASE raises DuplicateDatabase when another run was faster
CreateDatabase(s) ==
  /\ Goto(s, "create", IF Db(s) \in dbs THEN "except" ELSE Made(s))
  /\ dbs' = dbs \cup {Db(s)}
  /\ UNCHANGED <<schemas, locals>> /\ Quiet

Connect(s) ==
  /\ Goto(s, "connect", "schemas")
  /\ bound' = [bound EXCEPT ![s] = TRUE]
  /\ si' = [si EXCEPT ![s] = 1]
  /\ UNCHANGED <<pg, di>> /\ Quiet

CreateSchema(s) ==
  /\ MoreSchemas(s) /\ Goto(s, "schemas", "schemas")
  /\ schemas' = schemas \cup {Schema(s)}
  /\ si' = [si EXCEPT ![s] = @ + 1]
  /\ UNCHANGED <<dbs, di, bound>> /\ Quiet

SchemasDone(s) ==
  /\ ~MoreSchemas(s) /\ Goto(s, "schemas", "close")
  /\ UNCHANGED <<pg, locals>> /\ Quiet

\* db_conn.close() stands outside the if: an unassigned db_conn raises
Close(s) ==
  /\ Goto(s, "close", IF bound[s] THEN "loop" ELSE "except")
  /\ di' = [di EXCEPT ![s] = @ + 1]
  /\ UNCHANGED <<pg, si, bound>> /\ Quiet

\* the secret, the connections and the statements may raise
CallFails(s) ==
  /\ pc[s] \in {"start", "loop", "create", "connect", "schemas"}
  /\ event[s].type # "Delete" /\ Fault
  /\ pc' = [pc EXCEPT ![s] = "except"]
  /\ UNCHANGED <<pg, cfn, event, current, locals>>

\* cfnresponse.send swallows its own errors: an answer may be lost
Answer(s) ==
  /\ pc[s] \in {"succeed", "except"}
  /\ pc' = [pc EXCEPT ![s] = "idle"]
  /\ \/ /\ IF ~(Open /\ current[s]) THEN UNCHANGED <<status, live, phys>>
           ELSE IF pc[s] = "succeed" THEN Succeeded(s) ELSE FailedRequest
        /\ UNCHANGED faults
     \/ UNCHANGED <<status, live, phys>> /\ Fault
  /\ UNCHANGED <<pg, target, sent, event, current, locals>>

-----------------------------------------------------------------------------
Handler(s) ==
  \/ Start(s) \/ Lookup(s) \/ CreateDatabase(s) \/ Connect(s)
  \/ CreateSchema(s) \/ SchemasDone(s) \/ Close(s) \/ Answer(s)

Operator ==
  \/ \E p \in Templates : CreateStack(p) \/ UpdateStack(p)
  \/ RemoveStack

Next ==
  \/ Operator \/ RestoreStack \/ CleanUpReplaced \/ RequestTimeout
  \/ \E s \in Slots : Deliver(s) \/ Kill(s) \/ CallFails(s) \/ Handler(s)

Spec == Init /\ [][Next]_vars

(* Lambda runs what was delivered, CloudFormation times out and rolls back *)
(* by itself, and a failed or absent stack is deployed again.              *)
Fairness ==
  /\ \A s \in Slots : WF_vars(Handler(s))
  /\ WF_vars(~sent /\ \E s \in Slots : Deliver(s))
  /\ WF_vars(RequestTimeout)
  /\ WF_vars(RestoreStack \/ CleanUpReplaced)
  /\ WF_vars(status \in {"createFailed", "deleteFailed"} /\ RemoveStack)
  /\ WF_vars(\E p \in Templates : CreateStack(p))

FairSpec == Spec /\ Fairness

-----------------------------------------------------------------------------
Pcs == {"idle", "start", "loop", "create", "connect", "schemas", "close",
        "succeed", "except"}
Statuses == {"absent", "creating", "complete", "updating", "restoring",
             "replaced", "cleaning", "deleting", "createFailed",
             "updateFailed", "deleteFailed"}

(* Every variable has its type. *)
TypeOK ==
  /\ dbs \subseteq DbNames /\ schemas \subseteq SchemaNames
  /\ status \in Statuses /\ target \in Templates
  /\ live \in Templates \cup {None} /\ phys \in Slots \cup {None}
  /\ sent \in BOOLEAN
  /\ pc \in [Slots -> Pcs]
  /\ event \in [Slots -> [type : {"Create", "Update", "Delete"}, props : Templates]]
  /\ current \in [Slots -> BOOLEAN]
  /\ di \in [Slots -> Nat \ {0}] /\ si \in [Slots -> Nat \ {0}]
  /\ bound \in [Slots -> BOOLEAN]
  /\ faults \in 0..MaxFaults

\* what a SUCCESS answer for p promises
Provisioned(p) ==
  \A i \in DOMAIN p.databases :
    /\ p.databases[i] \in dbs
    /\ p.databases[i] = AppDb =>
         \A j \in DOMAIN p.schemas : p.schemas[j] \in schemas

(* While the resource is in service with properties p, every database and  *)
(* schema p lists exists: whatever runs were killed, duplicated or raced,  *)
(* whatever update failed and was rolled back, and although a changed log  *)
(* stream makes CloudFormation send a Delete for the replaced resource.    *)
LiveProvisioned == live # None => Provisioned(live)

(* Without a fault no request fails: deploying again over databases that   *)
(* already exist succeeds.                                                 *)
FaultFreeNeverFails ==
  faults = 0 => status \notin {"createFailed", "updateFailed", "deleteFailed"}

\* the iterations of run s before index k did their work
DoneBelow(s, k) ==
  LET p == event[s].props IN
  \A i \in DOMAIN p.databases : i < k =>
    /\ p.databases[i] \in dbs
    /\ p.databases[i] = AppDb =>
         \A j \in DOMAIN p.schemas : p.schemas[j] \in schemas

(* What a run has done, at each point of the handler. *)
RunOK(s) ==
  LET p == event[s].props IN
  /\ pc[s] \in {"loop", "create", "connect", "schemas", "close"} =>
       event[s].type # "Delete" /\ DoneBelow(s, di[s])
  /\ pc[s] \in {"create", "connect", "schemas", "close"} => More(s)
  /\ pc[s] \in {"connect", "schemas", "close"} => Db(s) \in dbs
  /\ pc[s] \in {"connect", "schemas"} => Db(s) = AppDb
  /\ pc[s] = "schemas" =>
       \A j \in DOMAIN p.schemas : j < si[s] => p.schemas[j] \in schemas
  /\ pc[s] = "close" /\ Db(s) = AppDb =>
       \A j \in DOMAIN p.schemas : p.schemas[j] \in schemas
  /\ pc[s] = "succeed" /\ event[s].type # "Delete" => Provisioned(p)

RunInv == \A s \in Slots : RunOK(s)

(* The run whose answer counts works on the outstanding request. *)
CurrentInv ==
  \A s \in Slots : Open /\ current[s] /\ pc[s] # "idle" =>
    event[s] = [type |-> EventType, props |-> target]

(* The properties in service exist whenever the resource is to be kept. *)
ServingInv ==
  /\ status \in {"complete", "updating", "updateFailed", "restoring",
                 "replaced", "cleaning"} => live # None
  /\ status = "cleaning" => live = target

(* The inductive invariant behind LiveProvisioned. *)
IInv == TypeOK /\ RunInv /\ CurrentInv /\ ServingInv /\ LiveProvisioned

(* However the earlier attempts were cut short, deploying again brings the *)
(* resource into service.                                                  *)
RetriesConverge == []<>(status = "complete")
=============================================================================
