-------------------------- MODULE DbCreator_proofs --------------------------
(***************************************************************************)
(* Proofs about DbCreator, for every set of templates, environments and    *)
(* faults: the inductive invariant IInv, from it type correctness and      *)
(* LiveProvisioned, and FaultFreeNeverFails.                               *)
(***************************************************************************)
EXTENDS DbCreator, TLAPS

USE DbCreatorAssumption

(* A template's lists are sequences of names. *)
LEMMA TemplateLists ==
  ASSUME NEW p \in Templates
  PROVE  /\ p.databases \in Seq(DbNames) /\ p.schemas \in Seq(SchemaNames)
         /\ DOMAIN p.databases = 1..Len(p.databases)
         /\ DOMAIN p.schemas = 1..Len(p.schemas)
         /\ Len(p.databases) \in Nat /\ Len(p.schemas) \in Nat
         /\ \A i \in DOMAIN p.databases : p.databases[i] \in DbNames
         /\ \A j \in DOMAIN p.schemas : p.schemas[j] \in SchemaNames
<1>1. p \in [databases : Seq(DbNames), schemas : Seq(SchemaNames)]
  OBVIOUS
<1>2. p.databases \in Seq(DbNames) /\ p.schemas \in Seq(SchemaNames)
  BY <1>1
<1>3. QED
  BY <1>2

(* Under the invariant a run that works on a list element works on a name. *)
LEMMA Elements ==
  ASSUME TypeOK, RunInv, NEW s \in Slots
  PROVE  /\ event[s] = [type |-> event[s].type, props |-> event[s].props]
         /\ event[s].type \in {"Create", "Update", "Delete"}
         /\ event[s].props \in Templates
         /\ pc[s] = "create" => Db(s) \in DbNames
         /\ pc[s] = "schemas" /\ MoreSchemas(s) => Schema(s) \in SchemaNames
<1>1. event[s] \in [type : {"Create", "Update", "Delete"}, props : Templates]
  BY DEF TypeOK
<1>2. event[s].props \in Templates
  BY <1>1
<1>3. di[s] \in Nat \ {0} /\ si[s] \in Nat \ {0}
  BY DEF TypeOK
<1>4. pc[s] = "create" => di[s] \in DOMAIN event[s].props.databases
  BY <1>2, <1>3, TemplateLists DEF RunInv, RunOK, More
<1>5. MoreSchemas(s) => si[s] \in DOMAIN event[s].props.schemas
  BY <1>2, <1>3, TemplateLists DEF MoreSchemas
<1>6. QED
  BY <1>1, <1>2, <1>4, <1>5, TemplateLists DEF Db, Schema

(* Type correctness is preserved, given what the runs have done so far. *)
LEMMA TypeStep ==
  ASSUME TypeOK, RunInv, ServingInv, [Next]_vars
  PROVE  TypeOK'
<1> USE DEF TypeOK, Pcs, Statuses, pg, cfn, locals, Quiet, Goto, Fault
<1>1. ASSUME NEW p \in Templates, CreateStack(p) PROVE TypeOK'
  BY <1>1 DEF CreateStack, Send
<1>2. ASSUME NEW p \in Templates, UpdateStack(p) PROVE TypeOK'
  BY <1>2 DEF UpdateStack, Send
<1>3. CASE RemoveStack
  BY <1>3 DEF RemoveStack, Send
<1>4. CASE RestoreStack
  BY <1>4 DEF RestoreStack, Send, ServingInv
<1>5. CASE CleanUpReplaced
  BY <1>5 DEF CleanUpReplaced, Send, ServingInv
<1>6. CASE RequestTimeout
  BY <1>6 DEF RequestTimeout, FailedRequest
<1>7. ASSUME NEW s \in Slots, Deliver(s) PROVE TypeOK'
  <2>1. EventType \in {"Create", "Update", "Delete"}
    BY DEF EventType
  <2>2. faults' \in 0..MaxFaults
    BY SMTT(30), <1>7 DEF Deliver
  <2>3. QED
    BY <1>7, <2>1, <2>2 DEF Deliver
<1>8. ASSUME NEW s \in Slots, Kill(s) PROVE TypeOK'
  BY SMTT(30), <1>8 DEF Kill
<1>9. ASSUME NEW s \in Slots, CallFails(s) PROVE TypeOK'
  BY SMTT(30), <1>9 DEF CallFails
<1>10. ASSUME NEW s \in Slots, Handler(s) PROVE TypeOK'
  <2>1. CASE Start(s)
    BY SMTT(30), <2>1 DEF Start
  <2>2. CASE Lookup(s)
    BY <2>2 DEF Lookup, Made
  <2>3. CASE CreateDatabase(s)
    BY <2>3, Elements DEF CreateDatabase, Made
  <2>4. CASE Connect(s)
    BY SMTT(30), <2>4 DEF Connect
  <2>5. CASE CreateSchema(s)
    BY SMTT(30), <2>5, Elements DEF CreateSchema
  <2>6. CASE SchemasDone(s)
    BY <2>6 DEF SchemasDone
  <2>7. CASE Close(s)
    BY SMTT(30), <2>7 DEF Close
  <2>8. CASE Answer(s)
    <3>1. status' \in Statuses /\ live' \in Templates \cup {None}
                               /\ phys' \in Slots \cup {None}
      BY <2>8 DEF Answer, Succeeded, FailedRequest
    <3>2. faults' \in 0..MaxFaults
      BY <2>8 DEF Answer, Succeeded, FailedRequest
    <3>3. QED
      BY <2>8, <3>1, <3>2 DEF Answer
  <2>9. QED
    BY <1>10, <2>1, <2>2, <2>3, <2>4, <2>5, <2>6, <2>7, <2>8 DEF Handler
<1>11. CASE UNCHANGED vars
  BY <1>11 DEF vars
<1>12. QED
  BY <1>1, <1>2, <1>3, <1>4, <1>5, <1>6, <1>7, <1>8, <1>9, <1>10, <1>11
     DEF Next, Operator

-----------------------------------------------------------------------------
(* Nothing in the module drops a database or a schema. *)
LEMMA Monotone ==
  ASSUME [Next]_vars
  PROVE  dbs \subseteq dbs' /\ schemas \subseteq schemas'
<1> USE DEF pg, cfn, locals, Quiet, Goto, Send
<1>1. ASSUME NEW s \in Slots, Handler(s)
      PROVE  dbs \subseteq dbs' /\ schemas \subseteq schemas'
  BY <1>1 DEF Handler, Start, Lookup, CreateDatabase, Connect, CreateSchema,
              SchemasDone, Close, Answer
<1>2. ASSUME NEW s \in Slots, Deliver(s) \/ Kill(s) \/ CallFails(s)
      PROVE  pg' = pg
  BY <1>2 DEF Deliver, Kill, CallFails
<1>3. CASE Operator \/ RestoreStack \/ CleanUpReplaced \/ RequestTimeout
  BY <1>3 DEF Operator, CreateStack, UpdateStack, RemoveStack, RestoreStack,
              CleanUpReplaced, RequestTimeout
<1>4. CASE UNCHANGED vars
  BY <1>4 DEF vars
<1>5. QED
  BY <1>1, <1>2, <1>3, <1>4 DEF Next

(* So what was provisioned stays provisioned ... *)
LEMMA ProvisionedStable ==
  ASSUME NEW p \in Templates, Provisioned(p),
         dbs \subseteq dbs', schemas \subseteq schemas'
  PROVE  Provisioned(p)'
BY DEF Provisioned

(* ... and a run that takes no step keeps what it has done. *)
LEMMA RunFrame ==
  ASSUME NEW t \in Slots, RunOK(t),
         dbs \subseteq dbs', schemas \subseteq schemas',
         pc'[t] = pc[t], event'[t] = event[t], di'[t] = di[t], si'[t] = si[t]
  PROVE  RunOK(t)'
BY DEF RunOK, DoneBelow, Provisioned, More, Db

(* Each step of the handler does its share of the work. *)
LEMMA RunStep ==
  ASSUME TypeOK, RunInv, [Next]_vars
  PROVE  RunInv'
<1> USE DEF pg, cfn, locals, Quiet, Goto
<1>0. dbs \subseteq dbs' /\ schemas \subseteq schemas'
  BY Monotone
<1>1. SUFFICES ASSUME NEW t \in Slots PROVE RunOK(t)'
  BY DEF RunInv
<1>2. RunOK(t)
  BY DEF RunInv
<1>3. /\ pc \in [Slots -> Pcs] /\ DOMAIN event = Slots
      /\ di \in [Slots -> Nat \ {0}] /\ si \in [Slots -> Nat \ {0}]
  BY DEF TypeOK
<1>4. event[t].props \in Templates
  BY Elements
<1>5. ASSUME pc'[t] = pc[t], event'[t] = event[t], di'[t] = di[t], si'[t] = si[t]
      PROVE  RunOK(t)'
  BY <1>0, <1>2, <1>5, RunFrame
<1>6. ASSUME pc'[t] \in {"idle", "start", "except"} PROVE RunOK(t)'
  BY <1>6 DEF RunOK
<1>7. CASE Operator \/ RestoreStack \/ CleanUpReplaced \/ RequestTimeout
  BY <1>5, <1>7 DEF Operator, CreateStack, UpdateStack, RemoveStack,
       RestoreStack, CleanUpReplaced, RequestTimeout, Send
<1>8. ASSUME NEW s \in Slots, Deliver(s) \/ Kill(s) \/ CallFails(s)
      PROVE  RunOK(t)'
  <2>1. CASE s = t
    <3>1. pc'[t] \in {"idle", "start", "except"}
      BY <1>3, <1>8, <2>1 DEF Deliver, Kill, CallFails
    <3>2. QED
      BY <1>6, <3>1
  <2>2. CASE s # t
    BY <1>3, <1>5, <1>8, <2>2 DEF Deliver, Kill, CallFails
  <2>3. QED
    BY <2>1, <2>2
<1>9. ASSUME NEW s \in Slots, Handler(s), s # t PROVE RunOK(t)'
  BY <1>3, <1>5, <1>9 DEF Handler, Start, Lookup, CreateDatabase, Connect,
       CreateSchema, SchemasDone, Close, Answer
<1>10. ASSUME Handler(t) PROVE RunOK(t)'
  <2> USE DEF RunOK, DoneBelow, Provisioned, More, Db, Made, MoreSchemas, Schema
  <2>0. /\ di[t] \in Nat \ {0} /\ si[t] \in Nat \ {0}
        /\ event[t].props.databases \in Seq(DbNames)
        /\ event[t].props.schemas \in Seq(SchemaNames)
    BY <1>3, <1>4, TemplateLists
  <2>1. CASE Start(t)
    BY <1>2, <1>3, <2>0, <2>1 DEF Start
  <2>2. CASE Lookup(t)
    BY <1>2, <1>3, <2>0, <2>2 DEF Lookup
  <2>3. CASE CreateDatabase(t)
    BY <1>2, <1>3, <2>0, <2>3 DEF CreateDatabase
  <2>4. CASE Connect(t)
    BY <1>2, <1>3, <2>0, <2>4 DEF Connect
  <2>5. CASE CreateSchema(t)
    BY <1>2, <1>3, <2>0, <2>5 DEF CreateSchema
  <2>6. CASE SchemasDone(t)
    BY <1>2, <1>3, <2>0, <2>6 DEF SchemasDone
  <2>7. CASE Close(t)
    BY <1>2, <1>3, <2>0, <2>7 DEF Close
  <2>8. CASE Answer(t)
    BY <1>3, <1>6, <2>8 DEF Answer
  <2>9. QED
    BY <1>10, <2>1, <2>2, <2>3, <2>4, <2>5, <2>6, <2>7, <2>8 DEF Handler
<1>11. CASE UNCHANGED vars
  BY <1>5, <1>11 DEF vars
<1>12. QED
  BY <1>7, <1>8, <1>9, <1>10, <1>11 DEF Next

-----------------------------------------------------------------------------
(* The run whose answer counts works on the outstanding request. *)
LEMMA CurrentStep ==
  ASSUME TypeOK, CurrentInv, [Next]_vars
  PROVE  CurrentInv'
<1> USE DEF pg, cfn, locals, Quiet, Goto, CurrentInv
<1>0. /\ pc \in [Slots -> Pcs] /\ DOMAIN event = Slots
      /\ current \in [Slots -> BOOLEAN]
  BY DEF TypeOK
<1>1. CASE Operator \/ RestoreStack \/ CleanUpReplaced
  <2>1. current' = [s \in Slots |-> FALSE]
    BY <1>1 DEF Operator, CreateStack, UpdateStack, RemoveStack, RestoreStack,
                CleanUpReplaced, Send
  <2>2. QED
    BY <2>1
<1>2. ASSUME FailedRequest PROVE ~Open'
  BY <1>2, Zenon DEF FailedRequest, Open
<1>3. ASSUME NEW s \in Slots, Succeeded(s) PROVE ~Open'
  BY <1>3, Zenon DEF Succeeded, Open
<1>4. CASE RequestTimeout
  BY <1>2, <1>4 DEF RequestTimeout
<1>5. ASSUME NEW s \in Slots, Deliver(s) PROVE CurrentInv'
  <2>1. EventType' = EventType
    BY <1>5 DEF Deliver, EventType
  <2>2. Open' = Open
    BY <1>5 DEF Deliver, Open
  <2>3. QED
    BY <1>0, <1>5, <2>1, <2>2 DEF Deliver
<1>6. ASSUME UNCHANGED cfn, event' = event, current' = current,
             \A t \in Slots : pc[t] = "idle" => pc'[t] = "idle"
      PROVE  CurrentInv'
  <2>1. EventType' = EventType /\ Open' = Open
    BY <1>6 DEF EventType, Open
  <2>2. QED
    BY <1>6, <2>1
<1>7. ASSUME NEW s \in Slots, Kill(s) \/ CallFails(s) PROVE CurrentInv'
  BY <1>0, <1>6, <1>7 DEF Kill, CallFails
<1>8. ASSUME NEW s \in Slots, Handler(s) PROVE CurrentInv'
  <2>1. CASE Answer(s)
    <3>1. CASE UNCHANGED <<status, live, phys>>
      BY <1>0, <1>6, <2>1, <3>1 DEF Answer
    <3>2. CASE ~UNCHANGED <<status, live, phys>>
      BY <1>2, <1>3, <2>1, <3>2 DEF Answer
    <3>3. QED
      BY <3>1, <3>2
  <2>2. CASE ~Answer(s)
    BY <1>0, <1>6, <1>8, <2>2 DEF Handler, Start, Lookup, CreateDatabase,
         Connect, CreateSchema, SchemasDone, Close
  <2>3. QED
    BY <2>1, <2>2
<1>9. CASE UNCHANGED vars
  BY <1>6, <1>9 DEF vars
<1>10. QED
  BY <1>1, <1>4, <1>5, <1>7, <1>8, <1>9 DEF Next

(* What settles a request, seen from ServingInv: the properties in service *)
(* are those of the request, or those that were in service before it.      *)
LEMMA ServingStep ==
  ASSUME TypeOK, ServingInv, [Next]_vars
  PROVE  ServingInv'
<1> USE DEF pg, cfn, locals, Quiet, Goto, ServingInv
<1>0. target \in Templates /\ None \notin Templates
  BY DEF TypeOK
<1>1. ASSUME NEW p \in Templates, CreateStack(p) \/ UpdateStack(p)
      PROVE  ServingInv'
  BY <1>1 DEF CreateStack, UpdateStack, Send
<1>2. CASE RemoveStack \/ RestoreStack \/ CleanUpReplaced
  BY <1>2 DEF RemoveStack, RestoreStack, CleanUpReplaced, Send
<1>3. ASSUME FailedRequest, Open PROVE ServingInv'
  <2>1. \/ status = "creating" /\ status' = "createFailed"
        \/ status = "deleting" /\ status' = "deleteFailed"
        \/ status = "cleaning" /\ status' = "complete"
        \/ status \in {"updating", "restoring"} /\ status' = "updateFailed"
    BY <1>3, Zenon DEF FailedRequest, Open
  <2>2. QED
    BY <1>3, <2>1 DEF FailedRequest
<1>4. ASSUME NEW s \in Slots, Succeeded(s), Open PROVE ServingInv'
  <2>1. \/ status = "deleting" /\ status' = "absent"
        \/ status # "deleting" /\ status' \in {"replaced", "complete"}
    BY <1>4, Zenon DEF Succeeded, Open
  <2>2. QED
    BY <1>0, <1>4, <2>1 DEF Succeeded
<1>5. CASE RequestTimeout
  BY <1>3, <1>5 DEF RequestTimeout
<1>6. ASSUME NEW s \in Slots, Deliver(s) \/ Kill(s) \/ CallFails(s)
      PROVE  ServingInv'
  BY <1>6 DEF Deliver, Kill, CallFails
<1>7. ASSUME NEW s \in Slots, Handler(s) PROVE ServingInv'
  <2>1. CASE Answer(s)
    BY <1>3, <1>4, <2>1 DEF Answer
  <2>2. CASE ~Answer(s)
    BY <1>7, <2>2 DEF Handler, Start, Lookup, CreateDatabase, Connect,
         CreateSchema, SchemasDone, Close
  <2>3. QED
    BY <2>1, <2>2
<1>8. CASE UNCHANGED vars
  BY <1>8 DEF vars
<1>9. QED
  BY <1>1, <1>2, <1>5, <1>6, <1>7, <1>8 DEF Next, Operator

(* A SUCCESS that counts comes from a run that provisioned the target. *)
LEMMA LiveStep ==
  ASSUME IInv, [Next]_vars
  PROVE  LiveProvisioned'
<1> USE DEF IInv, LiveProvisioned
<1>0. /\ dbs \subseteq dbs' /\ schemas \subseteq schemas'
      /\ target \in Templates /\ live \in Templates \cup {None}
  BY Monotone DEF TypeOK
<1>1. CASE live' = live
  BY <1>0, <1>1, ProvisionedStable DEF Provisioned
<1>2. CASE live' # live /\ live' # None
  <2>1. PICK s \in Slots : /\ pc[s] = "succeed" /\ current[s] /\ Open
                           /\ Succeeded(s)
    BY <1>2 DEF Next, Operator, CreateStack, UpdateStack, RemoveStack,
         RestoreStack, CleanUpReplaced, RequestTimeout, FailedRequest, Deliver,
         Kill, CallFails, Handler, Start, Lookup, CreateDatabase, Connect,
         CreateSchema, SchemasDone, Close, Answer, Quiet, cfn, vars
  <2>2. live' = target /\ status # "deleting"
    BY <1>2, <2>1 DEF Succeeded
  <2>3. event[s].type = EventType /\ event[s].props = target
    BY <2>1 DEF CurrentInv
  <2>4. status # "cleaning"
    BY <1>2, <2>2 DEF ServingInv
  <2>5. EventType # "Delete"
    BY <2>1, <2>2, <2>4, Zenon DEF EventType, Open
  <2>6. Provisioned(target)
    BY <2>1, <2>3, <2>5 DEF RunInv, RunOK
  <2>7. QED
    BY <1>0, <2>2, <2>6, ProvisionedStable DEF Provisioned
<1>3. QED
  BY <1>1, <1>2

(* IInv holds of the initial states and every step preserves it. *)
THEOREM Inductive == Spec => []IInv
<1>1. Init => IInv
  <2> SUFFICES ASSUME Init PROVE IInv
    OBVIOUS
  <2>1. TypeOK
    <3>1. event \in [Slots -> [type : {"Create", "Update", "Delete"}, props : Templates]]
      <4>1. [type |-> "Delete", props |-> target]
              \in [type : {"Create", "Update", "Delete"}, props : Templates]
        BY DEF Init
      <4>2. QED
        BY <4>1 DEF Init
    <3>2. faults \in 0..MaxFaults
      BY DEF Init
    <3>3. /\ pc \in [Slots -> Pcs] /\ di \in [Slots -> Nat \ {0}]
          /\ si \in [Slots -> Nat \ {0}] /\ bound \in [Slots -> BOOLEAN]
          /\ current \in [Slots -> BOOLEAN]
      BY DEF Init, Pcs
    <3>4. QED
      BY <3>1, <3>2, <3>3 DEF Init, TypeOK, Statuses
  <2>2. RunInv /\ CurrentInv /\ ServingInv /\ LiveProvisioned
    BY DEF Init, RunInv, RunOK, CurrentInv, ServingInv, LiveProvisioned, Open
  <2>3. QED
    BY <2>1, <2>2 DEF IInv
<1>2. IInv /\ [Next]_vars => IInv'
  BY TypeStep, RunStep, CurrentStep, ServingStep, LiveStep DEF IInv
<1>3. QED
  BY <1>1, <1>2, PTL DEF Spec

(* Every variable keeps its type; in particular no index leaves the lists, *)
(* so each database and schema the handler creates is one the template     *)
(* names.                                                                  *)
THEOREM TypeCorrect == Spec => []TypeOK
<1>1. IInv => TypeOK
  BY DEF IInv
<1>2. QED
  BY <1>1, Inductive, PTL

(* Whatever is killed, duplicated, lost or rolled back, the properties in  *)
(* service are provisioned.                                                *)
THEOREM LiveIsProvisioned == Spec => []LiveProvisioned
<1>1. IInv => LiveProvisioned
  BY DEF IInv
<1>2. QED
  BY <1>1, Inductive, PTL
-----------------------------------------------------------------------------
(* A template that lists databases begins with the application's, or       *)
(* db_conn is not assigned where the handler closes it first.              *)
AppDbFirst ==
  \A p \in Templates : p.databases # <<>> => p.databases[1] = AppDb

(* A run without a fault: it is the only one, works on the outstanding     *)
(* event, finds databases that are to be made missing, and has db_conn     *)
(* when it closes it.                                                      *)
CleanRun(s) ==
  /\ pc[s] # "idle" => Open /\ sent /\ current[s]
  /\ \A t \in Slots : pc[s] # "idle" /\ pc[t] # "idle" => s = t
  /\ pc[s] # "except"
  /\ pc[s] = "create" => Db(s) \notin dbs
  /\ pc[s] \in {"loop", "create", "connect", "schemas", "close"} /\ di[s] > 1 => bound[s]
  /\ pc[s] = "schemas" => bound[s]
  /\ pc[s] = "close" /\ Db(s) = AppDb => bound[s]

CleanInv ==
  faults = 0 =>
    /\ status \notin {"createFailed", "updateFailed", "deleteFailed"}
    /\ Open /\ sent => \E s \in Slots : current[s] /\ pc[s] # "idle"
    /\ \A s \in Slots : CleanRun(s)

(* What the handler's steps do to one that has met no fault.               *)
LEMMA CleanRunStep ==
  ASSUME AppDbFirst, TypeOK, RunInv, NEW s \in Slots, Handler(s), ~Answer(s),
         \A t \in Slots : CleanRun(t)
  PROVE  /\ pc'[s] \in Pcs \ {"idle", "except"}
         /\ \A t \in Slots : CleanRun(t)'
<1> USE DEF pg, cfn, locals, Quiet, Goto
<1>0. /\ pc \in [Slots -> Pcs] /\ bound \in [Slots -> BOOLEAN]
      /\ di \in [Slots -> Nat \ {0}] /\ si \in [Slots -> Nat \ {0}]
  BY DEF TypeOK
<1>1. event[s].props \in Templates /\ event[s].props.databases \in Seq(DbNames)
  BY Elements, TemplateLists
<1>2. CleanRun(s) /\ RunOK(s)
  BY DEF RunInv
<1>3. pc[s] # "idle" /\ Open /\ sent /\ current[s]
  <2>1. pc[s] # "idle"
    BY DEF Handler, Start, Lookup, CreateDatabase, Connect, CreateSchema, SchemasDone, Close
  <2>2. QED
    BY <1>2, <2>1 DEF CleanRun
<1>4. UNCHANGED <<event, status, sent, current>> /\ Open'
  BY <1>3 DEF Handler, Start, Lookup, CreateDatabase, Connect, CreateSchema, SchemasDone,
       Close, Open
<1>5. \A t \in Slots \ {s} :
        /\ pc[t] = "idle" /\ pc'[t] = pc[t]
  BY <1>0, <1>2, <1>3 DEF CleanRun, Handler, Start, Lookup, CreateDatabase, Connect,
       CreateSchema, SchemasDone, Close
<1>6. ASSUME NEW t \in Slots \ {s} PROVE CleanRun(t)'
  BY <1>5 DEF CleanRun
<1>7. SUFFICES /\ pc'[s] \in Pcs \ {"idle", "except"}
               /\ pc'[s] = "create" => Db(s)' \notin dbs'
               /\ pc'[s] \in {"loop", "create", "connect", "schemas", "close"} /\ di'[s] > 1
                    => bound'[s]
               /\ pc'[s] = "schemas" => bound'[s]
               /\ pc'[s] = "close" /\ Db(s)' = AppDb => bound'[s]
  BY <1>3, <1>4, <1>5, <1>6 DEF CleanRun
<1>8. pc[s] = "close" => bound[s]
  <2>1. SUFFICES ASSUME pc[s] = "close", di[s] = 1 PROVE Db(s) = AppDb
    BY <1>0, <1>2 DEF CleanRun
  <2>2. event[s].props.databases # <<>>
    BY <1>1, <1>2, <2>1 DEF RunOK, More
  <2>3. QED
    BY <1>1, <2>1, <2>2 DEF AppDbFirst, Db
<1>9. CASE Start(s)
  BY <1>0, <1>9 DEF Start, Pcs
<1>10. CASE Lookup(s)
  BY <1>0, <1>2, <1>10 DEF Lookup, Made, Pcs, CleanRun, Db
<1>11. CASE CreateDatabase(s)
  BY <1>0, <1>2, <1>11 DEF CreateDatabase, Made, Pcs, CleanRun, Db
<1>12. CASE Connect(s)
  BY <1>0, <1>2, <1>12 DEF Connect, Pcs, CleanRun
<1>13. CASE CreateSchema(s) \/ SchemasDone(s)
  BY <1>0, <1>2, <1>13 DEF CreateSchema, SchemasDone, Pcs, CleanRun
<1>14. CASE Close(s)
  BY <1>0, <1>2, <1>8, <1>14 DEF Close, Pcs
<1>15. QED
  BY <1>9, <1>10, <1>11, <1>12, <1>13, <1>14 DEF Handler

(* Without a fault the one run of every request ends in a success, so no   *)
(* request fails or times out.                                             *)
LEMMA CleanStep ==
  ASSUME AppDbFirst, TypeOK, RunInv, CleanInv, [Next]_vars
  PROVE  CleanInv'
<1> USE DEF pg, cfn, locals, Quiet
<1>0. /\ pc \in [Slots -> Pcs] /\ current \in [Slots -> BOOLEAN] /\ faults \in Nat
  BY DEF TypeOK
<1>1. ASSUME faults' = 0 PROVE faults = 0 /\ ~Fault
  <2>1. faults' \in {faults, faults + 1}
    BY DEF Next, Operator, CreateStack, UpdateStack, RemoveStack, RestoreStack, CleanUpReplaced,
         Send, RequestTimeout, Deliver, Kill, CallFails, Handler, Start, Lookup, CreateDatabase,
         Connect, CreateSchema, SchemasDone, Close, Answer, Fault, vars
  <2>2. QED
    BY <1>0, <1>1, <2>1 DEF Fault
<1>2. SUFFICES ASSUME faults' = 0 PROVE CleanInv'
  BY DEF CleanInv
<1>3. /\ status \notin {"createFailed", "updateFailed", "deleteFailed"}
      /\ Open /\ sent => \E s \in Slots : current[s] /\ pc[s] # "idle"
      /\ \A s \in Slots : CleanRun(s)
  BY <1>1, <1>2 DEF CleanInv
<1>4. CASE Operator \/ RestoreStack \/ CleanUpReplaced
  <2>1. ~Open /\ pc' = pc /\ sent' = FALSE
        /\ status' \in {"creating", "updating", "restoring", "cleaning", "deleting"}
    BY <1>4 DEF Operator, CreateStack, UpdateStack, RemoveStack, RestoreStack, CleanUpReplaced,
         Send, Open
  <2>2. \A s \in Slots : pc[s] = "idle"
    BY <1>3, <2>1 DEF CleanRun
  <2>3. QED
    BY <2>1, <2>2 DEF CleanInv, CleanRun
<1>5. CASE RequestTimeout
  BY <1>3, <1>5 DEF RequestTimeout
<1>6. ASSUME NEW s \in Slots, Deliver(s) PROVE CleanInv'
  <2>1. ~sent
    BY <1>1, <1>2, <1>6 DEF Deliver
  <2>2. \A t \in Slots : pc[t] = "idle"
    BY <1>3, <2>1 DEF CleanRun
  <2>3. /\ pc' = [pc EXCEPT ![s] = "start"] /\ current'[s] /\ sent' /\ Open'
        /\ status' = status
    BY <1>0, <1>6 DEF Deliver, Open
  <2>4. pc'[s] = "start" /\ \A t \in Slots \ {s} : pc'[t] = "idle"
    BY <1>0, <2>2, <2>3
  <2>5. QED
    BY <1>3, <2>3, <2>4 DEF CleanInv, CleanRun
<1>7. ASSUME NEW s \in Slots, Kill(s) \/ CallFails(s) PROVE CleanInv'
  BY <1>1, <1>2, <1>7 DEF Kill, CallFails
<1>8. ASSUME NEW s \in Slots, Answer(s) PROVE CleanInv'
  <2>1. pc[s] = "succeed" /\ Open /\ current[s]
    BY <1>3, <1>8 DEF Answer, CleanRun
  <2>2. Succeeded(s)
    BY <1>1, <1>2, <1>8, <2>1 DEF Answer
  <2>3. status' \in {"absent", "replaced", "complete"}
    BY <2>2, Zenon DEF Succeeded
  <2>4. ~Open'
    BY <2>3 DEF Open
  <2>5. \A t \in Slots : pc'[t] = "idle"
    BY <1>0, <1>3, <1>8, <2>1 DEF Answer, CleanRun
  <2>6. QED
    BY <2>3, <2>4, <2>5 DEF CleanInv, CleanRun
<1>9. ASSUME NEW s \in Slots, Handler(s), ~Answer(s) PROVE CleanInv'
  <2>1. /\ pc'[s] \in Pcs \ {"idle", "except"}
        /\ \A t \in Slots : CleanRun(t)'
    BY <1>3, <1>9, CleanRunStep
  <2>2. status' = status /\ current'[s]
    <3>1. pc[s] # "idle"
      BY <1>9 DEF Handler, Start, Lookup, CreateDatabase, Connect, CreateSchema, SchemasDone,
           Close, Goto
    <3>2. current[s] /\ current' = current /\ status' = status
      BY <1>3, <1>9, <3>1 DEF CleanRun, Handler, Start, Lookup, CreateDatabase, Connect,
           CreateSchema, SchemasDone, Close
    <3>3. QED
      BY <3>2
  <2>3. QED
    BY <1>3, <2>1, <2>2 DEF CleanInv
<1>10. CASE UNCHANGED vars
  BY <1>3, <1>10 DEF vars, CleanInv, CleanRun, Open, Db
<1>11. QED
  BY <1>4, <1>5, <1>6, <1>7, <1>8, <1>9, <1>10 DEF Next

(* Provided the application's database is listed first: without a fault    *)
(* no request fails, be it the first or one over what is already there,    *)
(* whatever templates follow each other.                                   *)
THEOREM FaultFreeAlwaysSucceeds ==
  ASSUME AppDbFirst
  PROVE  Spec => []FaultFreeNeverFails
<1>1. Init => CleanInv
  BY DEF Init, CleanInv, CleanRun, Open
<1>2. IInv => TypeOK /\ RunInv
  BY DEF IInv
<1>3. TypeOK /\ RunInv /\ CleanInv /\ [Next]_vars => CleanInv'
  BY CleanStep
<1>4. CleanInv => FaultFreeNeverFails
  BY DEF CleanInv, FaultFreeNeverFails
<1>5. QED
  BY Inductive, <1>1, <1>2, <1>3, <1>4, PTL DEF Spec
=============================================================================
