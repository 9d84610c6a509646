----------------------- MODULE FargateServices_proofs -----------------------
(***************************************************************************)
(* Proofs about FargateServices, for any services, edges, desired counts,  *)
(* breakers and bounds.                                                    *)
(***************************************************************************)
EXTENDS FargateServices, TLAPS

USE ServicesAssumption

(* What the actions do to CloudFormation's view of the stack. *)
LEMMA CfnStep ==
  ASSUME [Next]_vars
  PROVE  [Cfn!Next]_(Cfn!vars)
<1> USE DEF Cfn!vars, Cfn!Next, stackVars
<1>1. CASE StackStep
  BY <1>1 DEF StackStep
<1>2. ASSUME NEW s \in Services, Stack(s) \/ CancelCreate(s) PROVE [Cfn!Next]_(Cfn!vars)
  <2>1. CASE CreateService(s) \/ ServiceCreated(s) \/ ServiceFails(s) \/ CancelCreate(s)
             \/ DeleteService(s) \/ ServiceDeleted(s)
    BY <2>1 DEF CreateService, ServiceCreated, ServiceFails, CancelCreate, DeleteService,
                ServiceDeleted
  <2>2. CASE UpdateService(s) \/ ServiceUpdated(s) \/ UpdateFails(s)
    BY <2>2 DEF UpdateService, ServiceUpdated, UpdateFails, RollTo
  <2>3. QED
    BY <1>2, <2>1, <2>2 DEF Stack
<1>3. ASSUME NEW s \in Services, Ecs(s) \/ TaskFails(s) \/ Crash(s)
      PROVE  UNCHANGED stackVars
  BY <1>3 DEF Ecs, StartTask, TaskUp, TaskFails, StopOld, Drain, Crash
<1>4. ASSUME EndUpdate \/ (\E changed \in (SUBSET Services) \ {{}} : BeginUpdate(changed))
             \/ UNCHANGED vars
      PROVE  UNCHANGED stackVars
  BY <1>4 DEF EndUpdate, BeginUpdate, RollTo, vars
<1>5. QED
  BY <1>1, <1>2, <1>3, <1>4 DEF Next

LEMMA TypeInit == Init => TypeOK
BY DEF Init, TypeOK, Cfn!Init, Cfn!TypeOK

LEMMA CfnTypeStep == Cfn!TypeOK /\ [Cfn!Next]_(Cfn!vars) => Cfn!TypeOK'
BY DEF Cfn!TypeOK, Cfn!Next, Cfn!vars, Cfn!BeginCreate, Cfn!Created, Cfn!BeginDelete,
       Cfn!Gone, Cfn!Start, Cfn!Finish, Cfn!Fail, Cfn!Remove, Cfn!Removed,
       Cfn!RemoveFails, Cfn!Creatable, Cfn!Removable

LEMMA TypeStep ==
  ASSUME TypeOK, [Next]_vars
  PROVE  TypeOK'
<1>0. Cfn!TypeOK'
  BY CfnStep, CfnTypeStep DEF TypeOK
<1> USE <1>0 DEF TypeOK, rollVars, tasks, deps, Quiet, Fault
<1>1. CASE StackStep
  BY <1>1 DEF StackStep
<1>2. ASSUME NEW s \in Services, CreateService(s) PROVE TypeOK'
  <2>1. PICK g \in BOOLEAN : Deploy(s, g)
    BY <1>2 DEF CreateService
  <2>2. Endpoints \subseteq Services
    BY DEF Endpoints
  <2>3. /\ sees' \in [Services -> SUBSET Services] /\ oldSees' \in [Services -> SUBSET Services]
        /\ first' \subseteq Services /\ oldFirst' \subseteq Services
        /\ bad' \in 0..MaxBad
    BY <2>1, <2>2 DEF Deploy
  <2>4. QED
    BY <1>2, <2>1, <2>3 DEF CreateService, Deploy
<1>3. ASSUME NEW s \in Services, ServiceCreated(s) PROVE TypeOK'
  BY <1>3 DEF ServiceCreated, Complete
<1>4. ASSUME NEW s \in Services, ServiceFails(s) \/ DeleteService(s) PROVE TypeOK'
  BY <1>4 DEF ServiceFails, DeleteService
<1>5. ASSUME NEW s \in Services, CancelCreate(s) PROVE TypeOK'
  BY <1>5 DEF CancelCreate
<1>6. ASSUME NEW s \in Services, ServiceDeleted(s) PROVE TypeOK'
  BY <1>6 DEF ServiceDeleted
<1>7. ASSUME NEW s \in Services, UpdateService(s) PROVE TypeOK'
  <2>1. PICK g \in BOOLEAN : Deploy(s, g)
    BY <1>7 DEF UpdateService
  <2>2. Endpoints \subseteq Services
    BY DEF Endpoints
  <2>3. /\ sees' \in [Services -> SUBSET Services] /\ oldSees' \in [Services -> SUBSET Services]
        /\ first' \subseteq Services /\ oldFirst' \subseteq Services
        /\ bad' \in 0..MaxBad
    BY <2>1, <2>2 DEF Deploy
  <2>4. QED
    BY <1>7, <2>1, <2>3 DEF UpdateService, Deploy
<1>8. ASSUME NEW s \in Services, ServiceUpdated(s) PROVE TypeOK'
  BY <1>8 DEF ServiceUpdated, Complete
<1>9. ASSUME NEW s \in Services, UpdateFails(s) PROVE TypeOK'
  BY <1>9 DEF UpdateFails, RollTo
<1>10. ASSUME NEW s \in Services, StartTask(s) PROVE TypeOK'
  BY <1>10 DEF StartTask
<1>11. ASSUME NEW s \in Services, TaskUp(s) PROVE TypeOK'
  BY <1>11 DEF TaskUp
<1>12. ASSUME NEW s \in Services, TaskFails(s) PROVE TypeOK'
  <2>1. faults' \in 0..MaxFaults
    BY <1>12 DEF TaskFails
  <2>2. QED
    BY <1>12, <2>1 DEF TaskFails
<1>13. ASSUME NEW s \in Services, StopOld(s) PROVE TypeOK'
  BY <1>13 DEF StopOld
<1>14. ASSUME NEW s \in Services, Drain(s) PROVE TypeOK'
  BY <1>14 DEF Drain
<1>15. ASSUME NEW s \in Services, Crash(s) PROVE TypeOK'
  BY <1>15 DEF Crash
<1>16. CASE EndUpdate
  BY <1>16 DEF EndUpdate, RollTo
<1>17. ASSUME NEW changed \in (SUBSET Services) \ {{}}, BeginUpdate(changed) PROVE TypeOK'
  BY <1>17 DEF BeginUpdate, RollTo
<1>18. CASE UNCHANGED vars
  BY <1>18 DEF vars, stackVars
<1>19. QED
  BY <1>1, <1>2, <1>3, <1>4, <1>5, <1>6, <1>7, <1>8, <1>9, <1>10, <1>11, <1>12, <1>13,
     <1>14, <1>15, <1>16, <1>17, <1>18 DEF Next, Ecs, Stack

(* FargateServices is type correct; so no count of tasks is ever negative. *)
THEOREM TypeCorrect == Spec => []TypeOK
<1>1. TypeOK /\ [Next]_vars => TypeOK'
  BY TypeStep
<1>2. QED
  BY TypeInit, <1>1, PTL DEF Spec

-----------------------------------------------------------------------------
(* The stack and its update: what a service needs is in service while the  *)
(* service is there, an update only runs on a stack in service, and a      *)
(* service that is not there has no tasks.                                 *)
Ordered ==
  /\ \A s \in Services : res[s] # "absent" => \A n \in Needs[s] : res[n] = "live"
  /\ phase = "live" => \A s \in Services : res[s] = "live"
  /\ roll # "none" => phase = "live"
  /\ roll = "none" => todo = {} /\ rolling = {}
  /\ \A s \in Services : res[s] = "absent" => starting[s] = 0 /\ up[s] = 0 /\ old[s] = 0

LEMMA OrderedStep ==
  ASSUME TypeOK, Ordered, [Next]_vars
  PROVE  Ordered'
<1> USE DEF TypeOK, Ordered, Cfn!TypeOK, stackVars, rollVars, tasks, Quiet, RollTo
<1>1. CASE StackStep
  BY <1>1 DEF StackStep, Cfn!BeginCreate, Cfn!Created, Cfn!BeginDelete, Cfn!Gone
<1>2. ASSUME NEW s \in Services, CreateService(s) PROVE Ordered'
  BY <1>2 DEF CreateService, Deploy, Cfn!Start, Cfn!Creatable
<1>3. ASSUME NEW s \in Services, ServiceCreated(s) PROVE Ordered'
  BY <1>3 DEF ServiceCreated, Complete, Cfn!Finish
<1>4. ASSUME NEW s \in Services, ServiceFails(s) \/ CancelCreate(s) PROVE Ordered'
  BY <1>4 DEF ServiceFails, CancelCreate, Cfn!Fail
<1>5. ASSUME NEW s \in Services, DeleteService(s) PROVE Ordered'
  BY <1>5 DEF DeleteService, Cfn!Remove, Cfn!Removable
<1>6. ASSUME NEW s \in Services, ServiceDeleted(s) PROVE Ordered'
  <2>1. /\ phase # "live" /\ res[s] = "deleting" /\ res' = [res EXCEPT ![s] = "absent"]
        /\ UNCHANGED <<phase, starting, up, old, roll, todo, rolling>>
    BY <1>6 DEF ServiceDeleted, Cfn!Removed
  <2>2. starting[s] = 0 /\ up[s] = 0 /\ old[s] = 0
    <3>1. starting[s] + up[s] + old[s] = 0
      BY <1>6 DEF ServiceDeleted, Running
    <3>2. starting[s] \in Nat /\ up[s] \in Nat /\ old[s] \in Nat
      OBVIOUS
    <3>3. QED
      BY <3>1, <3>2
  <2>3. /\ res'[s] = "absent"
        /\ \A t \in Services \ {s} : res'[t] = res[t]
    BY <2>1
  <2>4. \A t \in Services : res'[t] # "absent" => \A n \in Needs[t] : res'[n] = "live"
    BY <2>1, <2>3
  <2>5. \A t \in Services :
          res'[t] = "absent" => starting'[t] = 0 /\ up'[t] = 0 /\ old'[t] = 0
    BY <2>1, <2>2, <2>3
  <2>6. QED
    BY <2>1, <2>4, <2>5
<1>7. ASSUME NEW s \in Services, UpdateService(s) PROVE Ordered'
  BY <1>7 DEF UpdateService, Deploy
<1>8. ASSUME NEW s \in Services, ServiceUpdated(s) PROVE Ordered'
  BY <1>8 DEF ServiceUpdated, Complete
<1>9. ASSUME NEW s \in Services, UpdateFails(s) PROVE Ordered'
  BY <1>9 DEF UpdateFails
<1>10. ASSUME NEW s \in Services, StartTask(s) \/ TaskUp(s) \/ TaskFails(s) \/ StopOld(s)
       PROVE  Ordered'
  BY <1>10 DEF StartTask, TaskUp, TaskFails, StopOld, Deployed
<1>11. ASSUME NEW s \in Services, Drain(s) PROVE Ordered'
  BY <1>11 DEF Drain
<1>12. ASSUME NEW s \in Services, Crash(s) PROVE Ordered'
  BY <1>12 DEF Crash
<1>13. ASSUME EndUpdate \/ \E changed \in (SUBSET Services) \ {{}} : BeginUpdate(changed)
       PROVE  Ordered'
  BY <1>13 DEF EndUpdate, BeginUpdate
<1>14. CASE UNCHANGED vars
  BY <1>14 DEF vars
<1>15. QED
  BY <1>1, <1>2, <1>3, <1>4, <1>5, <1>6, <1>7, <1>8, <1>9, <1>10, <1>11, <1>12, <1>13,
     <1>14 DEF Next, Ecs, Stack

LEMMA AlwaysOrdered == Spec => [](TypeOK /\ Ordered)
<1>1. Init => TypeOK /\ Ordered
  BY TypeInit DEF Init, Ordered, Cfn!Init
<1>2. TypeOK /\ Ordered /\ [Next]_vars => (TypeOK /\ Ordered)'
  BY TypeStep, OrderedStep
<1>3. QED
  BY <1>1, <1>2, PTL DEF Spec

-----------------------------------------------------------------------------
(* The application declares an edge to every service its tasks call, but   *)
(* for those it can be configured without, and all have an endpoint.       *)
BackendsFirst ==
  \A s \in Services :
    Backends[s] \subseteq Discoverable /\ Backends[s] \ Optional \subseteq Needs[s]

(* A deployment began with the endpoints of the backends in the namespace, *)
(* all of them if it is an update's.                                       *)
Began(s, endpoints, atCreation) ==
  /\ Backends[s] \ Optional \subseteq endpoints
  /\ ~atCreation => Backends[s] \subseteq endpoints

(* So did the one in progress, and the earlier ones that tasks are left of. *)
Resolved ==
  \A s \in Services :
    /\ res[s] # "absent" => Began(s, sees[s], s \in first)
    /\ old[s] > 0 => Began(s, oldSees[s], s \in oldFirst)

LEMMA DeployResolves ==
  ASSUME BackendsFirst, TypeOK, Ordered, Resolved, NEW s \in Services, NEW g \in BOOLEAN,
         Deploy(s, g), \A n \in Needs[s] : res[n] = "live", phase \in {"creating", "live"}
  PROVE  /\ Began(s, sees'[s], s \in first')
         /\ old'[s] > 0 => Began(s, oldSees'[s], s \in oldFirst')
         /\ \A t \in Services \ {s} :
              /\ sees'[t] = sees[t] /\ oldSees'[t] = oldSees[t] /\ old'[t] = old[t]
              /\ (t \in first') = (t \in first) /\ (t \in oldFirst') = (t \in oldFirst)
<1>1. Backends[s] \ Optional \subseteq Endpoints
  BY DEF BackendsFirst, Endpoints
<1>2. phase = "live" => Backends[s] \subseteq Endpoints
  BY DEF BackendsFirst, Endpoints, Ordered, TypeOK
<1>3. sees'[s] = Endpoints /\ (s \notin first' => phase = "live")
  BY DEF Deploy, TypeOK
<1>4. Began(s, sees'[s], s \in first')
  BY <1>1, <1>2, <1>3 DEF Began
<1>5. ASSUME old'[s] > 0 PROVE Began(s, oldSees'[s], s \in oldFirst')
  <2>1. CASE res[s] = "absent"
    BY <1>5, <2>1 DEF Deploy, TypeOK, Ordered
  <2>2. CASE res[s] # "absent"
    <3>1. Began(s, sees[s], s \in first)
      BY <2>2 DEF Resolved
    <3>2. CASE old[s] = 0
      <4>1. oldSees'[s] = sees[s] /\ (s \in oldFirst' <=> s \in first)
        BY <1>5, <3>2 DEF Deploy, TypeOK
      <4>2. QED
        BY <3>1, <4>1 DEF Began
    <3>3. CASE old[s] > 0 /\ up[s] = 0
      <4>1. oldSees'[s] = oldSees[s] /\ (s \in oldFirst' <=> s \in oldFirst)
        BY <3>3 DEF Deploy, TypeOK
      <4>2. QED
        BY <3>3, <4>1 DEF Began, Resolved
    <3>4. CASE old[s] > 0 /\ up[s] > 0
      <4>1. /\ oldSees'[s] = oldSees[s] \cap sees[s]
            /\ s \in oldFirst' <=> s \in oldFirst \/ s \in first
        BY <3>4 DEF Deploy, TypeOK
      <4>2. QED
        BY <3>1, <3>4, <4>1 DEF Began, Resolved
    <3>5. QED
      BY <3>2, <3>3, <3>4 DEF TypeOK
  <2>3. QED
    BY <2>1, <2>2
<1>6. QED
  BY <1>4, <1>5 DEF Deploy, TypeOK

LEMMA ResolvedStep ==
  ASSUME BackendsFirst, TypeOK, Ordered, Resolved, [Next]_vars
  PROVE  Resolved'
<1> USE DEF TypeOK, Resolved, Cfn!TypeOK, stackVars, tasks, deps, Quiet, RollTo
<1>1. CASE StackStep
  BY <1>1 DEF StackStep, Cfn!BeginCreate, Cfn!Created, Cfn!BeginDelete, Cfn!Gone, Began
<1>2. ASSUME NEW s \in Services, CreateService(s) PROVE Resolved'
  <2>1. PICK g \in BOOLEAN : Deploy(s, g)
    BY <1>2 DEF CreateService
  <2>2. /\ \A n \in Needs[s] : res[n] = "live"
        /\ phase = "creating"
        /\ \A t \in Services \ {s} : res'[t] = res[t]
    BY <1>2 DEF CreateService, Cfn!Start, Cfn!Creatable
  <2>3. QED
    BY <2>1, <2>2, DeployResolves DEF Began
<1>3. ASSUME NEW s \in Services, ServiceCreated(s) PROVE Resolved'
  BY <1>3 DEF ServiceCreated, Complete, Steady, Cfn!Finish, Began
<1>4. ASSUME NEW s \in Services, ServiceFails(s) \/ CancelCreate(s) PROVE Resolved'
  BY <1>4 DEF ServiceFails, CancelCreate, Cfn!Fail, Began
<1>5. ASSUME NEW s \in Services, DeleteService(s) PROVE Resolved'
  BY <1>5 DEF DeleteService, Cfn!Remove, Cfn!Removable, Began
<1>6. ASSUME NEW s \in Services, ServiceDeleted(s) PROVE Resolved'
  BY <1>6 DEF ServiceDeleted, Cfn!Removed, Running, Began
<1>7. ASSUME NEW s \in Services, UpdateService(s) PROVE Resolved'
  <2>1. PICK g \in BOOLEAN : Deploy(s, g)
    BY <1>7 DEF UpdateService
  <2>2. res' = res /\ phase = "live" /\ \A n \in Needs[s] : res[n] = "live"
    BY <1>7 DEF UpdateService, Ordered
  <2>3. QED
    BY <2>1, <2>2, DeployResolves DEF Began
<1>8. ASSUME NEW s \in Services, ServiceUpdated(s) PROVE Resolved'
  BY <1>8 DEF ServiceUpdated, Complete, Steady, Began
<1>9. ASSUME NEW s \in Services, UpdateFails(s) PROVE Resolved'
  BY <1>9 DEF UpdateFails, Began
<1>10. ASSUME NEW s \in Services,
              StartTask(s) \/ TaskUp(s) \/ TaskFails(s) \/ StopOld(s) \/ Drain(s)
       PROVE  Resolved'
  BY <1>10 DEF StartTask, TaskUp, TaskFails, StopOld, Drain, Began
<1>11. ASSUME NEW s \in Services, Crash(s) PROVE Resolved'
  BY <1>11 DEF Crash, Began
<1>12. ASSUME EndUpdate \/ \E changed \in (SUBSET Services) \ {{}} : BeginUpdate(changed)
       PROVE  Resolved'
  BY <1>12 DEF EndUpdate, BeginUpdate, Began
<1>13. CASE UNCHANGED vars
  BY <1>13 DEF vars, Began
<1>14. QED
  BY <1>1, <1>2, <1>3, <1>4, <1>5, <1>6, <1>7, <1>8, <1>9, <1>10, <1>11, <1>12, <1>13
  DEF Next, Ecs, Stack

(* Whatever is rolled out and back, fails, crashes or is deleted: no task  *)
(* of a service runs that cannot resolve the services it calls, but for an *)
(* optional one that the stack's creation may have brought up after it.    *)
THEOREM BackendsAlwaysResolve ==
  ASSUME BackendsFirst
  PROVE  Spec => []BackendsResolve
<1>1. Init => Resolved
  BY DEF Init, Resolved, Cfn!Init
<1>2. TypeOK /\ Ordered /\ Resolved /\ [Next]_vars => Resolved'
  BY ResolvedStep
<1>3. TypeOK /\ Ordered /\ Resolved => BackendsResolve
  BY DEF TypeOK, Ordered, Resolved, Began, BackendsResolve, Resolves, BackendsFirst, Endpoints
<1>4. QED
  BY AlwaysOrdered, <1>1, <1>2, <1>3, PTL DEF Spec

-----------------------------------------------------------------------------
LEMMA ServingStep ==
  ASSUME TypeOK, Ordered, StaysInService, [Next]_vars
  PROVE  StaysInService'
<1> USE DEF TypeOK, StaysInService, Cfn!TypeOK, stackVars, tasks, Quiet, RollTo
<1>1. CASE StackStep
  BY <1>1 DEF StackStep, Cfn!BeginCreate, Cfn!Created, Cfn!BeginDelete, Cfn!Gone
<1>2. ASSUME NEW s \in Services, CreateService(s) PROVE StaysInService'
  BY <1>2 DEF CreateService, Deploy, Cfn!Start, Cfn!Creatable
<1>3. ASSUME NEW s \in Services, ServiceCreated(s) PROVE StaysInService'
  BY <1>3 DEF ServiceCreated, Complete, Steady, Cfn!Finish
<1>4. ASSUME NEW s \in Services, ServiceFails(s) PROVE StaysInService'
  BY <1>4 DEF ServiceFails, Cfn!Fail
<1>5. ASSUME NEW s \in Services, CancelCreate(s) \/ Crash(s) PROVE StaysInService'
  BY <1>5 DEF CancelCreate, Crash, Fault
<1>6. ASSUME NEW s \in Services, DeleteService(s) PROVE StaysInService'
  BY <1>6 DEF DeleteService, Cfn!Remove, Cfn!Removable
<1>7. ASSUME NEW s \in Services, ServiceDeleted(s) PROVE StaysInService'
  BY <1>7 DEF ServiceDeleted, Cfn!Removed
<1>8. ASSUME NEW s \in Services, UpdateService(s) PROVE StaysInService'
  BY <1>8 DEF UpdateService, Deploy
<1>9. ASSUME NEW s \in Services, ServiceUpdated(s) PROVE StaysInService'
  BY <1>9 DEF ServiceUpdated, Complete
<1>10. ASSUME NEW s \in Services, UpdateFails(s) PROVE StaysInService'
  BY <1>10 DEF UpdateFails
<1>11. ASSUME NEW s \in Services, StartTask(s) \/ TaskUp(s) PROVE StaysInService'
  BY <1>11 DEF StartTask, TaskUp
<1>12. ASSUME NEW s \in Services, TaskFails(s) PROVE StaysInService'
  BY <1>12 DEF TaskFails, Fault
<1>13. ASSUME NEW s \in Services, StopOld(s) PROVE StaysInService'
  <2>1. MinHealthy(s) >= 1
    BY DEF MinHealthy
  <2>2. QED
    BY <1>13, <2>1 DEF StopOld, MinHealthy
<1>14. ASSUME NEW s \in Services, Drain(s) PROVE StaysInService'
  BY <1>14 DEF Drain
<1>15. ASSUME EndUpdate \/ \E changed \in (SUBSET Services) \ {{}} : BeginUpdate(changed)
       PROVE  StaysInService'
  BY <1>15 DEF EndUpdate, BeginUpdate
<1>16. CASE UNCHANGED vars
  BY <1>16 DEF vars
<1>17. QED
  BY <1>1, <1>2, <1>3, <1>4, <1>5, <1>6, <1>7, <1>8, <1>9, <1>10, <1>11, <1>12, <1>13,
     <1>14, <1>15, <1>16 DEF Next, Ecs, Stack

(* Rolling out and back any number of revisions, good or bad, never takes  *)
(* the last healthy task from a service, whatever its desired count.       *)
THEOREM ServicesStayInService == Spec => []StaysInService
<1>1. Init => StaysInService
  BY DEF Init, StaysInService, Cfn!Init
<1>2. TypeOK /\ Ordered /\ StaysInService /\ [Next]_vars => StaysInService'
  BY ServingStep
<1>3. QED
  BY AlwaysOrdered, <1>1, <1>2, PTL DEF Spec
=============================================================================
