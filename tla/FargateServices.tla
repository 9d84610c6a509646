-------------------------- MODULE FargateServices ---------------------------
(***************************************************************************)
(* The services of fargate_stack.py as ECS runs them while CloudFormation  *)
(* creates, updates and deletes the stack.                                 *)
(*                                                                         *)
(* A service has a deployment in progress, whose tasks start and come up   *)
(* healthy or not, and tasks left of earlier ones, which ECS stops as the  *)
(* new ones come up.  A task resolves the Service Connect endpoints that   *)
(* were in the namespace when its deployment began, and no later ones.     *)
(* CloudFormation is done with a service once the deployment is complete,  *)
(* and gives it up when its circuit breaker trips or, if it has none,      *)
(* after hours without success.                                            *)
(***************************************************************************)
EXTENDS Naturals, FiniteSets

CONSTANTS
  Services,
  Needs,         \* [Services -> SUBSET Services]: add_dependency
  Backends,      \* [Services -> SUBSET Services]: whom its tasks call
  Optional,      \* the services the stack can be configured without
  Discoverable,  \* the services with a Service Connect endpoint
  Desired,       \* [Services -> Nat]: desired_count
  Breakers,      \* the services with a circuit breaker
  Threshold,     \* tasks that have to fail for a breaker to trip
  MaxUpdates,    \* bound on stack updates
  MaxBad,        \* bound on revisions whose tasks never come up
  MaxFaults      \* bound on tasks lost and creations cancelled

ASSUME ServicesAssumption ==
  /\ Needs \in [Services -> SUBSET Services]
  /\ Backends \in [Services -> SUBSET Services]
  /\ Optional \subseteq Services /\ Discoverable \subseteq Services
  /\ Desired \in [Services -> Nat \ {0}]
  /\ Breakers \subseteq Services
  /\ Threshold \in Nat \ {0} /\ MaxUpdates \in Nat
  /\ MaxBad \in Nat /\ MaxFaults \in Nat

VARIABLES
  phase, res,          \* of StackResources
  roll, todo, done,    \* the stack update: its kind, services to come, services done
  rolling,             \* the services whose update CloudFormation waits for
  starting, up, old,   \* tasks of the deployment in progress, and of earlier ones
  sees, oldSees,       \* the endpoints they resolve
  first, oldFirst,     \* the services with such tasks of their creation's deployment
  good,                \* whether the deployment's tasks can come up
  failures,            \* failed tasks that a circuit breaker has counted
  updates, bad, faults

stackVars == <<phase, res>>
rollVars  == <<roll, todo, done, rolling>>
tasks     == <<starting, up, old>>
deps      == <<sees, oldSees, first, oldFirst, good>>
vars      == <<stackVars, rollVars, tasks, deps, failures, updates, bad, faults>>

Cfn == INSTANCE StackResources WITH Resources <- Services, Uses <- Backends

Fault == faults < MaxFaults /\ faults' = faults + 1

Init ==
  /\ Cfn!Init
  /\ roll = "none" /\ todo = {} /\ done = {} /\ rolling = {}
  /\ starting = [s \in Services |-> 0]
  /\ up = [s \in Services |-> 0] /\ old = [s \in Services |-> 0]
  /\ sees = [s \in Services |-> {}] /\ oldSees = [s \in Services |-> {}]
  /\ first = {} /\ oldFirst = {}
  /\ good = [s \in Services |-> TRUE]
  /\ failures = [s \in Services |-> 0]
  /\ updates = 0 /\ bad = 0 /\ faults = 0

-----------------------------------------------------------------------------
(* ECS.                                                                    *)

Endpoints == {s \in Discoverable : res[s] # "absent"}
Running(s) == starting[s] + up[s] + old[s]

\* mutant: min_healthy_percent=0
NoMinimum(s) == 0
\* 50 percent of desired_count, rounded up; twice desired_count
MinHealthy(s) == (Desired[s] + 1) \div 2
\* mutant: max_healthy_percent=100
NoSurplus(s) == Desired[s]
MaxRunning(s) == 2 * Desired[s]

Deployed(s) == res[s] \in {"creating", "live"}
Deploying(s) == res[s] = "creating" \/ s \in rolling
Steady(s) == up[s] = Desired[s] /\ starting[s] = 0 /\ old[s] = 0

StartTask(s) ==
  /\ Deployed(s)
  /\ starting[s] + up[s] < Desired[s] /\ Running(s) < MaxRunning(s)
  /\ starting' = [starting EXCEPT ![s] = @ + 1]
  /\ UNCHANGED <<stackVars, rollVars, up, old, deps, failures, updates, bad, faults>>

TaskUp(s) ==
  /\ Deployed(s) /\ good[s] /\ starting[s] > 0
  /\ starting' = [starting EXCEPT ![s] = @ - 1]
  /\ up' = [up EXCEPT ![s] = @ + 1]
  /\ UNCHANGED <<stackVars, rollVars, old, deps, failures, updates, bad, faults>>

\* never healthy, or lost for another reason
TaskFails(s) ==
  /\ Deployed(s) /\ starting[s] > 0
  /\ starting' = [starting EXCEPT ![s] = @ - 1]
  /\ failures' = [failures EXCEPT ![s] =
                    IF s \in Breakers /\ Deploying(s) /\ @ < Threshold THEN @ + 1 ELSE @]
  /\ IF good[s] THEN Fault ELSE UNCHANGED faults
  /\ UNCHANGED <<stackVars, rollVars, up, old, deps, updates, bad>>

Crash(s) ==
  /\ Fault
  /\ \/ up[s] > 0 /\ up' = [up EXCEPT ![s] = @ - 1] /\ UNCHANGED old
     \/ old[s] > 0 /\ old' = [old EXCEPT ![s] = @ - 1] /\ UNCHANGED up
  /\ UNCHANGED <<stackVars, rollVars, starting, deps, failures, updates, bad>>

StopOld(s) ==
  /\ Deployed(s)
  /\ old[s] > 0 /\ up[s] + old[s] > MinHealthy(s)
  /\ old' = [old EXCEPT ![s] = @ - 1]
  /\ UNCHANGED <<stackVars, rollVars, starting, up, deps, failures, updates, bad, faults>>

\* a deleted service's tasks
Drain(s) ==
  /\ res[s] = "deleting" /\ Running(s) > 0
  /\ starting' = [starting EXCEPT ![s] = 0]
  /\ up' = [up EXCEPT ![s] = 0] /\ old' = [old EXCEPT ![s] = 0]
  /\ UNCHANGED <<stackVars, rollVars, deps, failures, updates, bad, faults>>

\* what of the earlier deployments is still running goes on as "old"
Deploy(s, g) ==
  /\ starting' = [starting EXCEPT ![s] = 0]
  /\ up' = [up EXCEPT ![s] = 0]
  /\ old' = [old EXCEPT ![s] = @ + up[s]]
  /\ oldSees' = [oldSees EXCEPT ![s] =
       IF old[s] = 0 THEN sees[s] ELSE IF up[s] = 0 THEN @ ELSE @ \cap sees[s]]
  /\ oldFirst' = IF \/ old[s] > 0 /\ s \in oldFirst
                    \/ up[s] > 0 /\ s \in first
                 THEN oldFirst \cup {s} ELSE oldFirst \ {s}
  /\ sees' = [sees EXCEPT ![s] = Endpoints]
  /\ first' = IF phase = "creating" THEN first \cup {s} ELSE first \ {s}
  /\ good' = [good EXCEPT ![s] = g]
  /\ failures' = [failures EXCEPT ![s] = 0]
  /\ IF g THEN UNCHANGED bad ELSE bad < MaxBad /\ bad' = bad + 1

\* the deployment is complete: nothing is left of earlier ones
Complete(s) ==
  /\ Steady(s)
  /\ oldSees' = [oldSees EXCEPT ![s] = {}] /\ oldFirst' = oldFirst \ {s}
  /\ failures' = [failures EXCEPT ![s] = 0]
  /\ UNCHANGED <<tasks, sees, first, good, updates, bad, faults>>

\* mutant: nothing ends a deployment without a circuit breaker
BreakersOnly(s) == s \in Breakers /\ failures[s] >= Threshold
GivenUp(s) == IF s \in Breakers THEN failures[s] >= Threshold ELSE ~good[s]

-----------------------------------------------------------------------------
(* CloudFormation creates and deletes the stack ...                        *)

Quiet == UNCHANGED <<rollVars, tasks, deps, failures, updates, bad, faults>>

CreateService(s) ==
  /\ Cfn!Start(s)
  /\ \E g \in BOOLEAN : Deploy(s, g)
  /\ UNCHANGED <<rollVars, updates, faults>>

ServiceCreated(s) == Complete(s) /\ Cfn!Finish(s) /\ UNCHANGED rollVars

ServiceFails(s) == GivenUp(s) /\ Cfn!Fail(s) /\ Quiet

CancelCreate(s) ==
  /\ Cfn!Fail(s) /\ Fault
  /\ UNCHANGED <<rollVars, tasks, deps, failures, updates, bad>>

DeleteService(s) == Cfn!Remove(s) /\ Quiet

ServiceDeleted(s) ==
  /\ Running(s) = 0 /\ Cfn!Removed(s)
  /\ sees' = [sees EXCEPT ![s] = {}] /\ oldSees' = [oldSees EXCEPT ![s] = {}]
  /\ first' = first \ {s} /\ oldFirst' = oldFirst \ {s}
  /\ good' = [good EXCEPT ![s] = TRUE]
  /\ failures' = [failures EXCEPT ![s] = 0]
  /\ UNCHANGED <<rollVars, tasks, updates, bad, faults>>

StackStep ==
  /\ Cfn!BeginCreate \/ Cfn!Created \/ (roll = "none" /\ Cfn!BeginDelete) \/ Cfn!Gone
  /\ Quiet

-----------------------------------------------------------------------------
(* ... and updates some of its services, in the order of their creation,   *)
(* all or none.                                                            *)

RollTo(kind, pending) ==
  /\ roll' = kind /\ todo' = pending /\ done' = {} /\ rolling' = {}
  /\ UNCHANGED <<stackVars, tasks, deps, failures>>

BeginUpdate(changed) ==
  /\ phase = "live" /\ roll = "none"
  /\ updates < MaxUpdates /\ updates' = updates + 1
  /\ RollTo("updating", changed)
  /\ UNCHANGED <<bad, faults>>

UpdateService(s) ==
  /\ s \in todo
  /\ Needs[s] \cap (todo \cup rolling) = {}
  /\ todo' = todo \ {s} /\ rolling' = rolling \cup {s}
  /\ \E g \in IF roll = "updating" THEN BOOLEAN ELSE {TRUE} : Deploy(s, g)
  /\ UNCHANGED <<stackVars, roll, done, updates, faults>>

ServiceUpdated(s) ==
  /\ s \in rolling /\ Complete(s)
  /\ rolling' = rolling \ {s} /\ done' = done \cup {s}
  /\ UNCHANGED <<stackVars, roll, todo>>

UpdateFails(s) ==
  /\ s \in rolling /\ roll = "updating" /\ GivenUp(s)
  /\ RollTo("reverting", done \cup rolling)
  /\ UNCHANGED <<updates, bad, faults>>

EndUpdate ==
  /\ roll # "none" /\ todo = {} /\ rolling = {}
  /\ RollTo("none", {})
  /\ UNCHANGED <<updates, bad, faults>>

-----------------------------------------------------------------------------
Ecs(s) == StartTask(s) \/ TaskUp(s) \/ (~good[s] /\ TaskFails(s)) \/ StopOld(s) \/ Drain(s)

Stack(s) ==
  \/ CreateService(s) \/ ServiceCreated(s) \/ ServiceFails(s)
  \/ DeleteService(s) \/ ServiceDeleted(s)
  \/ UpdateService(s) \/ ServiceUpdated(s) \/ UpdateFails(s)

Next ==
  \/ StackStep \/ EndUpdate
  \/ \E changed \in (SUBSET Services) \ {{}} : BeginUpdate(changed)
  \/ \E s \in Services :
       Ecs(s) \/ Stack(s) \/ TaskFails(s) \/ Crash(s) \/ CancelCreate(s)

Spec == Init /\ [][Next]_vars

(* ECS and CloudFormation go on with what they can do; a stack that is not *)
(* there is created again by the next deployment.  A service that will     *)
(* never come up is given up, one that will is not.                        *)
Fairness ==
  /\ WF_vars(StackStep /\ phase # "live") /\ WF_vars(EndUpdate)
  /\ \A s \in Services :
       /\ WF_vars(StartTask(s)) /\ WF_vars(TaskUp(s)) /\ WF_vars(StopOld(s))
       /\ WF_vars(~good[s] /\ TaskFails(s)) /\ WF_vars(Drain(s))
       /\ WF_vars(Stack(s))

FairSpec == Spec /\ Fairness

-----------------------------------------------------------------------------
(* Every variable has its type. *)
TypeOK ==
  /\ Cfn!TypeOK
  /\ roll \in {"none", "updating", "reverting"}
  /\ todo \subseteq Services /\ done \subseteq Services /\ rolling \subseteq Services
  /\ starting \in [Services -> Nat] /\ up \in [Services -> Nat] /\ old \in [Services -> Nat]
  /\ sees \in [Services -> SUBSET Services] /\ oldSees \in [Services -> SUBSET Services]
  /\ first \subseteq Services /\ oldFirst \subseteq Services
  /\ good \in [Services -> BOOLEAN]
  /\ failures \in [Services -> 0..Threshold]
  /\ updates \in 0..MaxUpdates /\ bad \in 0..MaxBad /\ faults \in 0..MaxFaults

\* a deployment that began when the stack was created may have come before a
\* service that is optional, and a deletion may take that one away first
Resolves(s, endpoints, atCreation) ==
  /\ Backends[s] \ Optional \subseteq endpoints \cap Endpoints
  /\ phase = "live" /\ ~atCreation => Backends[s] \subseteq endpoints \cap Endpoints

(* The tasks of a service resolve every service they call, for as long as  *)
(* they run: in a creation, an update rolled back half way, a deletion.    *)
(* For the mail server this is not so (nothing orders ecomm after it): the *)
(* tasks of ecomm's first deployment may never resolve it, but those of    *)
(* every update, and of its rollback, do.                                  *)
BackendsResolve ==
  \A s \in Services :
    /\ starting[s] + up[s] > 0 => Resolves(s, sees[s], s \in first)
    /\ old[s] > 0 => Resolves(s, oldSees[s], s \in oldFirst)

(* While no task crashed, a service that was created has a healthy task    *)
(* until it is deleted, whatever revisions are rolled out and back; so the *)
(* tasks that call it always find one.                                     *)
StaysInService ==
  \A s \in Services : res[s] = "live" /\ faults = 0 => up[s] + old[s] > 0

(* An update ends, with every service at one revision: those that failed   *)
(* are rolled back, with or without a circuit breaker.                     *)
UpdatesEnd == roll # "none" ~> roll = "none"

(* Whatever failed before, all services come into service in the end.      *)
Converges == []<>(phase = "live" /\ \A s \in Services : Steady(s))
=============================================================================
