----------------------------- MODULE Deployment -----------------------------
(***************************************************************************)
(* Deploying and destroying the stacks of the CDK application.             *)
(*                                                                         *)
(* The application fixes the stacks, the edges it declares with            *)
(* add_dependency, and the values one stack takes from another, which the  *)
(* CDK turns into exports and imports and into further edges.  CDK command *)
(* line sessions, several at once if the pipeline and a developer work on  *)
(* one account, walk that graph; CloudFormation runs one operation per     *)
(* stack at a time, rolls back what fails, and refuses to change or delete *)
(* an export in use.  A session may be cancelled: the operations it began  *)
(* go on without it.                                                       *)
(*                                                                         *)
(* Stacks with an EC2 instance take "the latest Amazon Linux 2023" at      *)
(* every deployment: a new image replaces the instance, so the address     *)
(* such a stack exports stands here for the image it was launched from.    *)
(***************************************************************************)
EXTENDS Naturals, FiniteSets

CONSTANTS
  Stacks,
  Declared,    \* [Stacks -> SUBSET Stacks]: the add_dependency edges
  Imports,     \* [Stacks -> SUBSET Stacks]: whose values a stack is given
  Hosts,       \* the stacks whose exported address changes with the image
  Sessions, None,
  Parallel,    \* stacks a session deploys at the same time
  MaxFaults,   \* bound on failed operations and cancelled sessions
  MaxImages    \* bound on newly published machine images

ASSUME DeploymentAssumption ==
  /\ Declared \in [Stacks -> SUBSET Stacks]
  /\ Imports \in [Stacks -> SUBSET Stacks]
  /\ Hosts \subseteq Stacks
  /\ None \notin Sessions
  /\ Parallel \in Nat \ {0} /\ MaxFaults \in Nat /\ MaxImages \in Nat

VARIABLES
  stack,       \* status; a creation rolled back is as good as absent
  addr,        \* the address each stack exports
  next,        \* the address its running operation is to give it
  seen,        \* the addresses each stack was given
  image,       \* the latest published machine image
  owner,       \* the session that waits for the operation on a stack
  mode, todo, failed,
  faults

cfn  == <<stack, addr, next, seen>>
cli  == <<owner, mode, todo, failed>>
vars == <<cfn, cli, image, faults>>

InProgress == {"creating", "updating", "deleting"}
Exporting  == {"complete", "updating"}
Holding    == Exporting \cup {"creating", "deleting", "deleteFailed"}

\* mutant: a stack still being created, updated or deleted does not count
InUseComplete(d) == \E t \in Stacks : d \in Imports[t] /\ stack[t] = "complete"
InUse(d) == \E t \in Stacks : d \in Imports[t] /\ stack[t] \in Holding

-----------------------------------------------------------------------------
(* The stack graph.                                                        *)

\* mutant: only the edges the application declares
DeclaredOnly(s) == Declared[s]
\* mutant: add_dependency is called on the wrong stack
Reversed(s) == Imports[s] \cup {t \in Stacks : s \in Declared[t]}
DependsOn(s) == Declared[s] \cup Imports[s]

Closed(C)    == \A s \in C : DependsOn(s) \subseteq C
Upstream     == [s \in Stacks |->
                  {t \in Stacks : \A C \in SUBSET Stacks : s \in C /\ Closed(C) => t \in C}]
Downstream   == [s \in Stacks |-> {t \in Stacks : s \in Upstream[t]}]

Init ==
  /\ stack = [s \in Stacks |-> "absent"]
  /\ addr = [s \in Stacks |-> 0] /\ next = [s \in Stacks |-> 0]
  /\ seen = [s \in Stacks |-> [d \in Stacks |-> 0]]
  /\ image = 0
  /\ owner = [s \in Stacks |-> None]
  /\ mode = [c \in Sessions |-> "idle"]
  /\ todo = [c \in Sessions |-> {}]
  /\ failed = [c \in Sessions |-> FALSE]
  /\ faults = 0

-----------------------------------------------------------------------------
(* The command line: `cdk deploy` takes along what a stack depends on,     *)
(* `cdk destroy` what depends on it.                                       *)

Selections == {{s} : s \in Stacks} \cup {Stacks}

Launch(c, m, sel) ==
  /\ mode[c] = "idle"
  /\ mode' = [mode EXCEPT ![c] = m]
  /\ todo' = [todo EXCEPT ![c] =
               UNION {IF m = "deploy" THEN Upstream[s] ELSE Downstream[s] : s \in sel}]
  /\ failed' = [failed EXCEPT ![c] = FALSE]
  /\ UNCHANGED <<cfn, owner, image, faults>>

Running(c) == {s \in Stacks : owner[s] = c}
Pending(c) == todo[c] \cup Running(c)

Ready(c, s) ==
  /\ ~failed[c] /\ s \in todo[c] /\ stack[s] \notin InProgress
  /\ \/ /\ mode[c] = "deploy"
        /\ DependsOn(s) \cap Pending(c) = {}
        /\ Cardinality(Running(c)) < Parallel
     \/ /\ mode[c] = "destroy"
        /\ Running(c) = {}
        /\ \A t \in todo[c] : s \notin DependsOn(t)

Took(c, s) ==
  /\ Ready(c, s)
  /\ todo' = [todo EXCEPT ![c] = @ \ {s}]
  /\ UNCHANGED <<mode, image, faults>>

\* mutant: values looked up by name instead of imported
LookedUp(s) == TRUE
Importable(s) == \A d \in Imports[s] : stack[d] \in Exporting

BeginDeploy(c, s) ==
  /\ mode[c] = "deploy" /\ Took(c, s)
  /\ Importable(s) /\ stack[s] # "deleteFailed"
  /\ stack' = [stack EXCEPT ![s] = IF @ = "absent" THEN "creating" ELSE "updating"]
  /\ next' = [next EXCEPT ![s] = IF s \in Hosts THEN image ELSE 0]
  /\ seen' = [seen EXCEPT ![s] = addr]
  /\ owner' = [owner EXCEPT ![s] = c]
  /\ UNCHANGED <<addr, failed>>

BeginDestroy(c, s) ==
  /\ mode[c] = "destroy" /\ Took(c, s)
  /\ stack[s] # "absent" /\ ~InUse(s)
  /\ stack' = [stack EXCEPT ![s] = "deleting"]
  /\ owner' = [owner EXCEPT ![s] = c]
  /\ UNCHANGED <<addr, next, seen, failed>>

\* nothing to destroy
Skip(c, s) ==
  /\ mode[c] = "destroy" /\ stack[s] = "absent" /\ Took(c, s)
  /\ UNCHANGED <<cfn, owner, failed>>

\* an import nobody exports, a stack left half deleted, an export in use
Refused(c, s) ==
  /\ Took(c, s)
  /\ IF mode[c] = "deploy" THEN ~Importable(s) \/ stack[s] = "deleteFailed"
                           ELSE stack[s] # "absent" /\ InUse(s)
  /\ failed' = [failed EXCEPT ![c] = TRUE]
  /\ UNCHANGED <<cfn, owner>>

End(c) ==
  /\ mode[c] # "idle" /\ Running(c) = {} /\ (todo[c] = {} \/ failed[c])
  /\ mode' = [mode EXCEPT ![c] = "idle"]
  /\ todo' = [todo EXCEPT ![c] = {}]
  /\ UNCHANGED <<cfn, owner, failed, image, faults>>

Fault == faults < MaxFaults /\ faults' = faults + 1

Cancel(c) ==
  /\ mode[c] # "idle" /\ Fault
  /\ mode' = [mode EXCEPT ![c] = "idle"]
  /\ todo' = [todo EXCEPT ![c] = {}]
  /\ owner' = [s \in Stacks |-> IF owner[s] = c THEN None ELSE owner[s]]
  /\ UNCHANGED <<cfn, failed, image>>

-----------------------------------------------------------------------------
(* CloudFormation: an operation ends well, or is rolled back.              *)

Moves(s) == stack[s] = "updating" /\ next[s] # addr[s] /\ InUse(s)

Settle(s, to) ==
  /\ stack' = [stack EXCEPT ![s] = to]
  /\ owner' = [owner EXCEPT ![s] = None]
  /\ UNCHANGED <<next, seen, mode, todo, image>>

Finish(s) ==
  /\ stack[s] \in InProgress /\ ~Moves(s)
  /\ Settle(s, IF stack[s] = "deleting" THEN "absent" ELSE "complete")
  /\ addr' = IF stack[s] = "deleting" THEN addr ELSE [addr EXCEPT ![s] = next[s]]
  /\ UNCHANGED <<failed, faults>>

RollBack(s) ==
  /\ stack[s] \in InProgress
  /\ Settle(s, IF stack[s] = "creating" THEN "absent"
               ELSE IF stack[s] = "updating" THEN "complete" ELSE "deleteFailed")
  /\ failed' = [c \in Sessions |-> failed[c] \/ owner[s] = c]
  /\ IF Moves(s) THEN UNCHANGED faults ELSE Fault
  /\ UNCHANGED addr

NewImage ==
  /\ image < MaxImages
  /\ image' = image + 1
  /\ UNCHANGED <<cfn, cli, faults>>

-----------------------------------------------------------------------------
Work(c) ==
  \/ \E s \in Stacks :
       BeginDeploy(c, s) \/ BeginDestroy(c, s) \/ Skip(c, s) \/ Refused(c, s)
  \/ End(c)

Operation(s) == Finish(s) \/ RollBack(s)

Next ==
  \/ \E c \in Sessions :
       \/ \E m \in {"deploy", "destroy"}, sel \in Selections : Launch(c, m, sel)
       \/ Work(c) \/ Cancel(c)
  \/ \E s \in Stacks : Operation(s)
  \/ NewImage

Spec == Init /\ [][Next]_vars

(* A session goes on while it has something to do, and CloudFormation ends *)
(* every operation.  The operator deploys everything again now and then,   *)
(* and destroys again what could not be deleted.                           *)
Fairness ==
  /\ \A c \in Sessions : WF_vars(Work(c))
  /\ \A s \in Stacks : WF_vars(Operation(s))
  /\ \A c \in Sessions : SF_vars(Launch(c, "deploy", Stacks))
  /\ \A c \in Sessions :
       SF_vars(\E s \in Stacks : stack[s] = "deleteFailed" /\ Launch(c, "destroy", {s}))

FairSpec == Spec /\ Fairness

-----------------------------------------------------------------------------
Statuses == InProgress \cup {"absent", "complete", "deleteFailed"}

(* Every variable has its type. *)
TypeOK ==
  /\ stack \in [Stacks -> Statuses]
  /\ addr \in [Stacks -> 0..MaxImages] /\ next \in [Stacks -> 0..MaxImages]
  /\ seen \in [Stacks -> [Stacks -> 0..MaxImages]]
  /\ image \in 0..MaxImages
  /\ owner \in [Stacks -> Sessions \cup {None}]
  /\ mode \in [Sessions -> {"idle", "deploy", "destroy"}]
  /\ todo \in [Sessions -> SUBSET Stacks]
  /\ failed \in [Sessions -> BOOLEAN]
  /\ faults \in 0..MaxFaults

(* Whatever sessions run against each other, whatever fails or is          *)
(* cancelled: a stack that exists in any form was given the addresses that *)
(* are still the right ones, of stacks that are still there.               *)
AddressesCurrent ==
  \A t \in Stacks : stack[t] \in Holding =>
    \A d \in Imports[t] : stack[d] \in Exporting /\ seen[t][d] = addr[d]

(* With one session at a time, a stack whose turn has come finds every     *)
(* value it imports exported: the edges of the graph are enough, also      *)
(* after a failure or a cancelled session.                                 *)
ReadyIsImportable ==
  \A c \in Sessions, s \in Stacks :
    mode[c] = "deploy" /\ Ready(c, s) => Importable(s)

(* No session waits for ever. *)
SessionsEnd == \A c \in Sessions : mode[c] # "idle" ~> mode[c] = "idle"

(* However earlier sessions ended, repeating the deployment gets every     *)
(* stack into service.                                                     *)
Converges == []<>(\A s \in Stacks : stack[s] = "complete")

Rollout == INSTANCE OrderedRollout WITH
  Needs <- Imports, Addresses <- 0..MaxImages,
  up <- {s \in Stacks : stack[s] \in Exporting}

(* Sessions, failures and cancellations are invisible from the outside:    *)
(* stacks come into service, move and go in the order the values need.     *)
ImplementsRollout == Rollout!Spec
=============================================================================
