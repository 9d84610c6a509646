--------------------------- MODULE StackResources ---------------------------
(***************************************************************************)
(* CloudFormation working on the resources of one stack: it begins every   *)
(* resource whose template names no unfinished one, side by side, undoes a *)
(* creation that failed, and deletes a resource once no resource that      *)
(* names it is left.                                                       *)
(*                                                                         *)
(* Needs is what the template says (a Ref, a Fn::GetAtt, a DependsOn the   *)
(* application or the CDK wrote); Uses is what the service behind a        *)
(* resource requires to exist for as long as the resource does.            *)
(***************************************************************************)
EXTENDS Naturals

CONSTANTS
  Resources,
  Needs,       \* [Resources -> SUBSET Resources]: the template's edges
  Uses         \* [Resources -> SUBSET Resources]: what has to be there

(* Proofs assume that both are such graphs; StackGraphs has them.          *)
ResourcesAssumption ==
  /\ Needs \in [Resources -> SUBSET Resources]
  /\ Uses \in [Resources -> SUBSET Resources]

VARIABLES
  phase,       \* of the stack
  res          \* of each resource

vars == <<phase, res>>

Init ==
  /\ phase = "none"
  /\ res = [r \in Resources |-> "absent"]

BeginCreate ==
  /\ phase = "none"
  /\ phase' = "creating"
  /\ UNCHANGED res

Creatable(r) ==
  /\ phase = "creating" /\ res[r] = "absent"
  /\ \A n \in Needs[r] : res[n] = "live"

Start(r) ==
  /\ Creatable(r)
  /\ res' = [res EXCEPT ![r] = "creating"]
  /\ UNCHANGED phase

Finish(r) ==
  /\ phase = "creating" /\ res[r] = "creating"
  /\ res' = [res EXCEPT ![r] = "live"]
  /\ UNCHANGED phase

Created ==
  /\ phase = "creating"
  /\ \A r \in Resources : res[r] = "live"
  /\ phase' = "live"
  /\ UNCHANGED res

\* the other creations in progress are cancelled with it
Fail(r) ==
  /\ phase = "creating" /\ res[r] = "creating"
  /\ phase' = "undoing"
  /\ UNCHANGED res

BeginDelete ==
  /\ phase \in {"live", "deleteFailed"}
  /\ phase' = "deleting"
  /\ UNCHANGED res

Removable(r) ==
  /\ phase \in {"undoing", "deleting"} /\ res[r] \in {"creating", "live"}
  /\ \A d \in Resources : r \in Needs[d] => res[d] = "absent"

Remove(r) ==
  /\ Removable(r)
  /\ res' = [res EXCEPT ![r] = "deleting"]
  /\ UNCHANGED phase

Removed(r) ==
  /\ phase \in {"undoing", "deleting"} /\ res[r] = "deleting"
  /\ res' = [res EXCEPT ![r] = "absent"]
  /\ UNCHANGED phase

\* a stack left half deleted is deleted again
RemoveFails(r) ==
  /\ phase \in {"undoing", "deleting"} /\ res[r] = "deleting"
  /\ phase' = "deleteFailed"
  /\ res' = [res EXCEPT ![r] = "live"]

Gone ==
  /\ phase \in {"undoing", "deleting"}
  /\ \A r \in Resources : res[r] = "absent"
  /\ phase' = "none"
  /\ UNCHANGED res

Next ==
  \/ BeginCreate \/ Created \/ BeginDelete \/ Gone
  \/ \E r \in Resources :
       Start(r) \/ Finish(r) \/ Fail(r) \/ Remove(r) \/ Removed(r) \/ RemoveFails(r)

Spec == Init /\ [][Next]_vars

-----------------------------------------------------------------------------
(* Every variable has its type. *)
TypeOK ==
  /\ phase \in {"none", "creating", "live", "undoing", "deleting", "deleteFailed"}
  /\ res \in [Resources -> {"absent", "creating", "live", "deleting"}]

(* As long as a resource is there in any form, being created, in service   *)
(* or being deleted, so is everything it requires: the edges that the      *)
(* constructs of the stack give the template are enough, whatever order    *)
(* CloudFormation picks and wherever it fails.                             *)
UsedExists ==
  \A r \in Resources : res[r] # "absent" =>
    \A u \in Uses[r] : res[u] = "live"
=============================================================================
