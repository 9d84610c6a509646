---------------------------- MODULE MCDocumentDb ----------------------------
(* The DocumentDB stack seen from two sides, of which a behaviour shows    *)
(* one: the resources of its template, and its secret, cluster and custom  *)
(* resource.  The SDK knows no service with an environment in its name;    *)
(* here is one that would look past it, or no creation would succeed.      *)
EXTENDS DocumentDbSecret, StackGraphs

VARIABLES phase, res

Cfn == INSTANCE StackResources
         WITH Resources <- DocumentDbResources, Needs <- DocumentDbNeeds, Uses <- DocumentDbUses

Lenient == {<<"Lambda">>, <<"prod", "Lambda">>}

StacksInit == Init /\ Cfn!Init
StacksNext ==
  \/ stack = "none" /\ faults = 0 /\ Cfn!Next /\ UNCHANGED vars
  \/ phase = "none" /\ Next /\ UNCHANGED <<phase, res>>

StacksSpec ==
  /\ StacksInit /\ [][StacksNext]_<<vars, phase, res>>
  /\ WF_vars(Stack) /\ WF_vars(Resource)
  /\ \A c \in Calls : WF_vars(Function(c))

(* UsedExists of StackResources, with the edges documentdb_stack.py gives  *)
(* its template, which are those of a graph: no resource is there without  *)
(* what it uses.                                                           *)
UsedExists == Cfn!ResourcesAssumption /\ Cfn!UsedExists
=============================================================================
