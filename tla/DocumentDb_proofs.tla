------------------------- MODULE DocumentDb_proofs --------------------------
(***************************************************************************)
(* Proofs about DocumentDbSecret, for any number of invocations of the     *)
(* function, any passwords, and whatever services the SDK knows, and about *)
(* the resources of its stack with the edges that its template gets.       *)
(***************************************************************************)
EXTENDS MCDocumentDb, TLAPS

(* An invocation only happens once there is a cluster, and what it has     *)
(* read has the cluster's password.                                        *)
CopiesCurrent ==
  \A c \in Calls :
    /\ call[c] # "idle" => cluster # "none"
    /\ call[c] = "read" => copy[c].password = cluster

IInv == TypeOK /\ CredentialsKept /\ CopiesCurrent

LEMMA BoundIsNat == MaxFaults \in Nat
BY SecretAssumption

LEMMA NothingIsSecret == Nothing \in Secrets
BY DEF Nothing, Secrets

LEMMA Initially == Init => IInv
<1> SUFFICES ASSUME Init PROVE IInv
  OBVIOUS
<1>1. TypeOK
  <2>1. faults \in 0..MaxFaults
    BY BoundIsNat DEF Init
  <2>2. secret \in Secrets /\ copy \in [Calls -> Secrets]
    BY NothingIsSecret DEF Init
  <2>3. call \in [Calls -> {"idle", "started", "read", "written", "killed"}]
    BY DEF Init
  <2>4. QED
    BY <2>1, <2>2, <2>3 DEF Init, TypeOK
<1>2. CredentialsKept /\ CopiesCurrent
  BY DEF Init, CredentialsKept, CopiesCurrent
<1>3. QED
  BY <1>1, <1>2 DEF IInv

LEMMA FaultBound ==
  ASSUME faults \in 0..MaxFaults, Fault
  PROVE  faults' \in 0..MaxFaults
BY BoundIsNat DEF Fault

LEMMA Inductive ==
  ASSUME IInv, [Next]_vars
  PROVE  IInv'
<1> USE DEF IInv, TypeOK, CredentialsKept, CopiesCurrent, Nothing, Secrets
<1>1. CASE BeginCreate \/ Created
  BY <1>1 DEF BeginCreate, Created
<1>2. CASE CreateSecret
  <2>1. PICK p \in Passwords : secret' = [password |-> p, endpoint |-> FALSE]
    BY <1>2 DEF CreateSecret
  <2>2. secret' \in Secrets
    BY <2>1
  <2>3. cluster = "none"
    BY <1>2 DEF CreateSecret
  <2>4. TypeOK'
    BY <1>2, <2>2 DEF CreateSecret
  <2>5. QED
    BY <1>2, <2>3, <2>4 DEF CreateSecret
<1>3. CASE CreateCluster
  BY <1>3 DEF CreateCluster
<1>4. CASE UndoCreate \/ Delete
  <2>1. Vanish
    BY <1>4 DEF UndoCreate, Delete
  <2>2. copy' \in [Calls -> Secrets] /\ secret' \in Secrets
    BY <2>1, NothingIsSecret DEF Vanish
  <2>3. TypeOK'
    BY <2>1, <2>2 DEF Vanish
  <2>4. QED
    BY <2>1, <2>3 DEF Vanish
<1>5. ASSUME NEW c \in Calls, Invoke(c) PROVE IInv'
  BY <1>5 DEF Invoke, Due
<1>6. CASE LoseTouch
  BY <1>6, FaultBound DEF LoseTouch
<1>7. CASE Return \/ Refuse
  BY <1>7 DEF Return, Refuse, Answer
<1>8. ASSUME NEW c \in Calls, Read(c) PROVE IInv'
  BY <1>8 DEF Read
<1>9. ASSUME NEW c \in Calls, Write(c) PROVE IInv'
  BY <1>9 DEF Write
<1>10. ASSUME NEW c \in Calls, Kill(c) PROVE IInv'
  <2>1. faults' \in 0..MaxFaults
    BY <1>10, FaultBound DEF Kill
  <2>2. TypeOK'
    BY <1>10, <2>1 DEF Kill
  <2>3. CredentialsKept' /\ CopiesCurrent'
    BY <1>10 DEF Kill
  <2>4. QED
    BY <2>2, <2>3
<1>11. CASE UNCHANGED vars
  BY <1>11 DEF vars
<1>12. QED
  BY <1>1, <1>2, <1>3, <1>4, <1>5, <1>6, <1>7, <1>8, <1>9, <1>10, <1>11
  DEF Next, Stack, Resource, Function

(* The types of the stack, the secret, and every invocation's copy of it.  *)
THEOREM TypeCorrect == Spec => []TypeOK
<1>1. IInv => TypeOK
  BY DEF IInv
<1>2. QED
  BY Initially, Inductive, <1>1, PTL DEF Spec

(* However many invocations read and write the secret at once, and wherever *)
(* they are killed, it keeps the password the cluster was created with.    *)
THEOREM CredentialsAlwaysKept == Spec => []CredentialsKept
<1>1. IInv => CredentialsKept
  BY DEF IInv
<1>2. QED
  BY Initially, Inductive, <1>1, PTL DEF Spec

-----------------------------------------------------------------------------
(* What an invocation that came to its end, and an answer, stand for.      *)
Reached == secret.endpoint \/ \E c \in Calls : call[c] = "killed"

EndpointInv ==
  /\ \A c \in Calls : call[c] = "written" => secret.endpoint
  /\ answer = "success" \/ stack = "complete" => Reached

LEMMA EndpointStep ==
  ASSUME IInv, EndpointInv, [Next]_vars
  PROVE  EndpointInv'
<1> USE DEF EndpointInv, Reached
<1>0. TypeOK /\ CredentialsKept /\ CopiesCurrent
  BY DEF IInv
<1>1. CASE BeginCreate \/ Created \/ CreateCluster \/ LoseTouch
  BY <1>1 DEF BeginCreate, Created, CreateCluster, LoseTouch
<1>2. CASE CreateSecret
  <2>1. cluster = "none"
    BY <1>0, <1>2, SecretAssumption DEF CreateSecret, CredentialsKept, TypeOK, Nothing
  <2>2. \A c \in Calls : call[c] = "idle"
    BY <1>0, <2>1 DEF CopiesCurrent
  <2>3. answer # "success"
    BY <1>2, <2>2 DEF CreateSecret, Nothing
  <2>4. QED
    BY <1>2, <2>2, <2>3 DEF CreateSecret
<1>3. CASE UndoCreate \/ Delete
  BY <1>3 DEF UndoCreate, Delete, Vanish
<1>4. ASSUME NEW c \in Calls, Invoke(c) PROVE EndpointInv'
  BY <1>0, <1>4 DEF Invoke, Due, TypeOK
<1>5. CASE Return
  BY <1>0, <1>5 DEF Return, Answer, TypeOK
<1>6. CASE Refuse
  BY <1>6 DEF Refuse, Due, Answer
<1>7. ASSUME NEW c \in Calls, Read(c) PROVE EndpointInv'
  BY <1>0, <1>7 DEF Read, TypeOK
<1>8. ASSUME NEW c \in Calls, Write(c) PROVE EndpointInv'
  <2>1. copy[c] \in Secrets
    BY <1>0 DEF TypeOK
  <2>2. secret'.endpoint
    BY <1>8, <2>1 DEF Write, Secrets
  <2>3. QED
    BY <2>2
<1>9. ASSUME NEW c \in Calls, Kill(c) PROVE EndpointInv'
  BY <1>0, <1>9 DEF Kill, TypeOK
<1>10. CASE UNCHANGED vars
  BY <1>10 DEF vars
<1>11. QED
  BY <1>1, <1>2, <1>3, <1>4, <1>5, <1>6, <1>7, <1>8, <1>9, <1>10
  DEF Next, Stack, Resource, Function

(* A complete stack has the endpoint in its secret, however many calls     *)
(* were made, lost and late, unless one of them was killed.                *)
THEOREM EndpointAlwaysPublished == Spec => []EndpointPublished
<1>1. Init => EndpointInv
  BY DEF Init, EndpointInv
<1>2. EndpointInv => EndpointPublished
  BY DEF EndpointInv, Reached, EndpointPublished
<1>3. QED
  BY Initially, Inductive, EndpointStep, <1>1, <1>2, PTL DEF Spec

-----------------------------------------------------------------------------
(* The stack's resources. *)

(* What a resource waits for directly is in service for as long as the     *)
(* resource is there: a creation waits for it, a deletion for the others.  *)
NeedsLive ==
  \A r \in DocumentDbResources : res[r] # "absent" => \A n \in DocumentDbNeeds[r] : res[n] = "live"

LEMMA Graphs == Cfn!ResourcesAssumption
<1>1. DocumentDbReferences \in [DocumentDbResources -> SUBSET DocumentDbResources]
  BY DEF DocumentDbReferences, DocumentDbResources
<1>2. DocumentDbNeeds \in [DocumentDbResources -> SUBSET DocumentDbResources]
  BY <1>1 DEF DocumentDbNeeds, DocumentDbResources
<1>3. DocumentDbUses \in [DocumentDbResources -> SUBSET DocumentDbResources]
  BY DEF DocumentDbUses, DocumentDbResources
<1>4. QED
  BY <1>2, <1>3 DEF Cfn!ResourcesAssumption

(* What a resource uses, its edges reach: by one, or by two.  The function *)
(* is what the custom resource's edge leads to, and the function waits for *)
(* its policy.                                                             *)
LEMMA UsesReached ==
  ASSUME NEW r \in DocumentDbResources, NEW u \in DocumentDbUses[r]
  PROVE  u \in DocumentDbNeeds[r] \/ \E m \in DocumentDbNeeds[r] : u \in DocumentDbNeeds[m]
<1>1. \A q \in DocumentDbResources \ {"Cluster"} : DocumentDbNeeds[q] = DocumentDbReferences[q]
  BY DEF DocumentDbNeeds, DocumentDbReferences
<1>2. DocumentDbNeeds["Cluster"] = {"Secret", "SecurityGroup", "SubnetGroup"}
  BY DEF DocumentDbNeeds, DocumentDbReferences, DocumentDbResources
<1>3. CASE r = "Cluster"
  BY <1>2, <1>3 DEF DocumentDbUses
<1>4. CASE r = "UpdateSecret"
  <2>1. DocumentDbNeeds[r] = {"Secret", "Cluster", "UpdateLambda", "Provider", "ProviderPolicy"}
    BY <1>1, <1>4 DEF DocumentDbReferences, DocumentDbResources
  <2>2. "LambdaPolicy" \in DocumentDbNeeds["UpdateLambda"]
    BY <1>1 DEF DocumentDbReferences, DocumentDbResources
  <2>3. QED
    BY <1>4, <2>1, <2>2 DEF DocumentDbUses
<1>5. CASE r \notin {"Cluster", "UpdateSecret"}
  BY <1>1, <1>5 DEF DocumentDbUses, DocumentDbReferences
<1>6. QED
  BY <1>3, <1>4, <1>5

(* A step leaves every resource alone or moves one of them, and what it    *)
(* takes out of service is named by nothing that is left.                  *)
LEMMA CfnStep ==
  ASSUME Cfn!ResourcesAssumption, Cfn!TypeOK, NeedsLive, [Cfn!Next]_(Cfn!vars)
  PROVE  Cfn!TypeOK' /\ NeedsLive'
<1> USE DEF Cfn!ResourcesAssumption, Cfn!TypeOK, NeedsLive
<1>1. CASE UNCHANGED Cfn!vars
  BY <1>1 DEF Cfn!vars
<1>2. CASE Cfn!BeginCreate \/ Cfn!Created \/ Cfn!BeginDelete \/ Cfn!Gone
  BY <1>2 DEF Cfn!BeginCreate, Cfn!Created, Cfn!BeginDelete, Cfn!Gone
<1>3. ASSUME NEW r \in DocumentDbResources, Cfn!Start(r) PROVE Cfn!TypeOK' /\ NeedsLive'
  BY <1>3 DEF Cfn!Start, Cfn!Creatable
<1>4. ASSUME NEW r \in DocumentDbResources, Cfn!Finish(r) \/ Cfn!Fail(r) PROVE Cfn!TypeOK' /\ NeedsLive'
  BY <1>4 DEF Cfn!Finish, Cfn!Fail
<1>5. ASSUME NEW r \in DocumentDbResources, Cfn!Remove(r) PROVE Cfn!TypeOK' /\ NeedsLive'
  BY <1>5 DEF Cfn!Remove, Cfn!Removable
<1>6. ASSUME NEW r \in DocumentDbResources, Cfn!Removed(r) \/ Cfn!RemoveFails(r) PROVE Cfn!TypeOK' /\ NeedsLive'
  BY <1>6 DEF Cfn!Removed, Cfn!RemoveFails
<1>7. QED
  BY <1>1, <1>2, <1>3, <1>4, <1>5, <1>6 DEF Cfn!Next

(* A step of the composition is one of the resources', or none of theirs.  *)
LEMMA StacksStep ==
  ASSUME [StacksNext]_<<vars, phase, res>>
  PROVE  [Cfn!Next]_(Cfn!vars) /\ [Next]_vars
BY DEF StacksNext, Cfn!vars

(* The composition shows behaviours of both sides: what is proved above of *)
(* the secret and the invocations holds in it.                             *)
THEOREM ShowsBoth == StacksSpec => Spec /\ Cfn!Spec
<1>1. StacksInit => Init /\ Cfn!Init
  BY DEF StacksInit
<1>2. [StacksNext]_<<vars, phase, res>> => [Next]_vars /\ [Cfn!Next]_(Cfn!vars)
  BY StacksStep
<1>3. QED
  BY <1>1, <1>2, PTL DEF StacksSpec, Spec, Cfn!Spec

(* Wherever a creation fails and its undoing or a deletion stops, in any   *)
(* order CloudFormation picks: no resource of the stack is there without   *)
(* all it uses in service, by the edges documentdb_stack.py gives it.      *)
THEOREM UsedAlwaysExists == StacksSpec => []UsedExists
<1>1. StacksInit => Cfn!TypeOK /\ NeedsLive
  BY DEF StacksInit, Cfn!Init, Cfn!TypeOK, NeedsLive
<1>2. (Cfn!TypeOK /\ NeedsLive) /\ [StacksNext]_<<vars, phase, res>> => (Cfn!TypeOK /\ NeedsLive)'
  BY Graphs, StacksStep, CfnStep
<1>3. NeedsLive => UsedExists
  <2> SUFFICES ASSUME NeedsLive,
                      NEW r \in DocumentDbResources, res[r] # "absent", NEW u \in DocumentDbUses[r]
               PROVE  res[u] = "live"
    BY Graphs DEF UsedExists, Cfn!UsedExists
  <2>1. CASE u \in DocumentDbNeeds[r]
    BY <2>1 DEF NeedsLive
  <2>2. ASSUME NEW m \in DocumentDbNeeds[r], u \in DocumentDbNeeds[m] PROVE res[u] = "live"
    <3>1. m \in DocumentDbResources
      BY Graphs DEF Cfn!ResourcesAssumption
    <3>2. res[m] = "live"
      BY DEF NeedsLive
    <3>3. QED
      BY <2>2, <3>1, <3>2 DEF NeedsLive
  <2>3. QED
    BY <2>1, <2>2, UsesReached
<1>4. QED
  BY <1>1, <1>2, <1>3, PTL DEF StacksSpec
=============================================================================
