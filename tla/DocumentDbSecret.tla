-------------------------- MODULE DocumentDbSecret --------------------------
(***************************************************************************)
(* How the secret of documentdb_stack.py gets its endpoint.  The secret is *)
(* made with a generated password and no endpoint; the cluster takes the   *)
(* password from it; a custom resource then invokes a function that reads  *)
(* the secret, adds the endpoint and writes it back.  The custom resource  *)
(* answers for its own call only: that the call was made, not that the     *)
(* function came to its end.  The other stacks are given the secret.       *)
(***************************************************************************)
EXTENDS Naturals

CONSTANTS
  Calls,        \* invocations of the function: the first and its retries
  Nobody,
  Passwords,    \* what the secret generator may come up with
  SdkServices,  \* the service names the custom resource's SDK has a client for
  Environment,
  MaxFaults     \* bound on killed functions and lost answers

ASSUME SecretAssumption ==
  MaxFaults \in Nat /\ Nobody \notin Calls /\ "none" \notin Passwords

VARIABLES
  stack,
  secret,      \* password and endpoint; with the password "none", no secret
  cluster,     \* the cluster's master password
  call,        \* state of each invocation
  copy,        \* the secret as it has read it
  waits,       \* the invocation the custom resource waits for
  answer,      \* the custom resource's
  faults

vars == <<stack, secret, cluster, call, copy, waits, answer, faults>>

Nothing == [password |-> "none", endpoint |-> FALSE]
Secrets == [password : Passwords \cup {"none"}, endpoint : BOOLEAN]

Fault == faults < MaxFaults /\ faults' = faults + 1

(* No stack, and what is left when one is deleted: its secret goes with it *)
(* and a function still running finds nothing to write to.                 *)
Init ==
  /\ stack = "none" /\ secret = Nothing /\ cluster = "none"
  /\ call = [c \in Calls |-> "idle"] /\ copy = [c \in Calls |-> Nothing]
  /\ waits = Nobody /\ answer = "none"
  /\ faults = 0

Vanish ==
  /\ stack' = "none" /\ secret' = Nothing /\ cluster' = "none"
  /\ call' = [c \in Calls |-> "idle"] /\ copy' = [c \in Calls |-> Nothing]
  /\ waits' = Nobody /\ answer' = "none"
  /\ UNCHANGED faults

BeginCreate ==
  /\ stack = "none"
  /\ stack' = "creating"
  /\ UNCHANGED <<secret, cluster, call, copy, waits, answer, faults>>

CreateSecret ==
  /\ stack = "creating" /\ secret = Nothing
  /\ \E p \in Passwords : secret' = [password |-> p, endpoint |-> FALSE]
  /\ UNCHANGED <<stack, cluster, call, copy, waits, answer, faults>>

\* the password is resolved as the cluster is created
CreateCluster ==
  /\ stack = "creating" /\ secret # Nothing /\ cluster = "none"
  /\ cluster' = secret.password
  /\ UNCHANGED <<stack, secret, call, copy, waits, answer, faults>>

-----------------------------------------------------------------------------
(* The custom resource: it waits for the cluster's endpoint, invokes the   *)
(* function, and invokes it again when it hears nothing of it.             *)

Service == <<Environment, "Lambda">>
Due == stack = "creating" /\ cluster # "none" /\ answer = "none"

Answer(a) ==
  /\ answer' = a
  /\ waits' = Nobody
  /\ UNCHANGED <<stack, secret, cluster, call, copy, faults>>

Invoke(c) ==
  /\ Due /\ Service \in SdkServices
  /\ waits = Nobody /\ call[c] = "idle"
  /\ waits' = c
  /\ call' = [call EXCEPT ![c] = "started"]
  /\ UNCHANGED <<stack, secret, cluster, copy, answer, faults>>

LoseTouch ==
  /\ waits # Nobody /\ Fault
  /\ waits' = Nobody
  /\ UNCHANGED <<stack, secret, cluster, call, copy, answer>>

\* mutant: an invocation that reports an error of the function is waited for
ReturnWritten ==
  /\ waits # Nobody /\ call[waits] = "written"
  /\ Answer("success")

\* mutant: the function is invoked with InvocationType Event
ReturnAtOnce ==
  /\ waits # Nobody
  /\ Answer("success")

\* an invocation that reports an error of the function is one that returned
Return ==
  /\ waits # Nobody /\ call[waits] \in {"written", "killed"}
  /\ Answer("success")

\* no such service, or every attempt lost
Refuse ==
  /\ Due
  /\ \/ Service \notin SdkServices
     \/ waits = Nobody /\ \A c \in Calls : call[c] # "idle"
  /\ Answer("failed")

-----------------------------------------------------------------------------
(* The function.                                                           *)

Read(c) ==
  /\ call[c] = "started"
  /\ call' = [call EXCEPT ![c] = "read"]
  /\ copy' = [copy EXCEPT ![c] = secret]
  /\ UNCHANGED <<stack, secret, cluster, waits, answer, faults>>

\* mutant: only what the event brought is written
WriteEvent(c) ==
  /\ call[c] = "read"
  /\ call' = [call EXCEPT ![c] = "written"]
  /\ secret' = [Nothing EXCEPT !.endpoint = TRUE]
  /\ UNCHANGED <<stack, cluster, copy, waits, answer, faults>>

Write(c) ==
  /\ call[c] = "read"
  /\ call' = [call EXCEPT ![c] = "written"]
  /\ secret' = [copy[c] EXCEPT !.endpoint = TRUE]
  /\ UNCHANGED <<stack, cluster, copy, waits, answer, faults>>

\* an exception, or the three seconds a function has by default
Kill(c) ==
  /\ call[c] \in {"started", "read"} /\ Fault
  /\ call' = [call EXCEPT ![c] = "killed"]
  /\ UNCHANGED <<stack, secret, cluster, copy, waits, answer>>

-----------------------------------------------------------------------------
Created ==
  /\ stack = "creating" /\ answer = "success"
  /\ stack' = "complete"
  /\ UNCHANGED <<secret, cluster, call, copy, waits, answer, faults>>

UndoCreate == stack = "creating" /\ answer = "failed" /\ Vanish

Delete == stack = "complete" /\ Vanish

Function(c) == Read(c) \/ Write(c)
Resource == (\E c \in Calls : Invoke(c)) \/ Return \/ Refuse
Stack == BeginCreate \/ CreateSecret \/ CreateCluster \/ Created \/ UndoCreate

Next ==
  \/ Stack \/ Resource \/ LoseTouch \/ Delete
  \/ \E c \in Calls : Function(c) \/ Kill(c)

Spec == Init /\ [][Next]_vars

FairSpec ==
  /\ Spec
  /\ WF_vars(Stack) /\ WF_vars(Resource)
  /\ \A c \in Calls : WF_vars(Function(c))

-----------------------------------------------------------------------------
(* Every variable has its type. *)
TypeOK ==
  /\ stack \in {"none", "creating", "complete"}
  /\ secret \in Secrets /\ cluster \in Passwords \cup {"none"}
  /\ call \in [Calls -> {"idle", "started", "read", "written", "killed"}]
  /\ copy \in [Calls -> Secrets]
  /\ waits \in Calls \cup {Nobody}
  /\ answer \in {"none", "success", "failed"}
  /\ faults \in 0..MaxFaults

(* The functions that read and write the secret, also two at once after a  *)
(* lost answer, never change the credentials in it: whoever reads the      *)
(* secret gets the password the cluster was created with.                  *)
CredentialsKept == cluster # "none" => secret.password = cluster

(* A creation ends, one way or the other. *)
CreationEnds == stack = "creating" ~> stack # "creating"

(* documentdb_stack.py:73-76: the endpoint is passed to other stacks with  *)
(* the secret.  A stack that is complete has it there, and no late call    *)
(* takes it back, unless the function was killed: the custom resource does *)
(* not learn of that.                                                      *)
EndpointPublished ==
  stack = "complete" => secret.endpoint \/ \E c \in Calls : call[c] = "killed"
=============================================================================
