------------------------- MODULE Deployment_proofs --------------------------
(***************************************************************************)
(* Proofs about Deployment, for every stack graph, any number of sessions, *)
(* faults and machine images: type correctness, AddressesCurrent, that     *)
(* Deployment implements OrderedRollout, and ReadyIsImportable.            *)
(***************************************************************************)
EXTENDS Deployment, TLAPS

USE DeploymentAssumption

(* A new image is within the bound, and so is every address made from it. *)
LEMMA TypeStep ==
  ASSUME TypeOK, [Next]_vars
  PROVE  TypeOK'
<1> USE DEF TypeOK, Statuses, InProgress, cfn, cli, Fault
<1>1. ASSUME NEW c \in Sessions, NEW m \in {"deploy", "destroy"},
             NEW sel \in Selections, Launch(c, m, sel)
      PROVE  TypeOK'
  <2>1. \A s \in Stacks : Upstream[s] \subseteq Stacks /\ Downstream[s] \subseteq Stacks
    BY DEF Upstream, Downstream
  <2>2. sel \subseteq Stacks
    BY DEF Selections
  <2>3. UNION {IF m = "deploy" THEN Upstream[s] ELSE Downstream[s] : s \in sel}
          \in SUBSET Stacks
    BY <2>1, <2>2
  <2>4. QED
    BY <1>1, <2>3 DEF Launch
<1>2. ASSUME NEW c \in Sessions, NEW s \in Stacks, BeginDeploy(c, s) PROVE TypeOK'
  <2>1. next' \in [Stacks -> 0..MaxImages] /\ seen' \in [Stacks -> [Stacks -> 0..MaxImages]]
    BY <1>2 DEF BeginDeploy, Took
  <2>2. QED
    BY <1>2, <2>1 DEF BeginDeploy, Took
<1>3. ASSUME NEW c \in Sessions, NEW s \in Stacks,
             BeginDestroy(c, s) \/ Skip(c, s) \/ Refused(c, s)
      PROVE  TypeOK'
  <2>1. todo' \in [Sessions -> SUBSET Stacks]
    BY SMTT(30), <1>3 DEF BeginDestroy, Skip, Refused, Took
  <2>2. CASE BeginDestroy(c, s)
    BY <2>1, <2>2 DEF BeginDestroy, Took
  <2>3. CASE Skip(c, s)
    BY <2>1, <2>3 DEF Skip, Took
  <2>4. CASE Refused(c, s)
    BY <2>1, <2>4 DEF Refused, Took
  <2>5. QED
    BY <1>3, <2>2, <2>3, <2>4
<1>4. ASSUME NEW c \in Sessions, End(c) PROVE TypeOK'
  BY <1>4 DEF End
<1>5. ASSUME NEW c \in Sessions, Cancel(c) PROVE TypeOK'
  BY <1>5 DEF Cancel
<1>6. ASSUME NEW s \in Stacks, Finish(s) PROVE TypeOK'
  BY <1>6 DEF Finish, Settle
<1>7. ASSUME NEW s \in Stacks, RollBack(s) PROVE TypeOK'
  <2>1. failed' \in [Sessions -> BOOLEAN]
    BY <1>7 DEF RollBack
  <2>2. faults' \in 0..MaxFaults
    BY <1>7 DEF RollBack
  <2>3. QED
    BY <1>7, <2>1, <2>2 DEF RollBack, Settle
<1>8. CASE NewImage
  BY <1>8 DEF NewImage
<1>9. CASE UNCHANGED vars
  BY <1>9 DEF vars
<1>10. QED
  BY <1>1, <1>2, <1>3, <1>4, <1>5, <1>6, <1>7, <1>8, <1>9 DEF Next, Work, Operation

(* A step leaves CloudFormation's state alone or is one of four.           *)
LEMMA Steps ==
  ASSUME [Next]_vars
  PROVE  \/ UNCHANGED <<stack, addr, seen>>
         \/ \E s \in Stacks :
              \/ \E c \in Sessions : BeginDeploy(c, s) \/ BeginDestroy(c, s)
              \/ Finish(s) \/ RollBack(s)
BY DEF Next, Work, Operation, Launch, Skip, Refused, End, Cancel, NewImage, vars, cfn

(* The addresses given to a stack stay the right ones: what gives out an   *)
(* address is neither changed nor deleted while anything holds it.         *)
LEMMA AddressesStep ==
  ASSUME TypeOK, AddressesCurrent, [Next]_vars
  PROVE  AddressesCurrent'
<1> USE DEF TypeOK, Statuses, InProgress, Holding, Exporting
<1>1. SUFFICES ASSUME NEW t \in Stacks, NEW d \in Imports[t], stack'[t] \in Holding
               PROVE  stack'[d] \in Exporting /\ seen'[t][d] = addr'[d]
  BY DEF AddressesCurrent
<1>2. d \in Stacks
  OBVIOUS
<1>3. stack[t] \in Holding => stack[d] \in Exporting /\ seen[t][d] = addr[d]
  BY DEF AddressesCurrent
<1>4. stack[t] \in Holding => InUse(d)
  BY DEF InUse
<1>5. CASE UNCHANGED <<stack, addr, seen>>
  BY <1>1, <1>3, <1>5
<1>6. ASSUME NEW s \in Stacks, NEW c \in Sessions, BeginDeploy(c, s)
      PROVE  stack'[d] \in Exporting /\ seen'[t][d] = addr'[d]
  <2>1. CASE s = t
    <3>1. stack[d] \in Exporting
      BY <1>6, <2>1 DEF BeginDeploy, Importable
    <3>2. stack'[d] \in Exporting
      BY <1>2, <1>6, <2>1, <3>1 DEF BeginDeploy, Took, Ready
    <3>3. seen'[t][d] = addr'[d]
      BY <1>2, <1>6, <2>1 DEF BeginDeploy
    <3>4. QED
      BY <3>2, <3>3
  <2>2. CASE s # t
    <3>1. stack[t] \in Holding /\ seen'[t] = seen[t] /\ addr' = addr
      BY <1>1, <1>6, <2>2 DEF BeginDeploy
    <3>2. stack'[d] \in Exporting
      BY <1>2, <1>3, <1>6, <3>1 DEF BeginDeploy, Took, Ready
    <3>3. QED
      BY <1>3, <3>1, <3>2
  <2>3. QED
    BY <2>1, <2>2
<1>7. ASSUME NEW s \in Stacks, NEW c \in Sessions, BeginDestroy(c, s)
      PROVE  stack'[d] \in Exporting /\ seen'[t][d] = addr'[d]
  <2>1. stack[t] \in Holding
    BY <1>1, <1>7 DEF BeginDestroy, Took, Ready
  <2>2. d # s
    BY <1>4, <1>7, <2>1 DEF BeginDestroy
  <2>3. QED
    BY <1>2, <1>3, <1>7, <2>1, <2>2 DEF BeginDestroy
<1>8. ASSUME NEW s \in Stacks, Finish(s)
      PROVE  stack'[d] \in Exporting /\ seen'[t][d] = addr'[d]
  <2>1. stack[t] \in Holding
    BY <1>1, <1>8 DEF Finish, Settle
  <2>2. stack[d] \in Exporting /\ InUse(d)
    BY <1>3, <1>4, <2>1
  <2>3. stack'[d] \in Exporting
    BY <1>2, <1>8, <2>2 DEF Finish, Settle
  <2>4. addr'[d] = addr[d]
    BY <1>2, <1>8, <2>2 DEF Finish, Settle, Moves
  <2>5. QED
    BY <1>3, <1>8, <2>1, <2>3, <2>4 DEF Finish, Settle
<1>9. ASSUME NEW s \in Stacks, RollBack(s)
      PROVE  stack'[d] \in Exporting /\ seen'[t][d] = addr'[d]
  <2>1. stack[t] \in Holding
    BY <1>1, <1>9 DEF RollBack, Settle
  <2>2. stack'[d] \in Exporting
    BY <1>2, <1>3, <1>9, <2>1 DEF RollBack, Settle
  <2>3. QED
    BY <1>3, <1>9, <2>1, <2>2 DEF RollBack, Settle
<1>10. QED
  BY <1>5, <1>6, <1>7, <1>8, <1>9, Steps

(* Both invariants hold initially and together are preserved.              *)
THEOREM TypeCorrect == Spec => []TypeOK
<1>1. Init => TypeOK
  BY DEF Init, TypeOK, Statuses
<1>2. TypeOK /\ [Next]_vars => TypeOK'
  BY TypeStep
<1>3. QED
  BY <1>1, <1>2, PTL DEF Spec

(* Any number of sessions, failures, cancellations and machine images      *)
(* leave every stack with current addresses of stacks that are in service. *)
THEOREM AddressesStayCurrent == Spec => []AddressesCurrent
<1>1. Init => AddressesCurrent
  BY DEF Init, AddressesCurrent, Holding, Exporting
<1>2. TypeOK /\ AddressesCurrent /\ [Next]_vars => AddressesCurrent'
  BY AddressesStep
<1>3. QED
  BY <1>1, <1>2, TypeCorrect, PTL DEF Spec

-----------------------------------------------------------------------------
Up == {s \in Stacks : stack[s] \in Exporting}

(* What holds an address keeps it out of reach of Lower and Move.          *)
LEMMA NoDependents ==
  ASSUME NEW s \in Stacks, ~InUse(s)
  PROVE  Rollout!Dependents(s) = {}
BY DEF InUse, Rollout!Dependents, Holding

(* Every step raises, lowers or moves one stack in order, or is invisible. *)
LEMMA RolloutStep ==
  ASSUME TypeOK, TypeOK', AddressesCurrent, [Next]_vars
  PROVE  [Rollout!Next]_(Rollout!vars)
<1> USE DEF Exporting, InProgress
<1>0. stack \in [Stacks -> Statuses] /\ addr \in [Stacks -> 0..MaxImages]
      /\ next \in [Stacks -> 0..MaxImages]
  BY DEF TypeOK
<1>1. CASE UNCHANGED <<stack, addr, seen>>
  BY <1>1 DEF Rollout!vars
<1>2. ASSUME NEW s \in Stacks, NEW c \in Sessions, BeginDeploy(c, s)
      PROVE  UNCHANGED Rollout!vars
  <2>1. Up' = Up
    BY <1>0, <1>2 DEF Up, BeginDeploy, Took, Ready, Statuses
  <2>2. QED
    BY <1>2, <2>1 DEF Up, BeginDeploy, Rollout!vars
<1>3. ASSUME NEW s \in Stacks, NEW c \in Sessions, BeginDestroy(c, s)
      PROVE  [Rollout!Next]_(Rollout!vars)
  <2>1. Rollout!Dependents(s) = {}
    BY <1>3, NoDependents DEF BeginDestroy
  <2>2. Up' = Up \ {s} /\ addr' = addr
    BY <1>0, <1>3 DEF Up, BeginDestroy
  <2>3. CASE s \in Up
    BY <2>1, <2>2, <2>3 DEF Up, Rollout!Next, Rollout!Lower
  <2>4. CASE s \notin Up
    BY <2>2, <2>4 DEF Up, Rollout!vars
  <2>5. QED
    BY <2>3, <2>4
<1>4. ASSUME NEW s \in Stacks, Finish(s) PROVE [Rollout!Next]_(Rollout!vars)
  <2>1. CASE stack[s] = "creating"
    <3>1. Imports[s] \subseteq Up
      BY <2>1 DEF AddressesCurrent, Holding, Up
    <3>2. s \notin Up /\ Up' = Up \cup {s}
      BY <1>0, <1>4, <2>1 DEF Up, Finish, Settle
    <3>3. addr' = [addr EXCEPT ![s] = next[s]] /\ next[s] \in 0..MaxImages
      BY <1>0, <1>4, <2>1 DEF Finish
    <3>4. Rollout!Raise(s)
      BY <3>1, <3>2, <3>3 DEF Up, Rollout!Raise
    <3>5. QED
      BY <3>4 DEF Rollout!Next
  <2>2. CASE stack[s] = "updating"
    <3>1. s \in Up /\ Up' = Up
      BY <1>0, <1>4, <2>2 DEF Up, Finish, Settle
    <3>2. addr' = [addr EXCEPT ![s] = next[s]] /\ next[s] \in 0..MaxImages
      BY <1>0, <1>4, <2>2 DEF Finish
    <3>3. CASE next[s] = addr[s]
      <4>1. addr' = addr
        BY <1>0, <3>2, <3>3
      <4>2. QED
        BY <3>1, <4>1 DEF Up, Rollout!vars
    <3>4. CASE next[s] # addr[s]
      <4>1. Rollout!Dependents(s) = {}
        BY <1>4, <2>2, <3>4, NoDependents DEF Finish, Moves
      <4>2. Rollout!Move(s)
        BY <3>1, <3>2, <4>1 DEF Up, Rollout!Move
      <4>3. QED
        BY <4>2 DEF Rollout!Next
    <3>5. QED
      BY <3>3, <3>4
  <2>3. CASE stack[s] = "deleting"
    <3>1. Up' = Up /\ addr' = addr
      BY <1>0, <1>4, <2>3 DEF Up, Finish, Settle
    <3>2. QED
      BY <3>1 DEF Up, Rollout!vars
  <2>4. QED
    BY <1>4, <2>1, <2>2, <2>3 DEF Finish
<1>5. ASSUME NEW s \in Stacks, RollBack(s) PROVE UNCHANGED Rollout!vars
  <2>1. Up' = Up /\ addr' = addr
    BY <1>0, <1>5 DEF Up, RollBack, Settle
  <2>2. QED
    BY <2>1 DEF Up, Rollout!vars
<1>6. QED
  BY <1>1, <1>2, <1>3, <1>4, <1>5, Steps

(* Deployment implements the rollout it promises.                          *)
THEOREM DeploymentImplementsRollout == Spec => ImplementsRollout
<1>1. Init => Rollout!Init
  BY DEF Init, Rollout!Init, Exporting
<1>2. TypeOK /\ TypeOK' /\ AddressesCurrent /\ [Next]_vars
        => [Rollout!Next]_(Rollout!vars)
  BY RolloutStep
<1>3. QED
  BY <1>1, <1>2, TypeCorrect, AddressesStayCurrent, PTL
     DEF Spec, ImplementsRollout, Rollout!Spec
-----------------------------------------------------------------------------
(* What a session takes along has its own edges with it.                   *)
LEMMA UpstreamClosed ==
  ASSUME NEW s \in Stacks, NEW t \in Upstream[s], NEW d \in DependsOn(t)
  PROVE  d \in Upstream[s]
<1>1. t \in Stacks /\ d \in Stacks
  BY DEF Upstream, DependsOn
<1>2. ASSUME NEW C \in SUBSET Stacks, s \in C, Closed(C) PROVE d \in C
  <2>1. t \in C
    BY <1>2 DEF Upstream
  <2>2. QED
    BY <1>2, <2>1 DEF Closed
<1>3. QED
  BY <1>1, <1>2 DEF Upstream

(* No two sessions run against each other. *)
OneSession == \A b, c \in Sessions : b = c

(* A session waits for operations of its own kind, and for none when it is *)
(* over.                                                                   *)
WaitsRightly ==
  \A s \in Stacks : owner[s] # None =>
    \/ mode[owner[s]] = "deploy" /\ stack[s] \in {"creating", "updating"}
    \/ mode[owner[s]] = "destroy" /\ stack[s] = "deleting"

(* Behind a stack that is still to be deployed, everything it depends on   *)
(* is in service or is yet to come.                                        *)
UpstreamDone ==
  \A c \in Sessions : mode[c] = "deploy" /\ ~failed[c] =>
    \A s \in todo[c] : \A d \in DependsOn(s) : d \in Pending(c) \/ stack[d] \in Exporting

LEMMA WaitsRightlyStep ==
  ASSUME TypeOK, WaitsRightly, [Next]_vars
  PROVE  WaitsRightly'
<1> USE DEF WaitsRightly, TypeOK, InProgress, cfn, cli
<1>1. ASSUME NEW c \in Sessions, NEW m \in {"deploy", "destroy"}, NEW sel \in Selections,
             Launch(c, m, sel)
      PROVE  WaitsRightly'
  <2>1. \A s \in Stacks : owner[s] # c
    BY <1>1 DEF Launch
  <2>2. QED
    BY <1>1, <2>1 DEF Launch
<1>2. ASSUME NEW c \in Sessions, NEW s \in Stacks, BeginDeploy(c, s) PROVE WaitsRightly'
  BY <1>2 DEF BeginDeploy, Took, Ready
<1>3. ASSUME NEW c \in Sessions, NEW s \in Stacks, BeginDestroy(c, s) PROVE WaitsRightly'
  BY <1>3 DEF BeginDestroy, Took, Ready
<1>4. ASSUME NEW c \in Sessions, NEW s \in Stacks, Skip(c, s) \/ Refused(c, s)
      PROVE  WaitsRightly'
  BY <1>4 DEF Skip, Refused, Took
<1>5. ASSUME NEW c \in Sessions, End(c) PROVE WaitsRightly'
  <2>1. \A s \in Stacks : owner[s] # c
    BY <1>5 DEF End, Running
  <2>2. QED
    BY <1>5, <2>1 DEF End
<1>6. ASSUME NEW c \in Sessions, Cancel(c) PROVE WaitsRightly'
  <2>1. \A s \in Stacks : owner'[s] # None => owner'[s] = owner[s] /\ owner[s] # c
    BY <1>6 DEF Cancel
  <2>2. QED
    BY <1>6, <2>1 DEF Cancel
<1>7. ASSUME NEW s \in Stacks, Finish(s) \/ RollBack(s) PROVE WaitsRightly'
  BY <1>7 DEF Finish, RollBack, Settle
<1>8. CASE NewImage \/ UNCHANGED vars
  BY <1>8 DEF NewImage, vars
<1>9. QED
  BY <1>1, <1>2, <1>3, <1>4, <1>5, <1>6, <1>7, <1>8 DEF Next, Work, Operation

LEMMA UpstreamDoneStep ==
  ASSUME OneSession, TypeOK, WaitsRightly, UpstreamDone, [Next]_vars
  PROVE  UpstreamDone'
<1> USE DEF TypeOK, cfn, cli
<1>1. SUFFICES ASSUME NEW c \in Sessions, mode'[c] = "deploy", ~failed'[c],
                      NEW s \in todo'[c], NEW d \in DependsOn(s)
               PROVE  d \in Pending(c)' \/ stack'[d] \in Exporting
  BY DEF UpstreamDone
<1>2. d \in Stacks /\ \A b \in Sessions : b = c
  <2>1. todo' \in [Sessions -> SUBSET Stacks]
    BY TypeStep
  <2>2. QED
    BY <2>1 DEF DependsOn, OneSession
<1>3. ASSUME NEW m \in {"deploy", "destroy"}, NEW sel \in Selections, Launch(c, m, sel)
      PROVE  d \in todo'[c]
  <2>1. m = "deploy" /\ todo'[c] = UNION {Upstream[t] : t \in sel} /\ sel \subseteq Stacks
    BY <1>1, <1>3 DEF Launch, Selections
  <2>2. PICK t \in sel : s \in Upstream[t]
    BY <2>1
  <2>3. QED
    BY <2>1, <2>2, UpstreamClosed
<1>4. ASSUME mode[c] = "deploy", ~failed[c], s \in todo[c],
             \/ Pending(c) \subseteq Pending(c)'
             \/ d \notin Pending(c),
             stack[d] \in Exporting => stack'[d] \in Exporting
      PROVE  d \in Pending(c)' \/ stack'[d] \in Exporting
  BY <1>4 DEF UpstreamDone
<1>5. ASSUME NEW t \in Stacks, BeginDeploy(c, t)
      PROVE  d \in Pending(c)' \/ stack'[d] \in Exporting
  <2>1. todo' = [todo EXCEPT ![c] = @ \ {t}] /\ owner' = [owner EXCEPT ![t] = c]
    BY <1>5 DEF BeginDeploy, Took
  <2>2. Pending(c) \subseteq Pending(c)'
    BY <2>1 DEF Pending, Running
  <2>3. stack[d] \in Exporting => stack'[d] \in Exporting
    BY <1>2, <1>5 DEF BeginDeploy, Exporting
  <2>4. mode[c] = "deploy" /\ ~failed[c] /\ s \in todo[c]
    BY <1>1, <1>5, <2>1 DEF BeginDeploy, Took
  <2>5. QED
    BY <1>4, <2>2, <2>3, <2>4
<1>6. ASSUME NEW t \in Stacks, BeginDestroy(c, t) \/ Skip(c, t) \/ Refused(c, t) PROVE FALSE
  BY <1>1, <1>6 DEF BeginDestroy, Skip, Refused, Took
<1>7. ASSUME End(c) \/ Cancel(c) PROVE FALSE
  BY <1>1, <1>7 DEF End, Cancel
<1>8. ASSUME NEW t \in Stacks, Finish(t) \/ RollBack(t)
      PROVE  d \in Pending(c)' \/ stack'[d] \in Exporting
  <2>1. mode' = mode /\ todo' = todo /\ ~failed[c]
    BY <1>1, <1>8 DEF Finish, RollBack, Settle
  <2>2. stack[d] \in Exporting => stack'[d] \in Exporting
    BY <1>2, <1>8 DEF Finish, RollBack, Settle, Exporting, InProgress
  <2>3. CASE d = t /\ owner[d] = c
    <3>1. stack[d] \in {"creating", "updating"}
      BY <1>1, <2>1, <2>3 DEF WaitsRightly
    <3>2. Finish(t)
      BY <1>1, <1>8, <2>3 DEF RollBack
    <3>3. QED
      BY <1>2, <2>3, <3>1, <3>2 DEF Finish, Settle, Exporting
  <2>4. CASE ~(d = t /\ owner[d] = c)
    <3>1. d \in Pending(c) => d \in Pending(c)'
      BY <1>2, <1>8, <2>1, <2>4 DEF Finish, RollBack, Settle, Pending, Running
    <3>2. QED
      BY <1>1, <2>1, <2>2, <3>1 DEF UpstreamDone
  <2>5. QED
    BY <2>3, <2>4
<1>9. CASE NewImage \/ UNCHANGED vars
  <2>1. Pending(c)' = Pending(c)
    BY <1>9 DEF NewImage, vars, Pending, Running
  <2>2. QED
    BY <1>1, <1>4, <1>9, <2>1 DEF NewImage, vars
<1>10. QED
  BY <1>2, <1>3, <1>5, <1>6, <1>7, <1>8, <1>9 DEF Next, Work, Operation, Pending

(* One session at a time, after any history of failures and cancelled      *)
(* sessions, and on any graph: when a stack's turn comes, what it imports  *)
(* is exported.                                                            *)
THEOREM ReadyIsAlwaysImportable ==
  ASSUME OneSession
  PROVE  Spec => []ReadyIsImportable
<1>1. Init => WaitsRightly /\ UpstreamDone
  BY DEF Init, WaitsRightly, UpstreamDone
<1>2. TypeOK /\ WaitsRightly /\ UpstreamDone /\ [Next]_vars => WaitsRightly' /\ UpstreamDone'
  BY WaitsRightlyStep, UpstreamDoneStep
<1>3. UpstreamDone => ReadyIsImportable
  <2>1. SUFFICES ASSUME UpstreamDone, NEW c \in Sessions, NEW s \in Stacks,
                        mode[c] = "deploy", Ready(c, s), NEW d \in Imports[s]
                 PROVE  stack[d] \in Exporting
    BY DEF ReadyIsImportable, Importable
  <2>2. d \in DependsOn(s) /\ d \notin Pending(c) /\ ~failed[c] /\ s \in todo[c]
    BY <2>1 DEF DependsOn, Ready
  <2>3. QED
    BY <2>1, <2>2 DEF UpstreamDone
<1>4. QED
  BY TypeCorrect, <1>1, <1>2, <1>3, PTL DEF Spec
=============================================================================
