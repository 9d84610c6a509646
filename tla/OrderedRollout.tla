-------------------------- MODULE OrderedRollout ---------------------------
(***************************************************************************)
(* What deploying the stacks of app.py promises: a stack is in service     *)
(* only while every stack it takes values from is in service too, and the  *)
(* address of a stack never changes under a stack that was given it.       *)
(***************************************************************************)
CONSTANTS
  Stacks,
  Needs,       \* for each stack, the stacks it takes values from
  Addresses

VARIABLES
  up,          \* the stacks in service
  addr         \* the address each stack exports

vars == <<up, addr>>

Dependents(s) == {t \in up : s \in Needs[t]}

Init == up = {} /\ addr \in [Stacks -> Addresses]

Raise(s) ==
  /\ s \notin up /\ Needs[s] \subseteq up
  /\ up' = up \cup {s}
  /\ \E a \in Addresses : addr' = [addr EXCEPT ![s] = a]

Lower(s) ==
  /\ s \in up /\ Dependents(s) = {}
  /\ up' = up \ {s}
  /\ UNCHANGED addr

Move(s) ==
  /\ s \in up /\ Dependents(s) = {}
  /\ \E a \in Addresses : addr' = [addr EXCEPT ![s] = a]
  /\ UNCHANGED up

Next == \E s \in Stacks : Raise(s) \/ Lower(s) \/ Move(s)

Spec == Init /\ [][Next]_vars
=============================================================================
