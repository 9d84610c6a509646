------------------------- MODULE MCFargateServices --------------------------
(* FargateServices with the services of the production profile.            *)
EXTENDS FargateServices, StackGraphs

\* a service called, one that nothing orders, with a circuit breaker, and their caller
Part == {"Rag", "Mail", "Ecomm"}
PartNeeds    == [s \in Part |-> AfterServices[s] \cap Part]
PartBackends == [s \in Part |-> Callees[s] \cap Part]
PartOptional == OptionalServices \cap Part
PartDesired  == [s \in Part |-> DesiredCount(s)]
=============================================================================
