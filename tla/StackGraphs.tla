---------------------------- MODULE StackGraphs -----------------------------
(***************************************************************************)
(* The resources of one stack and the services of another, the edges       *)
(* their templates get from the code (references between constructs,       *)
(* add_dependency, and what the CDK adds for a function's role and a       *)
(* custom resource's policy), and what each requires from the others.      *)
(***************************************************************************)

(* documentdb_stack.py.  The subnet group is named by a literal, so the    *)
(* reference leaves no edge; the code adds it by hand.                     *)
DocumentDbResources ==
  {"Secret", "SubnetGroup", "SecurityGroup", "Cluster", "Instance", "LambdaRole",
   "LambdaPolicy", "UpdateLambda", "Provider", "ProviderPolicy", "UpdateSecret"}

DocumentDbUses ==
  [r \in DocumentDbResources |->
    CASE r = "Cluster" -> {"Secret", "SubnetGroup", "SecurityGroup"}
      [] r = "Instance" -> {"Cluster"}
      [] r = "UpdateLambda" -> {"LambdaRole"}
      [] r = "UpdateSecret" ->
           {"Secret", "Cluster", "UpdateLambda", "LambdaPolicy", "Provider", "ProviderPolicy"}
      [] OTHER -> {}]

\* the edges that follow from references
DocumentDbReferences ==
  [r \in DocumentDbResources |->
    CASE r = "Cluster" -> {"Secret", "SecurityGroup"}
      [] r = "Instance" -> {"Cluster"}
      [] r = "LambdaPolicy" -> {"LambdaRole", "Secret"}
      [] r = "UpdateLambda" -> {"LambdaRole", "LambdaPolicy"}
      [] r = "ProviderPolicy" -> {"Provider", "UpdateLambda"}
      [] r = "UpdateSecret" -> {"Secret", "Cluster", "UpdateLambda", "Provider", "ProviderPolicy"}
      [] OTHER -> {}]

DocumentDbNeeds ==
  [DocumentDbReferences EXCEPT !["Cluster"] = @ \cup {"SubnetGroup"}]

(* fargate_stack.py: the services of the production profile. *)
FargateServices == {"Mcp", "Rag", "Mail", "Ecomm"}

\* whom a service's image calls by a Service Connect name: rag calls mcp, ecomm
\* mcp, rag and the mail server
Callees ==
  [s \in FargateServices |->
    CASE s = "Rag" -> {"Mcp"} [] s = "Ecomm" -> {"Mcp", "Rag", "Mail"} [] OTHER -> {}]

\* what the stack may do without: run_mail_service
OptionalServices == {"Mail"}

\* mutant: rag does not wait for mcp, nor ecomm for either
Unordered == [s \in FargateServices |-> {}]
\* node.add_dependency between the services
AfterServices ==
  [s \in FargateServices |->
    CASE s = "Rag" -> {"Mcp"} [] s = "Ecomm" -> {"Mcp", "Rag"} [] OTHER -> {}]

(* What the constructs ask of ECS. *)
DesiredCount(s) == IF s = "Mail" THEN 1 ELSE 2

CircuitBreakers == {"Mail"}

\* enable_service_connect
ServiceConnect == FargateServices
=============================================================================
