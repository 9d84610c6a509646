---------------------------- MODULE MCDeployment ----------------------------
(* Instances of Deployment for TLC: the graphs of both profiles, and a     *)
(* part of the production graph in which every kind of stack and edge      *)
(* occurs once, small enough for two sessions and several faults.          *)
EXTENDS Deployment, AppStacks

ProdStacks   == StacksOf("prod")
ProdDeclared == DeclaredOf("prod")
ProdImports  == ImportsOf("prod")
DevStacks    == StacksOf("dev")
DevDeclared  == DeclaredOf("dev")
DevImports   == ImportsOf("dev")

Part == {"Vpc", "Zipkin", "PostgresDB", "PostgresConfig", "EcsFargate"}
Core == Part \ {"PostgresConfig"}
PartDeclared == [s \in Part |-> ProdDeclared[s] \cap Part]
PartImports  == [s \in Part |-> ProdImports[s] \cap Part]
PartHosts    == HostStacks \cap Part
CoreDeclared == [s \in Core |-> ProdDeclared[s] \cap Core]
CoreImports  == [s \in Core |-> ProdImports[s] \cap Core]
=============================================================================
