----------------------------- MODULE AppStacks ------------------------------
(***************************************************************************)
(* The stack graph that app.py builds for a pipeline profile, and which of *)
(* its stacks export the address of an instance launched from the latest   *)
(* machine image.                                                          *)
(***************************************************************************)

StacksOf(profile) ==
  {"Vpc", "AiModel", "Qdrant", "Zipkin", "RedisCluster", "DocumentDB",
   "PostgresDB", "PostgresConfig", "EcsFargate"}
  \cup (IF profile = "dev" THEN {"RedisInsight"} ELSE {})

\* add_dependency
DeclaredOf(profile) ==
  [s \in StacksOf(profile) |->
    CASE s = "Vpc" -> {}
      [] s = "RedisInsight" -> {"RedisCluster"}
      [] s = "PostgresConfig" -> {"PostgresDB"}
      [] s = "EcsFargate" ->
           {"Vpc", "RedisCluster", "DocumentDB", "PostgresDB", "AiModel", "Qdrant"}
      [] OTHER -> {"Vpc"}]

\* the constructor arguments whose attributes live in another stack
ImportsOf(profile) ==
  [s \in StacksOf(profile) |->
    CASE s = "Vpc" -> {}
      [] s = "RedisInsight" -> {"Vpc", "RedisCluster"}
      [] s = "PostgresConfig" -> {"Vpc", "PostgresDB"}
      [] s = "EcsFargate" ->
           {"Vpc", "RedisCluster", "DocumentDB", "PostgresDB", "AiModel", "Qdrant",
            "Zipkin"}
      [] OTHER -> {"Vpc"}]

\* RedisInsight has an instance too, but nobody takes its address
HostStacks == {"AiModel", "Qdrant", "Zipkin"}
=============================================================================
