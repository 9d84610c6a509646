----------------------------- MODULE ModelHost ------------------------------
(***************************************************************************)
(* The EC2 instance of AiModelStack: its user data script, which runs once *)
(* in the life of the instance and under `set -e`, and the systemd units   *)
(* it leaves behind, which build llama.cpp, download two models and serve  *)
(* them from the next boot on.                                             *)
(*                                                                         *)
(* Volatile: what the units do in this boot.  On disk: what the user data  *)
(* enabled, the build directory, the binary and the models.  Any command   *)
(* may fail, and the instance may lose power at any point.                 *)
(***************************************************************************)
EXTENDS Naturals, Sequences

CONSTANT MaxFaults     \* bound on failed commands, server exits, power losses

ASSUME ModelHostAssumption == MaxFaults \in Nat

Models == {"llama31", "nomic-embed"}

VARIABLES
  step, marker, enabled,    \* the user data script and what it leaves on disk
  dir, binary, model,       \* on disk: build directory, llama-server, models
  driver,                   \* nvidia-smi answers
  build, download, server,  \* the units, in this boot
  faults

script == <<step, marker, enabled>>
disk   == <<dir, binary, model>>
units  == <<build, download, server>>
vars   == <<script, disk, driver, units, faults>>

\* the script's last steps, in its order; what comes before them installs
\* packages, the Hugging Face client, llama.cpp, the scripts and the units
UserData == <<"install", "units", "verify", "marker", "llama31", "nomic-embed", "reboot">>
Ended == Len(UserData) + 1

Init ==
  /\ step = 1 /\ marker = FALSE /\ enabled = {}
  /\ dir = FALSE /\ binary = FALSE /\ model = {}
  /\ driver = FALSE
  /\ build = "off"
  /\ download = [m \in Models |-> "off"] /\ server = [m \in Models |-> "off"]
  /\ faults = 0

Fault == faults < MaxFaults /\ faults' = faults + 1

\* multi-user.target wants the enabled servers, which require the rest
Boot ==
  /\ step' = Ended
  /\ driver' = FALSE
  /\ build' = IF enabled = {} THEN "off" ELSE "queued"
  /\ download' = [m \in Models |-> IF m \in enabled THEN "queued" ELSE "off"]
  /\ server' = [m \in Models |-> IF m \in enabled THEN "queued" ELSE "off"]
  /\ UNCHANGED <<marker, enabled, disk>>

-----------------------------------------------------------------------------
(* The user data script.                                                   *)

RunStep ==
  /\ step < Len(UserData)
  /\ step' = step + 1
  /\ marker' = (marker \/ UserData[step] = "marker")
  /\ enabled' = enabled \cup ({UserData[step]} \cap Models)
  /\ UNCHANGED <<disk, driver, units, faults>>

\* mutant: the script ends without the reboot
NoReboot ==
  /\ step = Len(UserData) /\ step' = Ended
  /\ UNCHANGED <<marker, enabled, disk, driver, units, faults>>

Reboot == step = Len(UserData) /\ Boot /\ UNCHANGED faults

\* set -e: the script ends, and cloud-init does not run it again
StepFails ==
  /\ step < Len(UserData) /\ Fault
  /\ step' = Ended
  /\ UNCHANGED <<marker, enabled, disk, driver, units>>

-----------------------------------------------------------------------------
(* llama-build.service, a oneshot: build-llama.sh.                         *)

Build(from, to) ==
  /\ build = from /\ build' = to
  /\ UNCHANGED <<script, model, driver, download, server, faults>>

StartBuild  == Build("queued", "waiting") /\ UNCHANGED <<dir, binary>>
DriverReady == driver /\ Build("waiting", "checking") /\ UNCHANGED <<dir, binary>>
\* mutant: a build directory is taken for a finished build
CheckDirectory ==
  Build("checking", IF dir THEN "active" ELSE "cleaning") /\ UNCHANGED <<dir, binary>>
CheckBinary ==
  Build("checking", IF binary THEN "active" ELSE "cleaning") /\ UNCHANGED <<dir, binary>>
Clean     == Build("cleaning", "configuring") /\ dir' = FALSE /\ binary' = FALSE
Configure == Build("configuring", "compiling") /\ dir' = TRUE /\ UNCHANGED binary
Compile   == Build("compiling", "active") /\ binary' = TRUE /\ UNCHANGED dir

Scripting == {"waiting", "checking", "cleaning", "configuring", "compiling"}

BuildFails ==
  /\ build \in Scripting \ {"waiting"} /\ Fault
  /\ build' = "failed"
  /\ UNCHANGED <<script, disk, driver, download, server>>

LoadDriver ==
  /\ step = Ended /\ ~driver /\ driver' = TRUE
  /\ UNCHANGED <<script, disk, units, faults>>

-----------------------------------------------------------------------------
(* llama-download.service and nomic-embed-download.service, oneshots that  *)
(* require the build and come after it.                                    *)

Download(m, from, to) ==
  /\ download[m] = from
  /\ download' = [download EXCEPT ![m] = to]
  /\ UNCHANGED <<script, dir, binary, driver, build, server, faults>>

StartDownload(m) ==
  /\ build \in {"active", "failed"}
  /\ Download(m, "queued", IF build = "active" THEN "checking" ELSE "skipped")
  /\ UNCHANGED model

CheckModel(m) ==
  /\ Download(m, "checking", IF m \in model THEN "active" ELSE "fetching")
  /\ UNCHANGED model

Fetch(m) == Download(m, "fetching", "active") /\ model' = model \cup {m}

DownloadFails(m) ==
  /\ download[m] \in {"checking", "fetching"} /\ Fault
  /\ download' = [download EXCEPT ![m] = "failed"]
  /\ UNCHANGED <<script, disk, driver, build, server>>

-----------------------------------------------------------------------------
(* llama-server.service and nomic-embed-server.service: each requires and  *)
(* comes after one download, and is restarted whenever it exits.           *)

\* mutant: both units name llama-download.service
LlamaDownload(m) == "llama31"
DownloadOf(m) == m

Serve(m, from, to) ==
  /\ server[m] = from
  /\ server' = [server EXCEPT ![m] = to]
  /\ UNCHANGED <<script, disk, driver, build, download>>

StartServer(m) ==
  LET d == download[DownloadOf(m)] IN
  /\ d \in {"active", "failed", "skipped"}
  /\ Serve(m, "queued", IF d = "active" THEN "active" ELSE "skipped")
  /\ UNCHANGED faults

ServerExits(m) == Serve(m, "active", "restarting") /\ Fault
Restart(m)     == Serve(m, "restarting", "active") /\ UNCHANGED faults

-----------------------------------------------------------------------------
PowerLoss == Boot /\ Fault

\* somebody looks after a host on which a unit failed
Operator ==
  /\ build = "failed" \/ \E m \in Models : download[m] = "failed"
  /\ Boot /\ UNCHANGED faults

BuildUnit ==
  StartBuild \/ DriverReady \/ CheckBinary \/ Clean \/ Configure \/ Compile
ModelUnits(m) ==
  StartDownload(m) \/ CheckModel(m) \/ Fetch(m) \/ StartServer(m) \/ Restart(m)

Next ==
  \/ RunStep \/ Reboot \/ StepFails
  \/ BuildUnit \/ BuildFails \/ LoadDriver
  \/ \E m \in Models : ModelUnits(m) \/ DownloadFails(m) \/ ServerExits(m)
  \/ PowerLoss \/ Operator

Spec == Init /\ [][Next]_vars

(* Scripts and systemd go on by themselves, the driver comes up in every   *)
(* boot that lasts, and a host with a failed unit is rebooted some day.    *)
Fairness ==
  /\ WF_vars(RunStep \/ Reboot)
  /\ WF_vars(BuildUnit) /\ WF_vars(LoadDriver) /\ WF_vars(Operator)
  /\ \A m \in Models : WF_vars(ModelUnits(m))

FairSpec == Spec /\ Fairness

-----------------------------------------------------------------------------
(* Every variable has its type. *)
TypeOK ==
  /\ step \in 1..Ended /\ marker \in BOOLEAN /\ enabled \subseteq Models
  /\ dir \in BOOLEAN /\ binary \in BOOLEAN /\ model \subseteq Models
  /\ driver \in BOOLEAN
  /\ build \in Scripting \cup {"off", "queued", "active", "failed"}
  /\ download \in [Models -> {"off", "queued", "checking", "fetching", "active",
                              "failed", "skipped"}]
  /\ server \in [Models -> {"off", "queued", "active", "restarting", "skipped"}]
  /\ faults \in 0..MaxFaults

(* A server is only ever started on a finished binary and its own, whole   *)
(* model, whichever command failed and wherever the power was lost: with   *)
(* Restart=always it would otherwise be restarted for ever.                *)
ServersHaveFiles ==
  \A m \in Models : server[m] \in {"active", "restarting"} => binary /\ m \in model

(* One model's failed download keeps the other from being served never.    *)
FailuresStayApart ==
  \A m \in Models :
    server[m] = "skipped" => build = "failed" \/ download[m] = "failed"

(* Once both servers are enabled, no failure is for good: the scripts can  *)
(* be run again after any of them.                                         *)
EnabledServes ==
  enabled = Models ~> \A m \in Models : server[m] = "active"

\* what stands behind ServersHaveFiles and FailuresStayApart
UnitsInv ==
  /\ build = "active" => binary
  /\ build \in {"cleaning", "configuring", "compiling"} => ~binary
  /\ \A m \in Models :
       /\ download[m] \in {"checking", "fetching", "active"} => build = "active"
       /\ download[m] = "active" => m \in model
       /\ download[m] = "skipped" => build = "failed"
       /\ server[m] \in {"active", "restarting"} => download[m] = "active"
=============================================================================
