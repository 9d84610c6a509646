-------------------------- MODULE ModelHost_proofs --------------------------
(***************************************************************************)
(* Proofs about ModelHost, for any number of failed commands, server exits *)
(* and power losses.                                                       *)
(***************************************************************************)
EXTENDS ModelHost, TLAPS

USE ModelHostAssumption DEF Models, Fault, script, disk, units, Scripting

LEMMA ScriptLength == Len(UserData) = 7 /\ Ended = 8
BY DEF UserData, Ended

(* Type correctness, and what each unit's state says about the disk and    *)
(* about the units it requires, are preserved by every step.               *)
LEMMA TypeStep ==
  ASSUME TypeOK, [Next]_vars
  PROVE  TypeOK'
<1> USE ScriptLength DEF TypeOK
<1>1. ASSUME Boot, faults' \in 0..MaxFaults PROVE TypeOK'
  <2>1. step' = 8 /\ driver' = FALSE
    BY <1>1, ScriptLength DEF Boot
  <2>2. build' \in {"off", "queued"}
    BY <1>1 DEF Boot
  <2>3. download' \in [Models -> {"off", "queued"}] /\ server' \in [Models -> {"off", "queued"}]
    BY <1>1 DEF Boot
  <2>4. UNCHANGED <<marker, enabled, dir, binary, model>>
    BY <1>1 DEF Boot
  <2>5. step' \in 1..Ended
    BY <2>1
  <2>6. build' \in Scripting \cup {"off", "queued", "active", "failed"}
    BY <2>2
  <2>7. download' \in [Models -> {"off", "queued", "checking", "fetching", "active",
                                  "failed", "skipped"}]
    BY <2>3
  <2>8. server' \in [Models -> {"off", "queued", "active", "restarting", "skipped"}]
    BY <2>3
  <2>9. QED
    BY <1>1, <2>1, <2>4, <2>5, <2>6, <2>7, <2>8
<1>2. CASE RunStep
  <2>1. step' \in 1..Ended
    BY <1>2 DEF RunStep
  <2>2. marker' \in BOOLEAN /\ enabled' \subseteq Models
    BY <1>2 DEF RunStep
  <2>3. QED
    BY <1>2, <2>1, <2>2 DEF RunStep
<1>3. CASE Reboot \/ PowerLoss \/ Operator
  BY <1>1, <1>3 DEF Reboot, PowerLoss, Operator
<1>4. CASE StepFails \/ BuildFails \/ LoadDriver
  <2>1. CASE StepFails
    <3>1. step' \in 1..Ended /\ faults' \in 0..MaxFaults
      BY <2>1 DEF StepFails
    <3>2. QED
      BY <2>1, <3>1 DEF StepFails
  <2>2. CASE BuildFails
    BY <2>2 DEF BuildFails
  <2>3. CASE LoadDriver
    BY <2>3 DEF LoadDriver
  <2>4. QED
    BY <1>4, <2>1, <2>2, <2>3
<1>5. CASE BuildUnit
  BY <1>5 DEF BuildUnit, Build, StartBuild, DriverReady, CheckBinary, Clean,
              Configure, Compile
<1>6. ASSUME NEW m \in Models, ModelUnits(m) \/ DownloadFails(m) \/ ServerExits(m)
      PROVE  TypeOK'
  <2>1. CASE StartDownload(m) \/ CheckModel(m) \/ Fetch(m)
    <3>1. download' \in [Models -> {"off", "queued", "checking", "fetching", "active",
                                    "failed", "skipped"}]
      BY <2>1 DEF Download, StartDownload, CheckModel, Fetch
    <3>2. model' \subseteq Models
      BY <2>1 DEF StartDownload, CheckModel, Fetch
    <3>3. UNCHANGED <<script, dir, binary, driver, build, server, faults>>
      BY <2>1 DEF Download, StartDownload, CheckModel, Fetch
    <3>4. QED
      BY <3>1, <3>2, <3>3
  <2>2. CASE StartServer(m) \/ Restart(m)
    BY ZenonT(60), <2>2 DEF Serve, StartServer, Restart
  <2>3. CASE DownloadFails(m)
    BY <2>3 DEF DownloadFails
  <2>4. CASE ServerExits(m)
    BY <2>4 DEF Serve, ServerExits
  <2>5. QED
    BY <1>6, <2>1, <2>2, <2>3, <2>4 DEF ModelUnits
<1>7. CASE UNCHANGED vars
  BY <1>7 DEF vars
<1>8. QED
  BY <1>2, <1>3, <1>4, <1>5, <1>6, <1>7 DEF Next

LEMMA UnitsStep ==
  ASSUME TypeOK, UnitsInv, FailuresStayApart, [Next]_vars
  PROVE  UnitsInv' /\ FailuresStayApart'
<1> USE DEF TypeOK, UnitsInv, FailuresStayApart
<1>1. ASSUME Boot PROVE UnitsInv' /\ FailuresStayApart'
  BY <1>1 DEF Boot
<1>2. CASE RunStep \/ StepFails \/ LoadDriver
  BY <1>2 DEF RunStep, StepFails, LoadDriver
<1>3. CASE Reboot \/ PowerLoss \/ Operator
  BY <1>1, <1>3 DEF Reboot, PowerLoss, Operator
<1>4. CASE BuildFails
  BY <1>4 DEF BuildFails
<1>5. CASE BuildUnit
  BY <1>5 DEF BuildUnit, Build, StartBuild, DriverReady, CheckBinary, Clean,
              Configure, Compile
<1>6. ASSUME NEW m \in Models, ModelUnits(m) \/ DownloadFails(m) \/ ServerExits(m)
      PROVE  UnitsInv' /\ FailuresStayApart'
  BY <1>6 DEF ModelUnits, Download, DownloadOf, StartDownload, CheckModel, Fetch,
              Serve, StartServer, Restart, DownloadFails, ServerExits
<1>7. CASE UNCHANGED vars
  BY <1>7 DEF vars
<1>8. QED
  BY <1>2, <1>3, <1>4, <1>5, <1>6, <1>7 DEF Next

LEMMA Invariants == Spec => [](TypeOK /\ UnitsInv /\ FailuresStayApart)
<1>1. Init => TypeOK /\ UnitsInv /\ FailuresStayApart
  <2> SUFFICES ASSUME Init PROVE TypeOK /\ UnitsInv /\ FailuresStayApart
    OBVIOUS
  <2>1. step \in 1..Ended /\ faults \in 0..MaxFaults
    BY ScriptLength DEF Init
  <2>2. QED
    BY <2>1 DEF Init, TypeOK, UnitsInv, FailuresStayApart
<1>2. TypeOK /\ UnitsInv /\ FailuresStayApart /\ [Next]_vars
        => TypeOK' /\ UnitsInv' /\ FailuresStayApart'
  BY TypeStep, UnitsStep
<1>3. QED
  BY <1>1, <1>2, PTL DEF Spec

(* The states of the script, the files and the units, in every boot.       *)
THEOREM TypeCorrect == Spec => []TypeOK
BY Invariants, PTL

(* No failure and no power loss, at whatever point, lets systemd run a     *)
(* server without its binary or its model.                                 *)
THEOREM ServersAlwaysHaveFiles == Spec => []ServersHaveFiles
<1>1. UnitsInv => ServersHaveFiles
  BY DEF UnitsInv, ServersHaveFiles
<1>2. QED
  BY <1>1, Invariants, PTL

(* A server is only left out when the build or its own download failed.    *)
THEOREM FailuresAlwaysStayApart == Spec => []FailuresStayApart
BY Invariants, PTL
=============================================================================
