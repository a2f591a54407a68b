------------------------- MODULE ContrailRunProofs -------------------------
(***************************************************************************)
(* Proofs about ContrailRun for every set of plans, every number of        *)
(* parameter revisions and every number of faults.                         *)
(***************************************************************************)
EXTENDS ContrailRun, TLAPS

-----------------------------------------------------------------------------
(* Facts about the chains of the catalog.                                  *)

(* In the chain that installs a unit with a notified service, the third    *)
(* resource configures it and the fourth serves it.                        *)
LEMMA NotifiedChain ==
  ASSUME NEW u \in Notified
  PROVE  /\ InstallChain(u, snap)[3] = "config"
         /\ InstallChain(u, snap)[4] = "service"
         /\ Len(InstallChain(u, snap)) \in {5, 6}
         /\ DOMAIN InstallChain(u, snap) = 1 .. Len(InstallChain(u, snap))
         /\ \A k \in 1 .. Len(InstallChain(u, snap)) :
              /\ InstallChain(u, snap)[k] \notin {"stop", "purge", "clean", "reboot", "setup"}
              /\ InstallChain(u, snap)[k] = "config" => k = 3
              /\ InstallChain(u, snap)[k] = "service" => k = 4
              /\ InstallChain(u, snap)[k] = "completed" => 4 < k
<1>1. CASE u = "config"
  <2>1. InstallChain(u, snap) = << "started", "install", "config", "service",
                             "provision", "completed" >>
    BY <1>1 DEF InstallChain, config
  <2> QED BY <2>1
<1>2. CASE u # "config"
  <2>1. InstallChain(u, snap) = << "started", "install", "config", "service", "completed" >>
    BY <1>2 DEF InstallChain, control, Notified
  <2> QED BY <2>1
<1> QED BY <1>1, <1>2

(* No chain that removes a unit installs, configures or serves anything.   *)
LEMMA RemovalChain ==
  ASSUME NEW s, NEW k \in DOMAIN RemoveChain(s)
  PROVE  RemoveChain(s)[k] \notin {"install", "config", "service"}
BY DEF RemoveChain, uninstall_config, uninstall_database, uninstall_control,
       uninstall_collector, uninstall_webui, uninstall_openstack, uninstall_compute,
       uninstall_haproxy

(* Only a unit is installed, configured or served.                         *)
LEMMA UnitChain ==
  ASSUME NEW s \in Stages, NEW k \in DOMAIN InstallChain(s, snap),
         InstallChain(s, snap)[k] \in {"install", "config", "service"}
  PROVE  s \in Units
BY DEF InstallChain, control, config, compute, computeUpgrade, tsn, toragent,
       provision_complete, common,
       Stages, Units, FactRoles

(* A resource of the catalog is a stage and an index in the stage's chain. *)
LEMMA StepPair ==
  ASSUME NEW st \in Steps(snap)
  PROVE  /\ st = << st[1], st[2] >>
         /\ st[1] \in Stages
         /\ st[2] \in DOMAIN Chain(st[1], snap)
         /\ Op(st, snap) = Chain(st[1], snap)[st[2]]
BY DEF Steps, Op

(* Installing, configuring or serving is what the installing chain of a    *)
(* unit does.                                                              *)
LEMMA UnitIndex ==
  ASSUME NEW s \in Stages, NEW k \in DOMAIN Chain(s, snap),
         Chain(s, snap)[k] \in {"install", "config", "service"}
  PROVE  s \in Units /\ Installs(s, snap)
<1>1. CASE Installs(s, snap)
  <2>1. Chain(s, snap) = InstallChain(s, snap)
    BY <1>1 DEF Chain
  <2> QED BY <1>1, <2>1, UnitChain
<1>2. CASE ~Installs(s, snap) /\ Removes(s, snap)
  <2>1. Chain(s, snap) = RemoveChain(s)
    BY <1>2 DEF Chain
  <2> QED BY <2>1, RemovalChain
<1>3. CASE ~Installs(s, snap) /\ ~Removes(s, snap)
  <2>1. Chain(s, snap) = << >>
    BY <1>3 DEF Chain
  <2>2. DOMAIN << >> = {}
    OBVIOUS
  <2> QED BY <2>1, <2>2
<1> QED BY <1>1, <1>2, <1>3

LEMMA UnitStep ==
  ASSUME NEW st \in Steps(snap),
         Op(st, snap) \in {"install", "config", "service"}
  PROVE  st[1] \in Units /\ Installs(st[1], snap)
<1>1. /\ st[1] \in Stages /\ st[2] \in DOMAIN Chain(st[1], snap)
      /\ Chain(st[1], snap)[st[2]] \in {"install", "config", "service"}
  BY StepPair
<1> QED BY <1>1, UnitIndex

(* On a unit with a notified service that the catalog installs, "config"   *)
(* is the third resource and nothing is stopped or removed.                *)
LEMMA NotifiedStep ==
  ASSUME NEW st \in Steps(snap), st[1] \in Notified, Installs(st[1], snap)
  PROVE  /\ Op(st, snap) \notin {"stop", "purge", "clean"}
         /\ Op(st, snap) = "config" => st = << st[1], 3 >>
         /\ Op(st, snap) = "service" => st = << st[1], 4 >>
         /\ Op(st, snap) = "completed" => 4 < st[2]
         /\ st[2] = 3 => Op(st, snap) = "config"
         /\ st[2] = 4 => Op(st, snap) = "service"
<1>1. /\ st = << st[1], st[2] >>
      /\ st[2] \in DOMAIN InstallChain(st[1], snap)
      /\ Op(st, snap) = InstallChain(st[1], snap)[st[2]]
  BY StepPair DEF Chain
<1> QED BY <1>1, NotifiedChain

(* Only an installation reports completion, that of a unit with a notified *)
(* service after serving it.                                               *)
LEMMA CompletedStep ==
  ASSUME NEW st \in Steps(snap), Op(st, snap) = "completed"
  PROVE  /\ Installs(st[1], snap)
         /\ st[1] \in Notified => 4 < st[2] /\ st[2] \in Nat
<1>1. /\ st = << st[1], st[2] >> /\ st[2] \in DOMAIN Chain(st[1], snap)
      /\ Op(st, snap) = Chain(st[1], snap)[st[2]]
  BY StepPair
<1>2. Installs(st[1], snap)
  <2>1. ASSUME NEW s, NEW k \in DOMAIN RemoveChain(s)
        PROVE  RemoveChain(s)[k] # "completed"
    BY DEF RemoveChain, uninstall_config, uninstall_database, uninstall_control,
           uninstall_collector, uninstall_webui, uninstall_openstack,
           uninstall_compute, uninstall_haproxy
  <2>2. Chain(st[1], snap) # << >>
    BY <1>1
  <2> QED BY <1>1, <2>1, <2>2 DEF Chain
<1>3. st[1] \in Notified => 4 < st[2] /\ st[2] \in Nat
  <2> SUFFICES ASSUME st[1] \in Notified PROVE 4 < st[2] /\ st[2] \in Nat
    OBVIOUS
  <2>1. Chain(st[1], snap) = InstallChain(st[1], snap)
    BY <1>2 DEF Chain
  <2>2. DOMAIN InstallChain(st[1], snap) \subseteq Nat
    BY NotifiedChain
  <2> QED BY <1>1, <1>2, <2>1, <2>2, NotifiedStep
<1> QED BY <1>2, <1>3

(* The configuring and the serving resource are in the catalog.            *)
LEMMA NotifiedSteps ==
  ASSUME NEW u \in Notified, Installs(u, snap)
  PROVE  << u, 3 >> \in Steps(snap) /\ << u, 4 >> \in Steps(snap)
<1>1. Chain(u, snap) = InstallChain(u, snap)
  BY DEF Chain
<1>2. 3 \in DOMAIN Chain(u, snap) /\ 4 \in DOMAIN Chain(u, snap)
  BY <1>1, NotifiedChain
<1>3. u \in Stages
  BY DEF Notified, Stages
<1> QED BY <1>2, <1>3 DEF Steps

-----------------------------------------------------------------------------
(* Type correctness, with the two facts about the phase it rests on.       *)

LEMMA InitIInv == Init => IInv
<1> SUFFICES ASSUME Init PROVE IInv
  OBVIOUS
<1> USE FlagsAssumption, RunAssumption
<1>1. TypeOK
  <2>1. conf \in [Units -> 0 .. MaxVersion]
    BY DEF Init
  <2>2. snap \in Snapshots
    BY DEF Init, NoSnap, Snapshots
  <2>3. lastState \in SentStates
    BY DEF Init, SentStates
  <2>4. /\ plan \in Plans /\ version \in 1 .. MaxVersion /\ faults \in 0 .. MaxFaults
        /\ release \in Nat
    BY DEF Init
  <2> QED BY <2>1, <2>2, <2>3, <2>4 DEF Init, TypeOK, Outcomes
<1>2. PhaseOK
  BY DEF Init, PhaseOK
<1>3. DownClosed
  BY DEF Init, DownClosed
<1>4. FilesCurrent
  BY DEF Init, FilesCurrent, Configured
<1>5. StaleIsNotified
  BY DEF Init, StaleIsNotified, Stale
<1> QED BY <1>1, <1>2, <1>3, <1>4, <1>5 DEF IInv

LEMMA SentIsState ==
  ASSUME NEW s \in Stages, NEW op
  PROVE  Sent(s, op) \in SentStates
BY DEF Sent, SentStates

(* The end of a run, however it ends.                                      *)
LEMMA OverType ==
  ASSUME NEW how \in Outcomes, Over(how)
  PROVE  /\ phase' \in {"idle", "applying"} /\ snap' \in Snapshots
         /\ done' \in SUBSET Steps(snap') /\ failed' \in SUBSET Steps(snap')
         /\ outcome' \in Outcomes
BY RunAssumption DEF Over, NoSnap, Snapshots

LEMMA BootType ==
  ASSUME TypeOK, Boot, marks' \in SUBSET Marks, faults' \in 0 .. MaxFaults
  PROVE  TypeOK'
<1>1. /\ phase' \in {"idle", "applying"} /\ snap' \in Snapshots
      /\ done' \in SUBSET Steps(snap') /\ failed' \in SUBSET Steps(snap')
      /\ outcome' \in Outcomes
  BY OverType DEF Boot, Outcomes
<1>2. up' \in SUBSET Units
  BY DEF Boot, TypeOK
<1> QED BY <1>1, <1>2 DEF Boot, TypeOK

(* Serving restarts units on their current files.                          *)
LEMMA StartType ==
  ASSUME TypeOK, NEW U \in SUBSET Units, Start(U)
  PROVE  /\ up' \in SUBSET Units
         /\ loaded' \in [Units -> 0 .. MaxVersion]
         /\ due' \in SUBSET (Units \cup {"reboot"})
         /\ lost' \in SUBSET (Units \cup {"reboot"})
BY DEF Start, TypeOK

LEMMA ApplyType ==
  ASSUME TypeOK, NEW st \in Ready, Apply(st)
  PROVE  TypeOK'
<1>1. st \in Steps(snap)
  BY DEF Ready
<1>2. /\ plan' = plan /\ version' = version /\ phase' = phase /\ snap' = snap
      /\ failed' = failed /\ outcome' = outcome /\ faults' = faults
      /\ done' = done \cup {st}
  BY DEF Apply, Applied
<1>3. done' \in SUBSET Steps(snap') /\ failed' \in SUBSET Steps(snap')
  BY <1>1, <1>2 DEF TypeOK
<1>a. st[1] \in Stages
  BY <1>1, StepPair
<1>4. CASE ReportStatus(st)
  <2>1. lastState' \in SentStates
    BY <1>4, <1>a, SentIsState DEF ReportStatus
  <2> QED BY <1>2, <1>3, <1>4, <2>1 DEF ReportStatus, host, TypeOK
<1>5. CASE Install(st)
  <2>1. st[1] \in Units
    BY <1>1, <1>5, UnitStep DEF Install
  <2>2. /\ pkgs' \in SUBSET Units /\ up' \in SUBSET Units
        /\ loaded' \in [Units -> 0 .. MaxVersion]
        /\ due' \in SUBSET (Units \cup {"reboot"}) /\ release' \in Nat
    BY <1>5, <2>1 DEF Install, LibUpdated, Snapshots, TypeOK
  <2> QED BY <1>2, <1>3, <1>5, <2>2 DEF Install, TypeOK
<1>6. CASE Configure(st)
  <2>1. st[1] \in Units
    BY <1>1, <1>6, UnitStep DEF Configure
  <2>2. snap.version \in 0 .. MaxVersion
    BY DEF TypeOK, Snapshots
  <2>3. conf' \in [Units -> 0 .. MaxVersion] /\ due' \in SUBSET (Units \cup {"reboot"})
    BY <1>6, <2>1, <2>2 DEF Configure, TypeOK
  <2> QED BY <1>2, <1>3, <1>6, <2>3 DEF Configure, TypeOK
<1>7. CASE Serve(st)
  <2>1. Op(st, snap) = "service" => st[1] \in Units
    BY <1>1, UnitStep
  <2>2. /\ up' \in SUBSET Units
        /\ loaded' \in [Units -> 0 .. MaxVersion]
        /\ due' \in SUBSET (Units \cup {"reboot"})
        /\ lost' \in SUBSET (Units \cup {"reboot"})
    <3>1. CASE UNCHANGED << up, loaded, due, lost >>
      BY <3>1 DEF TypeOK
    <3>2. CASE Op(st, snap) = "service" /\ Start({st[1]})
      BY <3>2, <2>1, StartType
    <3>3. CASE Start({"compute"})
      BY <3>3, StartType DEF Units, FactRoles
    <3>4. CASE Start(snap.roles \cap pkgs \cap {"openstack", "config"})
      BY <3>4, StartType DEF Units, FactRoles
    <3> QED BY <1>7, <3>1, <3>2, <3>3, <3>4 DEF Serve
  <2> QED BY <1>2, <1>3, <1>7, <2>2 DEF Serve, TypeOK
<1>8. CASE CallApi(st)
  <2>1. marks' \in SUBSET Marks
    BY <1>8 DEF CallApi, Marks, ComputeMarks, TypeOK
  <2> QED BY <1>2, <1>3, <1>8, <2>1 DEF CallApi, host, TypeOK
<1>9. CASE SetupCompute(st)
  <2>1. /\ marks' \in SUBSET Marks /\ due' \in SUBSET (Units \cup {"reboot"})
        /\ unbooted' \in {"no", "notified", "upgraded"}
    BY <1>9 DEF SetupCompute, Marks, ComputeMarks, TypeOK
  <2> QED BY <1>2, <1>3, <1>9, <2>1 DEF SetupCompute, host, TypeOK
<1>10. CASE Remove(st)
  <2>1. /\ pkgs' \in SUBSET Units /\ up' \in SUBSET Units
        /\ conf' \in [Units -> 0 .. MaxVersion]
    BY <1>10, RunAssumption DEF Remove, TypeOK
  <2> QED BY <1>2, <1>3, <1>10, <2>1 DEF Remove, TypeOK
<1>11. CASE ClearCompute(st)
  <2>1. marks' \in SUBSET Marks
    BY <1>11 DEF ClearCompute, TypeOK
  <2> QED BY <1>2, <1>3, <1>11, <2>1 DEF ClearCompute, host, TypeOK
<1>12. CASE ClearOutFiles(st)
  <2>1. marks' \in SUBSET Marks
    BY <1>12 DEF ClearOutFiles, Marks, TypeOK
  <2> QED BY <1>2, <1>3, <1>12, <2>1 DEF ClearOutFiles, host, TypeOK
<1>13. CASE OtherTask(st)
  BY <1>2, <1>3, <1>13 DEF OtherTask, host, TypeOK
<1> QED BY <1>4, <1>5, <1>6, <1>7, <1>8, <1>9, <1>10, <1>11, <1>12, <1>13 DEF Apply

LEMMA TypeStep == TypeOK /\ PhaseOK /\ [Next]_vars => TypeOK' /\ PhaseOK'
<1> SUFFICES ASSUME TypeOK, PhaseOK, [Next]_vars PROVE TypeOK' /\ PhaseOK'
  OBVIOUS
<1>1. ASSUME NEW p \in Plans, SetPlan(p) PROVE TypeOK' /\ PhaseOK'
  <2>1. version' \in 1 .. MaxVersion
    BY <1>1, RunAssumption DEF SetPlan, TypeOK
  <2> QED BY <1>1, <2>1 DEF SetPlan, host, run, TypeOK, PhaseOK
<1>2. CASE StartRun
  <2>1. Compiled \in Snapshots
    <3>1. plan.roles \in SUBSET RoleNames /\ plan.enabled \in SUBSET Stages
      BY RunAssumption DEF TypeOK
    <3>2. version \in 0 .. MaxVersion
      BY RunAssumption DEF TypeOK
    <3>3. plan.release \in Nat /\ Upgrade \in {"no", "asked", "needed"}
      BY RunAssumption DEF TypeOK, Upgrade
    <3> QED BY <3>1, <3>2, <3>3 DEF Compiled, Snapshots
  <2>2. snap'.version # 0
    BY <1>2 DEF StartRun, Compiled, TypeOK
  <2>3. done = {} /\ failed = {}
    BY <1>2 DEF StartRun, PhaseOK
  <2> QED BY <1>2, <2>1, <2>2, <2>3 DEF StartRun, host, TypeOK, PhaseOK
<1>3. CASE RefuseRun
  BY <1>3 DEF RefuseRun, host, TypeOK, PhaseOK, Outcomes
<1>4. CASE EndRun
  <2>1. PICK how \in Outcomes : Over(how)
    BY <1>4 DEF EndRun, Outcomes
  <2>2. PhaseOK'
    BY <2>1 DEF Over, PhaseOK
  <2> QED BY <1>4, <2>1, <2>2, OverType DEF EndRun, host, TypeOK
<1>5. ASSUME NEW st \in Ready, Apply(st) PROVE TypeOK' /\ PhaseOK'
  <2>1. PhaseOK'
    BY <1>5 DEF Apply, Applied, PhaseOK
  <2> QED BY <1>5, <2>1, ApplyType
<1>6. ASSUME NEW st \in Ready, RebootResource(st) PROVE TypeOK' /\ PhaseOK'
  <2>1. PhaseOK'
    BY <1>6 DEF RebootResource, Boot, Over, PhaseOK
  <2>2. marks' \in SUBSET Marks /\ faults' \in 0 .. MaxFaults
    BY <1>6 DEF RebootResource, TypeOK
  <2> QED BY <1>6, <2>1, <2>2, BootType DEF RebootResource
<1>7. ASSUME NEW st \in Ready, StepFails(st) PROVE TypeOK' /\ PhaseOK'
  <2>1. st \in Steps(snap)
    BY DEF Ready
  <2>2. faults' \in 0 .. MaxFaults
    BY <1>7, RunAssumption DEF StepFails, TypeOK
  <2>3. failed' \in SUBSET Steps(snap)
    BY <1>7, <2>1 DEF StepFails, Fail, TypeOK
  <2>4. up' \in SUBSET Units /\ due' \in SUBSET (Units \cup {"reboot"})
    BY <1>7 DEF StepFails, Fail, TypeOK
  <2>5. PhaseOK'
    BY <1>7 DEF StepFails, Fail, PhaseOK
  <2> QED BY <1>7, <2>2, <2>3, <2>4, <2>5 DEF StepFails, Fail, TypeOK
<1>8. CASE AgentKilled
  <2>1. Over("killed") /\ "killed" \in Outcomes
    BY <1>8 DEF AgentKilled, Outcomes
  <2>2. PhaseOK'
    BY <2>1 DEF Over, PhaseOK
  <2>3. faults' \in 0 .. MaxFaults
    BY <1>8, RunAssumption DEF AgentKilled, TypeOK
  <2> QED BY <1>8, <2>1, <2>2, <2>3, OverType DEF AgentKilled, host, TypeOK
<1>9. CASE HostReboots
  <2>1. PhaseOK'
    BY <1>9 DEF HostReboots, Boot, Over, PhaseOK
  <2>2. marks' \in SUBSET Marks /\ faults' \in 0 .. MaxFaults
    BY <1>9, RunAssumption DEF HostReboots, TypeOK
  <2> QED BY <1>9, <2>1, <2>2, BootType DEF HostReboots
<1>10. ASSUME NEW u \in Units, ServiceDies(u) PROVE TypeOK' /\ PhaseOK'
  <2>1. faults' \in 0 .. MaxFaults
    BY <1>10, RunAssumption DEF ServiceDies, TypeOK
  <2> QED BY <1>10, <2>1 DEF ServiceDies, run, TypeOK, PhaseOK
<1>11. CASE UNCHANGED vars
  BY <1>11 DEF vars, TypeOK, PhaseOK
<1> QED BY <1>1, <1>2, <1>3, <1>4, <1>5, <1>6, <1>7, <1>8, <1>9, <1>10, <1>11 DEF Next

-----------------------------------------------------------------------------
(* What is applied or has failed has all its predecessors applied.         *)

LEMMA DownStep == TypeOK /\ PhaseOK /\ DownClosed /\ [Next]_vars => DownClosed'
<1> SUFFICES ASSUME TypeOK, PhaseOK, DownClosed, [Next]_vars PROVE DownClosed'
  OBVIOUS
<1>1. CASE UNCHANGED << snap, done, failed >>
  BY <1>1 DEF DownClosed
<1>2. CASE StartRun
  <2>1. done' = {} /\ failed' = {}
    BY <1>2 DEF StartRun, PhaseOK
  <2> QED BY <2>1 DEF DownClosed
<1>3. ASSUME NEW how, Over(how) PROVE DownClosed'
  BY <1>3 DEF Over, DownClosed
<1>4. ASSUME NEW st \in Ready, snap' = snap, done \subseteq done',
             done' \cup failed' = done \cup failed \cup {st}
      PROVE  DownClosed'
  <2>1. \A a \in Steps(snap) : Precedes(a, st) => a \in done
    BY DEF Ready
  <2> QED BY <1>4, <2>1 DEF DownClosed
<1>5. ASSUME NEW st \in Ready, Apply(st) PROVE DownClosed'
  BY <1>4, <1>5 DEF Apply, Applied
<1>6. ASSUME NEW st \in Ready, StepFails(st) PROVE DownClosed'
  BY <1>4, <1>6 DEF StepFails, Fail
<1> QED
  BY <1>1, <1>2, <1>3, <1>5, <1>6
     DEF Next, SetPlan, RefuseRun, EndRun, RebootResource, AgentKilled, HostReboots,
         ServiceDies, Boot, run, vars

-----------------------------------------------------------------------------
(* Files stay as the run wrote them.                                       *)

LEMMA FilesStep == IInv /\ [Next]_vars => FilesCurrent'
<1> SUFFICES ASSUME IInv, [Next]_vars, NEW u \in Notified, Configured(u)'
             PROVE  conf'[u] = snap'.version
  BY DEF FilesCurrent
<1>a. TypeOK /\ PhaseOK /\ (Configured(u) => conf[u] = snap.version)
  BY DEF IInv, FilesCurrent
<1>b. u \in Units
  BY DEF Notified, Units, FactRoles
<1>1. CASE UNCHANGED << conf, snap, done >>
  BY <1>1, <1>a DEF Configured
<1>2. CASE StartRun
  BY <1>2, <1>a DEF StartRun, PhaseOK, Configured
<1>3. ASSUME NEW how, Over(how) PROVE FALSE
  BY <1>3 DEF Over, Configured
<1>4. ASSUME NEW st \in Ready, Apply(st) PROVE conf'[u] = snap'.version
  <2>1. st \in Steps(snap) /\ snap' = snap /\ done' = done \cup {st}
    BY <1>4 DEF Apply, Applied, Ready
  <2>2. Installs(u, snap) /\ (st = << u, 3 >> => Op(st, snap) = "config")
    BY <2>1, NotifiedStep DEF Configured
  <2>3. CASE Configure(st)
    <3>1. CASE st[1] = u
      BY <1>a, <1>b, <2>1, <2>3, <3>1 DEF Configure, TypeOK
    <3>2. CASE st[1] # u
      <4>1. conf'[u] = conf[u]
        BY <1>a, <1>b, <2>3, <3>2 DEF Configure, TypeOK
      <4>2. Configured(u)
        BY <2>1, <3>2 DEF Configured
      <4> QED BY <1>a, <2>1, <4>1, <4>2
    <3> QED BY <3>1, <3>2
  <2>4. CASE Op(st, snap) # "config"
    <3>1. Configured(u)
      BY <2>1, <2>2, <2>4 DEF Configured
    <3>2. CASE Remove(st)
      <4>1. st[1] # u
        BY <2>1, <2>2, <3>2, NotifiedStep DEF Remove
      <4>2. conf'[u] = conf[u]
        BY <1>a, <1>b, <3>2, <4>1 DEF Remove, TypeOK
      <4> QED BY <1>a, <2>1, <3>1, <4>2
    <3>3. CASE conf' = conf
      BY <1>a, <2>1, <3>1, <3>3
    <3> QED
      BY <1>4, <2>4, <3>2, <3>3
         DEF Apply, ReportStatus, Install, Configure, Serve, CallApi, SetupCompute,
             ClearCompute, ClearOutFiles, OtherTask, host
  <2> QED
    BY <1>4, <2>3, <2>4
       DEF Apply, ReportStatus, Install, Serve, CallApi, SetupCompute, Remove,
           ClearCompute, ClearOutFiles, OtherTask
<1> QED
  BY <1>1, <1>2, <1>3, <1>4
     DEF Next, SetPlan, RefuseRun, EndRun, RebootResource, StepFails, Fail, AgentKilled,
         HostReboots, ServiceDies, Boot, host, run, vars

-----------------------------------------------------------------------------
(* A process that runs on other files than there are is due a restart.     *)

(* One resource applied: nothing but serving u takes its notification.     *)
LEMMA StaleApply ==
  ASSUME IInv, NEW st \in Ready, Apply(st), NEW u \in Notified, Stale(u)'
  PROVE  conf'[u] = 0 \/ u \in lost' \/ Pending(u)'
<1>1. /\ TypeOK /\ PhaseOK /\ DownClosed
      /\ Stale(u) => conf[u] = 0 \/ u \in lost \/ Pending(u)
  BY DEF IInv, StaleIsNotified
<1>2. /\ u \in Units /\ u \notin {"compute", "openstack"}
  BY DEF Notified, Units, FactRoles
<1>3. /\ st \in Steps(snap) /\ st \notin done /\ snap' = snap
      /\ done' = done \cup {st} /\ failed' = failed /\ phase = "applying"
  BY DEF Apply, Applied, Ready
<1>4. Installs(u, snap) /\ st = << u, 4 >> => Op(st, snap) = "service"
  BY <1>3, NotifiedStep
<1>5. ASSUME Op(st, snap) # "service", u \in due => u \in due', lost' = lost,
             up' = up, loaded' = loaded, conf'[u] = conf[u]
      PROVE  conf'[u] = 0 \/ u \in lost' \/ Pending(u)'
  <2>1. Stale(u)
    BY <1>5 DEF Stale
  <2>2. Pending(u) => Pending(u)'
    BY <1>3, <1>4, <1>5 DEF Pending, Configured
  <2> QED BY <1>1, <1>5, <2>1, <2>2
<1>6. CASE ReportStatus(st)
  BY <1>5, <1>6 DEF ReportStatus, host
<1>7. CASE Install(st)
  <2>1. CASE up' = up /\ loaded' = loaded
    BY <1>5, <1>7, <2>1 DEF Install
  <2>2. CASE up' = up \cup {st[1]} /\ loaded' = [loaded EXCEPT ![st[1]] = conf[st[1]]]
    <3>1. st[1] # u
      BY <1>1, <1>2, <1>7, <2>2 DEF Install, Stale, TypeOK
    <3>2. Stale(u)
      BY <1>1, <1>2, <1>7, <2>2, <3>1 DEF Install, Stale, TypeOK
    <3>3. Pending(u) => Pending(u)'
      BY <1>3, <1>4, <1>7 DEF Install, Pending, Configured
    <3> QED BY <1>1, <1>7, <3>2, <3>3 DEF Install
  <2> QED BY <1>7, <2>1, <2>2 DEF Install
<1>8. CASE Configure(st)
  <2>1. CASE st[1] = u
    <3>1. Installs(u, snap) /\ st = << u, 3 >>
      BY <1>3, <1>8, <2>1, UnitStep, NotifiedStep DEF Configure
    <3>2. << u, 4 >> \notin done \cup failed
      <4>1. Precedes(st, << u, 4 >>)
        BY <3>1 DEF Precedes
      <4> QED BY <1>1, <1>3, <4>1 DEF DownClosed
    <3>3. CASE u \in due'
      BY <1>3, <3>1, <3>2, <3>3 DEF Pending, Configured
    <3>4. CASE u \notin due'
      <4>1. conf[u] = snap.version
        BY <1>2, <1>8, <2>1, <3>4 DEF Configure
      <4>2. conf' = conf
        BY <1>1, <1>2, <1>8, <2>1, <4>1 DEF Configure, TypeOK
      <4> QED BY <1>5, <1>8, <3>4, <4>2 DEF Configure
    <3> QED BY <3>3, <3>4
  <2>2. CASE st[1] # u
    <3>1. conf'[u] = conf[u]
      BY <1>1, <1>2, <1>8, <2>2 DEF Configure, TypeOK
    <3> QED BY <1>5, <1>8, <3>1 DEF Configure
  <2> QED BY <2>1, <2>2
<1>9. CASE Serve(st)
  <2>1. CASE UNCHANGED << up, loaded, due, lost >>
    <3>1. Stale(u)
      BY <1>9, <2>1 DEF Serve, Stale
    <3>2. Pending(u) /\ st = << u, 4 >> => FALSE
      BY <1>2, <1>4, <1>9, <2>1 DEF Serve, Start, Pending, Configured
    <3>3. Pending(u) => Pending(u)'
      BY <1>3, <2>1, <3>2 DEF Pending, Configured
    <3> QED BY <1>1, <1>9, <2>1, <3>1, <3>3 DEF Serve
  <2>2. ASSUME NEW U, Start(U), Op(st, snap) = "service" => U = {st[1]}
        PROVE  conf'[u] = 0 \/ u \in lost' \/ Pending(u)'
    <3>1. conf' = conf
      BY <1>9 DEF Serve
    <3>2. u \notin U
      BY <1>2, <2>2, <3>1 DEF Start, Stale
    <3>3. Stale(u)
      BY <1>2, <2>2, <3>1, <3>2 DEF Start, Stale
    <3>4. Pending(u) => Pending(u)'
      <4>1. Installs(u, snap) => st # << u, 4 >>
        BY <1>4, <2>2, <3>2
      <4> QED BY <1>3, <2>2, <3>2, <4>1 DEF Start, Pending, Configured
    <3> QED BY <1>1, <2>2, <3>1, <3>2, <3>3, <3>4 DEF Start
  <2>3. CASE Op(st, snap) = "service" /\ Start({st[1]})
    BY <2>2, <2>3
  <2>4. CASE /\ Op(st, snap) \in {"restart_vrouter", "upgrade_vrouter"}
             /\ Start({"compute"})
    BY <2>2, <2>4
  <2>5. CASE /\ Op(st, snap) = "post_openstack"
             /\ Start(snap.roles \cap pkgs \cap {"openstack", "config"})
    BY <2>2, <2>5
  <2> QED BY <1>9, <2>1, <2>3, <2>4, <2>5 DEF Serve
<1>10. CASE CallApi(st)
  BY <1>5, <1>10 DEF CallApi, host
<1>11. CASE SetupCompute(st)
  BY <1>5, <1>11 DEF SetupCompute, host
<1>12. CASE Remove(st)
  <2>1. CASE st[1] = u
    <3>1. u \in up' => conf'[u] = 0
      BY <1>1, <1>2, <1>12, <2>1 DEF Remove, TypeOK
    <3> QED BY <3>1 DEF Stale
  <2>2. CASE st[1] # u
    <3>1. conf'[u] = conf[u]
      BY <1>1, <1>2, <1>12, <2>2 DEF Remove, TypeOK
    <3>2. Stale(u)
      BY <1>12, <2>2, <3>1 DEF Remove, Stale
    <3>3. Pending(u) => Pending(u)'
      BY <1>3, <2>2, <1>12 DEF Remove, Pending, Configured
    <3> QED BY <1>1, <1>12, <3>1, <3>2, <3>3 DEF Remove
  <2> QED BY <2>1, <2>2
<1>13. CASE ClearCompute(st)
  BY <1>5, <1>13 DEF ClearCompute, host
<1>14. CASE ClearOutFiles(st)
  BY <1>5, <1>14 DEF ClearOutFiles, host
<1>15. CASE OtherTask(st)
  BY <1>5, <1>15 DEF OtherTask, host
<1> QED
  BY <1>6, <1>7, <1>8, <1>9, <1>10, <1>11, <1>12, <1>13, <1>14, <1>15 DEF Apply

(* At the end of a run every notification of a configured unit is          *)
(* delivered: its serving resource would be ready.                         *)
LEMMA NothingPending ==
  ASSUME IInv, EndRun, NEW u \in Notified
  PROVE  ~Pending(u)
<1> SUFFICES ASSUME Pending(u) PROVE FALSE
  OBVIOUS
<1>1. << u, 4 >> \in Steps(snap) \ (done \cup failed)
  BY NotifiedSteps DEF Pending, Configured
<1>2. ASSUME NEW a \in Steps(snap) \ done PROVE ~Precedes(a, << u, 4 >>)
  <2>1. ~Precedes(a, << u, 3 >>)
    BY <1>2 DEF IInv, DownClosed, Pending, Configured
  <2>2. a # << u, 3 >>
    BY <1>2 DEF Pending, Configured
  <2>3. a = << a[1], a[2] >> /\ a[2] \in DOMAIN Chain(a[1], snap)
    BY <1>2, StepPair
  <2>4. CASE a[1] = u
    <3>1. a[2] \in 1 .. Len(InstallChain(u, snap))
      BY <2>3, <2>4, NotifiedChain DEF Chain, Pending, Configured
    <3>2. a[2] \in Nat /\ a[2] # 3 /\ ~(a[2] < 3)
      BY <2>1, <2>2, <2>3, <2>4, <3>1, NotifiedChain DEF Precedes
    <3> QED BY <2>1, <2>4, <3>2 DEF Precedes
  <2>5. CASE a[1] # u
    BY <2>1, <2>5 DEF Precedes
  <2> QED BY <2>4, <2>5
<1>3. << u, 4 >> \in Ready
  BY <1>1, <1>2 DEF Ready
<1> QED BY <1>3 DEF EndRun

LEMMA StaleStep == IInv /\ [Next]_vars => StaleIsNotified'
<1> SUFFICES ASSUME IInv, [Next]_vars, NEW u \in Notified, Stale(u)'
             PROVE  conf'[u] = 0 \/ u \in lost' \/ Pending(u)'
  BY DEF StaleIsNotified
<1>1. TypeOK /\ PhaseOK /\ (Stale(u) => conf[u] = 0 \/ u \in lost \/ Pending(u))
  BY DEF IInv, StaleIsNotified
<1>2. ASSUME UNCHANGED << conf, loaded, lost, due, snap, done, failed >>, up' \subseteq up
      PROVE  conf'[u] = 0 \/ u \in lost' \/ Pending(u)'
  BY <1>1, <1>2 DEF Stale, Pending, Configured
<1>3. CASE StartRun
  BY <1>1, <1>3 DEF StartRun, PhaseOK, Stale, Pending, Configured, host
<1>4. CASE EndRun
  BY <1>1, <1>4, NothingPending DEF EndRun, Stale, host
<1>5. ASSUME NEW st \in Ready, Apply(st)
      PROVE  conf'[u] = 0 \/ u \in lost' \/ Pending(u)'
  BY <1>5, StaleApply
<1>6. CASE Boot
  BY <1>6 DEF Boot, Stale
<1>7. ASSUME NEW st \in Ready, StepFails(st)
      PROVE  conf'[u] = 0 \/ u \in lost' \/ Pending(u)'
  <2>1. /\ st \in Steps(snap) /\ Stale(u)
        /\ UNCHANGED << conf, lost, snap, done >> /\ failed' = failed \cup {st}
    BY <1>7 DEF StepFails, Fail, Ready, Stale
  <2>2. Pending(u) => st # << u, 4 >>
    BY <1>7, <2>1, NotifiedStep DEF StepFails, Fail, Stale, Pending, Configured
  <2>3. Pending(u) => Pending(u)'
    BY <1>7, <2>1, <2>2 DEF StepFails, Fail, Stale, Pending, Configured
  <2> QED BY <1>1, <2>1, <2>3
<1>8. CASE AgentKilled
  BY <1>1, <1>8 DEF AgentKilled, Stale, Pending, host
<1> QED
  BY <1>2, <1>3, <1>4, <1>5, <1>6, <1>7, <1>8
     DEF Next, SetPlan, RefuseRun, RebootResource, HostReboots, ServiceDies,
         host, run, vars

-----------------------------------------------------------------------------
(* The theorems.                                                           *)

LEMMA IInvInductive == Spec => []IInv
<1>1. IInv /\ [Next]_vars => IInv'
  BY TypeStep, DownStep, FilesStep, StaleStep DEF IInv
<1> QED BY InitIInv, <1>1, PTL DEF Spec

(* Every variable keeps its type: the steps applied are steps of the       *)
(* catalog being applied, what is configured and served is a unit.         *)
THEOREM TypeCorrect == Spec => []TypeOK
<1>1. IInv => TypeOK
  BY DEF IInv
<1> QED BY IInvInductive, <1>1, PTL

(* A role that has reported X_completed has files of this run's parameters *)
(* and no process on older ones, unless a kill of the agent dropped the    *)
(* notification of Class[config] ~> Class[service].                        *)
THEOREM NoStaleProcessHolds == Spec => []NoStaleProcess
<1>1. IInv => NoStaleProcess
  <2> SUFFICES ASSUME IInv, NEW u \in Notified, Completed(u), u \notin lost
               PROVE  conf[u] = snap.version /\ ~Stale(u)
    BY DEF NoStaleProcess
  <2>1. /\ DownClosed /\ PhaseOK /\ (Configured(u) => conf[u] = snap.version)
        /\ Stale(u) => conf[u] = 0 \/ u \in lost \/ Pending(u)
    BY DEF IInv, FilesCurrent, StaleIsNotified
  <2>2. PICK c \in done : c[1] = u /\ Op(c, snap) = "completed"
    BY DEF Completed
  <2>3. /\ c \in Steps(snap) /\ Installs(u, snap) /\ 4 < c[2] /\ c[2] \in Nat
    BY <2>2, CompletedStep DEF IInv, TypeOK
  <2>4. << u, 3 >> \in done /\ << u, 4 >> \in done
    <3>1. << u, 3 >> \in Steps(snap) /\ << u, 4 >> \in Steps(snap)
      BY <2>3, NotifiedSteps
    <3>2. Precedes(<< u, 3 >>, c) /\ Precedes(<< u, 4 >>, c)
      BY <2>2, <2>3 DEF Precedes
    <3> QED BY <2>1, <2>2, <2>3, <3>1, <3>2 DEF DownClosed
  <2>5. conf[u] = snap.version /\ snap.version # 0
    BY <2>1, <2>3, <2>4 DEF Configured, PhaseOK, Completed
  <2> QED BY <2>1, <2>4, <2>5 DEF Pending
<1> QED BY IInvInductive, <1>1, PTL

=============================================================================
