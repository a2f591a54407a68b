----------------------- MODULE ContrailReportProofs -----------------------
(***************************************************************************)
(* What the states a host reports mean: compute_completed, X_completed of  *)
(* any role, and post_provision_completed, for every set of plans, every   *)
(* number of parameter revisions and every number of faults.               *)
(***************************************************************************)
EXTENDS ContrailRunProofs, WellFoundedInduction

(* compute-server-setup has run and the host was not booted since: its     *)
(* notification of the reboot resource was dropped by a kill, or waits for *)
(* that resource, which comes next.                                        *)
RebootAwaits ==
  /\ "reboot" \in due /\ Installs("compute", snap) /\ snap.upgrade # "needed"
  /\ << "compute", 5 >> \in done /\ << "compute", 6 >> \notin done \cup failed

RebootIsDue == unbooted = "notified" => "reboot" \in lost \/ RebootAwaits

(* No catalog that Puppet rejects is applied, and no autoremove succeeds   *)
(* where there is no apt-get.                                              *)
NoneImpossible ==
  /\ phase = "applying" => ~Refused(snap)
  /\ \A st \in done : Op(st, snap) = "autoremove" => OnUbuntu

(* What this run installed is still there.                                 *)
PackagesThere ==
  \A u \in Units : Installs(u, snap) /\ << u, 2 >> \in done => u \in pkgs

(* A removal reports itself before it removes anything.                    *)
RemovalIsReported ==
  \A u \in Units \ {"database"} :
    ~Installs(u, snap) /\ << u, 1 >> \in done => lastState # << "completed", u >>

ReportInv ==
  /\ NoneImpossible /\ PackagesThere /\ RemovalIsReported /\ CompletedMeansInstalled

(* Without a fault, what this run has served goes on running.              *)
Served ==
  faults = 0 =>
    \A u \in Notified : Installs(u, snap) /\ << u, 4 >> \in done => u \in up

(* Only what is installed runs, and what this run purged or stopped for    *)
(* good stays so.                                                          *)
UpIsInstalled == up \subseteq pkgs

PurgedStays == \A st \in done : Op(st, snap) = "purge" => st[1] \notin pkgs

StoppedStays ==
  \A u \in Units \ FactRoles : ~Installs(u, snap) =>
    /\ << u, 2 >> \in done => u \notin up
    /\ << u, 3 >> \in done => conf[u] = 0

(* An installation reports itself before it installs anything.             *)
InstallIsReported ==
  \A u \in Units : Installs(u, snap) /\ << u, 1 >> \in done =>
    lastState # << "uninstall_completed", u >>

GoneInv ==
  /\ UpIsInstalled /\ PurgedStays /\ StoppedStays /\ InstallIsReported
  /\ UninstalledMeansGone

-----------------------------------------------------------------------------
(* Facts about the chains and the stages.                                  *)

LEMMA ChainIndex ==
  ASSUME NEW s, NEW c, NEW k \in DOMAIN Chain(s, c)
  PROVE  k \in 1 .. 9
<1>1. CASE Installs(s, c)
  <2>1. k \in DOMAIN InstallChain(s, c)
    BY <1>1 DEF Chain
  <2> QED
    BY <2>1 DEF InstallChain, control, config, compute, computeUpgrade, tsn, toragent,
                provision_complete, common
<1>2. CASE ~Installs(s, c) /\ Removes(s, c)
  <2>1. k \in DOMAIN RemoveChain(s)
    BY <1>2 DEF Chain
  <2> QED
    BY <2>1 DEF RemoveChain, uninstall_config, uninstall_database, uninstall_control,
                uninstall_collector, uninstall_webui, uninstall_openstack,
                uninstall_compute, uninstall_haproxy
<1>3. CASE ~Installs(s, c) /\ ~Removes(s, c)
  <2>1. Chain(s, c) = << >>
    BY <1>3 DEF Chain
  <2> QED BY <2>1
<1> QED BY <1>1, <1>2, <1>3

(* The resource after an applied one of the same chain is ready.           *)
LEMMA NextIsReady ==
  ASSUME DownClosed, NEW s, NEW k \in Nat,
         << s, k >> \in Steps(snap) \ (done \cup failed), << s, k - 1 >> \in done
  PROVE  << s, k >> \in Ready
<1>1. ASSUME NEW a \in Steps(snap) \ done PROVE ~Precedes(a, << s, k >>)
  <2>1. ~Precedes(a, << s, k - 1 >>) /\ a # << s, k - 1 >>
    BY <1>1 DEF DownClosed
  <2>2. a = << a[1], a[2] >> /\ a[2] \in DOMAIN Chain(a[1], snap)
    BY StepPair
  <2>3. a[2] \in Nat
    BY <2>2, ChainIndex
  <2> QED BY <2>1, <2>2, <2>3 DEF Precedes
<1> QED BY <1>1 DEF Ready

(* A stage's rank is its place in the stage chain.                         *)
LEMMA StageRank ==
  ASSUME NEW s \in Stages
  PROVE  Rank[s] \in 1 .. 15 /\ s \in StageChain[Rank[s]]
<1>1. DOMAIN StageChain = 1 .. 15
  BY DEF StageChain
<1>2. \E i \in DOMAIN StageChain : s \in StageChain[i]
  BY DEF Stages, StageChain
<1> QED BY <1>1, <1>2 DEF Rank

(* Every stage comes before provision_complete.                            *)
LEMMA LastStage ==
  ASSUME NEW s \in Stages \ {"provision_complete"}
  PROVE  StageBefore(s, "provision_complete")
<1>1. Rank["provision_complete"] = 15
  BY StageRank DEF StageChain, Stages
<1>2. Rank[s] # 15
  BY StageRank DEF StageChain
<1>3. Rank[s] \in 1 .. 15
  BY StageRank
<1> QED BY <1>1, <1>2, <1>3 DEF StageBefore

(* The chain that installs compute: the exec compute-server-setup is its   *)
(* fifth resource and nobody else's, the reboot resource follows.          *)
LEMMA SetupStep ==
  ASSUME NEW st \in Steps(snap)
  PROVE  /\ Op(st, snap) = "setup" => st = << "compute", 5 >> /\ Installs("compute", snap)
         /\ /\ Installs("compute", snap) /\ snap.upgrade # "needed"
            /\ st = << "compute", 6 >>
            => Op(st, snap) = "reboot"
         /\ Op(st, snap) = "completed" /\ st[1] = "compute" =>
              Installs("compute", snap) /\ st = << "compute", 8 >>
<1>1. /\ st = << st[1], st[2] >> /\ st[1] \in Stages
      /\ st[2] \in DOMAIN Chain(st[1], snap) /\ Op(st, snap) = Chain(st[1], snap)[st[2]]
  BY StepPair
<1>2. ASSUME NEW s, NEW k \in DOMAIN InstallChain(s, snap)
      PROVE  /\ InstallChain(s, snap)[k] = "setup" => s = "compute" /\ k = 5
             /\ s = "compute" /\ snap.upgrade # "needed" /\ k = 6 =>
                  InstallChain(s, snap)[k] = "reboot"
             /\ InstallChain(s, snap)[k] = "completed" /\ s = "compute" => k = 8
  BY DEF InstallChain, control, config, compute, computeUpgrade, tsn, toragent,
         provision_complete, common
<1>3. ASSUME NEW s, NEW k \in DOMAIN RemoveChain(s)
      PROVE  RemoveChain(s)[k] \notin {"setup", "completed"}
  BY DEF RemoveChain, uninstall_config, uninstall_database, uninstall_control,
         uninstall_collector, uninstall_webui, uninstall_openstack, uninstall_compute,
         uninstall_haproxy
<1>4. Chain(st[1], snap) # << >>
  BY <1>1
<1> QED BY <1>1, <1>2, <1>3, <1>4 DEF Chain

(* What the chains install, report and remove.                             *)
LEMMA UnitChains ==
  ASSUME NEW s, NEW k
  PROVE  /\ k \in DOMAIN InstallChain(s, snap) =>
              /\ InstallChain(s, snap)[k] \notin {"remove_started", "remove_completed", "purge"}
              /\ s \in Units /\ k = 2 => InstallChain(s, snap)[k] = "install"
              /\ s \in Units /\ InstallChain(s, snap)[k] = "completed" => 2 < k
         /\ s \in Units => 2 \in DOMAIN InstallChain(s, snap)
         /\ k \in DOMAIN RemoveChain(s) =>
              /\ RemoveChain(s)[k] \notin {"started", "completed"}
              /\ k = 1 => RemoveChain(s)[k] = "remove_started"
              /\ RemoveChain(s)[k] = "purge" => 1 < k
         /\ 1 \in DOMAIN RemoveChain(s)
<1>1. k \in DOMAIN InstallChain(s, snap) =>
              /\ InstallChain(s, snap)[k] \notin {"remove_started", "remove_completed", "purge"}
              /\ s \in Units /\ k = 2 => InstallChain(s, snap)[k] = "install"
              /\ s \in Units /\ InstallChain(s, snap)[k] = "completed" => 2 < k
  BY DEF InstallChain, control, config, compute, computeUpgrade, tsn, toragent,
         provision_complete, common,
         Units, FactRoles
<1>2. s \in Units => 2 \in DOMAIN InstallChain(s, snap)
  BY DEF InstallChain, control, config, compute, computeUpgrade, tsn, toragent,
         provision_complete, common,
         Units, FactRoles
<1>3. k \in DOMAIN RemoveChain(s) =>
              /\ RemoveChain(s)[k] \notin {"started", "completed"}
              /\ k = 1 => RemoveChain(s)[k] = "remove_started"
              /\ RemoveChain(s)[k] = "purge" => 1 < k
  BY DEF RemoveChain, uninstall_config, uninstall_database, uninstall_control,
         uninstall_collector, uninstall_webui, uninstall_openstack, uninstall_compute,
         uninstall_haproxy
<1>4. 1 \in DOMAIN RemoveChain(s)
  BY DEF RemoveChain, uninstall_config, uninstall_database, uninstall_control,
         uninstall_collector, uninstall_webui, uninstall_openstack, uninstall_compute,
         uninstall_haproxy
<1> QED BY <1>1, <1>2, <1>3, <1>4

-----------------------------------------------------------------------------
(* RebootIsDue is inductive.                                               *)

(* The reboot resource itself: unless its notification is gone, it is no   *)
(* task without effect, and the run does not end before it.                *)
LEMMA RebootNotSkipped ==
  ASSUME RebootAwaits, NEW st \in Ready, Apply(st)
  PROVE  st # << "compute", 6 >>
<1> SUFFICES ASSUME st = << "compute", 6 >> PROVE FALSE
  OBVIOUS
<1>1. Op(st, snap) = "reboot" /\ "reboot" \in due
  BY SetupStep DEF RebootAwaits, Ready
<1> QED
  BY <1>1 DEF Apply, ReportStatus, Install, Configure, Serve, CallApi, SetupCompute,
              Remove, ClearCompute, ClearOutFiles, OtherTask

LEMMA RebootBeforeEnd ==
  ASSUME TypeOK, DownClosed, RebootAwaits
  PROVE  Ready # {}
<1>1. Chain("compute", snap) = compute
  BY DEF RebootAwaits, Chain, InstallChain
<1>2. << "compute", 6 >> \in Steps(snap)
  BY <1>1 DEF Steps, Stages, compute
<1>3. << "compute", 6 >> \in Steps(snap) \ (done \cup failed) /\ << "compute", 6 - 1 >> \in done
  BY <1>2 DEF RebootAwaits
<1> QED BY <1>3, NextIsReady

LEMMA RebootApply ==
  ASSUME IInv, RebootIsDue, NEW st \in Ready, Apply(st), unbooted' = "notified"
  PROVE  "reboot" \in lost' \/ RebootAwaits'
<1>1. /\ st \in Steps(snap) /\ st \notin done /\ snap' = snap
      /\ done' = done \cup {st} /\ failed' = failed
  BY DEF Apply, Applied, Ready
<1>2. TypeOK /\ DownClosed
  BY DEF IInv
<1>3. ASSUME unbooted' = unbooted, "reboot" \in lost => "reboot" \in lost',
             "reboot" \in due => "reboot" \in due'
      PROVE  "reboot" \in lost' \/ RebootAwaits'
  <2>1. CASE RebootAwaits
    <3>1. st # << "compute", 6 >>
      BY <2>1, RebootNotSkipped
    <3> QED BY <1>1, <1>3, <2>1, <3>1 DEF RebootAwaits
  <2> QED BY <1>3, <2>1 DEF RebootIsDue
<1>4. ASSUME NEW U \in SUBSET Units, Start(U), unbooted' = unbooted
      PROVE  "reboot" \in lost' \/ RebootAwaits'
  <2>1. "reboot" \notin U
    BY DEF Units, FactRoles
  <2> QED BY <1>3, <1>4, <2>1 DEF Start
<1>5. CASE Serve(st)
  <2>1. Op(st, snap) = "service" => st[1] \in Units
    BY <1>1, UnitStep
  <2>2. unbooted' = unbooted
    BY <1>5 DEF Serve
  <2>3. CASE UNCHANGED << due, lost >>
    BY <1>3, <2>2, <2>3
  <2>4. CASE Op(st, snap) = "service" /\ Start({st[1]})
    BY <1>4, <2>1, <2>2, <2>4
  <2>5. CASE Start({"compute"})
    BY <1>4, <2>2, <2>5 DEF Units, FactRoles
  <2>6. CASE Start(snap.roles \cap pkgs \cap {"openstack", "config"})
    BY <1>4, <2>2, <2>6 DEF Units, FactRoles
  <2> QED BY <1>5, <2>3, <2>4, <2>5, <2>6 DEF Serve
<1>6. CASE SetupCompute(st)
  <2>1. CASE UNCHANGED << due, unbooted >>
    BY <1>3, <1>6, <2>1 DEF SetupCompute
  <2>2. CASE snap.upgrade # "needed" /\ due' = due \cup {"reboot"}
    <3>1. Installs("compute", snap) /\ st = << "compute", 5 >>
      BY <1>1, <1>6, SetupStep DEF SetupCompute
    <3>2. << "compute", 6 >> \notin done \cup failed
      <4>1. Precedes(st, << "compute", 6 >>)
        BY <3>1 DEF Precedes
      <4> QED BY <1>1, <1>2, <4>1 DEF DownClosed
    <3>3. << "compute", 6 >> # st /\ << "compute", 5 >> \in done'
      BY <1>1, <3>1
    <3> QED BY <1>1, <2>2, <3>1, <3>2, <3>3 DEF RebootAwaits
  <2> QED BY <1>6, <2>1, <2>2 DEF SetupCompute
<1>7. CASE Install(st)
  BY <1>3, <1>7 DEF Install
<1>8. CASE Configure(st)
  BY <1>3, <1>8 DEF Configure
<1> QED
  BY <1>3, <1>5, <1>6, <1>7, <1>8
     DEF Apply, ReportStatus, CallApi, Remove, ClearCompute, ClearOutFiles, OtherTask

LEMMA RebootStep == IInv /\ RebootIsDue /\ [Next]_vars => RebootIsDue'
<1> SUFFICES ASSUME IInv, RebootIsDue, [Next]_vars, unbooted' = "notified"
             PROVE  "reboot" \in lost' \/ RebootAwaits'
  BY DEF RebootIsDue
<1>1. TypeOK /\ PhaseOK /\ DownClosed
  BY DEF IInv
<1>2. CASE UNCHANGED << unbooted, lost, due, snap, done, failed >>
  BY <1>2 DEF RebootIsDue, RebootAwaits
<1>3. CASE StartRun
  <2>1. ~RebootAwaits
    BY <1>1, <1>3 DEF StartRun, PhaseOK, RebootAwaits
  <2> QED BY <1>3, <2>1 DEF StartRun, RebootIsDue
<1>4. CASE EndRun
  BY <1>1, <1>4, RebootBeforeEnd DEF EndRun, RebootIsDue
<1>5. ASSUME NEW st \in Ready, Apply(st) PROVE "reboot" \in lost' \/ RebootAwaits'
  BY <1>5, RebootApply
<1>6. CASE Boot
  BY <1>6 DEF Boot
<1>7. ASSUME NEW st \in Ready, StepFails(st) PROVE "reboot" \in lost' \/ RebootAwaits'
  <2>1. /\ st \in Steps(snap) /\ Op(st, snap) # "reboot"
        /\ UNCHANGED << lost, snap, done, unbooted >> /\ failed' = failed \cup {st}
    BY <1>7 DEF StepFails, Fail, Ready
  <2>2. "reboot" \in due => "reboot" \in due'
    <3>1. Op(st, snap) = "service" => st[1] # "reboot"
      BY <2>1, UnitStep DEF Units, FactRoles
    <3> QED BY <1>7, <3>1 DEF StepFails, Fail
  <2>3. RebootAwaits => RebootAwaits'
    BY <2>1, <2>2, SetupStep DEF RebootAwaits
  <2> QED BY <2>1, <2>3 DEF RebootIsDue
<1>8. CASE AgentKilled
  BY <1>8 DEF AgentKilled, RebootIsDue, RebootAwaits
<1> QED
  BY <1>2, <1>3, <1>4, <1>5, <1>6, <1>7, <1>8
     DEF Next, SetPlan, RefuseRun, RebootResource, HostReboots, ServiceDies,
         host, run, vars

(* compute_completed by a host that was not booted since                   *)
(* compute-server-setup means that the agent was killed between that exec  *)
(* and the reboot resource it notifies, or that the exec ran in an upgrade,*)
(* which has no such resource.                                             *)
THEOREM UnbootedMeansLostHolds == Spec => []UnbootedMeansLost
<1>1. Init => RebootIsDue
  BY DEF Init, RebootIsDue
<1>2. IInv /\ RebootIsDue /\ [Next]_vars => RebootIsDue'
  BY RebootStep
<1>3. IInv /\ RebootIsDue => UnbootedMeansLost
  <2> SUFFICES ASSUME IInv, RebootIsDue, Completed("compute"),
                      unbooted # "no", unbooted # "upgraded"
               PROVE  "reboot" \in lost
    BY DEF UnbootedMeansLost
  <2>1. PICK c \in done : c[1] = "compute" /\ Op(c, snap) = "completed"
    BY DEF Completed
  <2>2. c \in Steps(snap) /\ unbooted = "notified"
    BY DEF IInv, TypeOK
  <2>3. Installs("compute", snap) /\ c = << "compute", 8 >>
    BY <2>1, <2>2, SetupStep
  <2>4. ~RebootAwaits
    <3> SUFFICES ASSUME RebootAwaits PROVE FALSE
      OBVIOUS
    <3>1. Chain("compute", snap) = compute
      BY DEF RebootAwaits, Chain, InstallChain
    <3>2. << "compute", 6 >> \in Steps(snap)
      BY <3>1 DEF Steps, Stages, compute
    <3>3. Precedes(<< "compute", 6 >>, << "compute", 8 >>)
      BY DEF Precedes
    <3> QED BY <2>3, <3>2, <3>3 DEF IInv, DownClosed, RebootAwaits
  <2> QED BY <2>2, <2>4 DEF RebootIsDue
<1> QED BY IInvInductive, <1>1, <1>2, <1>3, PTL DEF Spec

-----------------------------------------------------------------------------
(* ReportInv is inductive.                                                 *)

(* The steps of a unit by their place in its chain.                        *)
LEMMA UnitPlace ==
  ASSUME NEW st \in Steps(snap), st[1] \in Units
  PROVE  /\ Installs(st[1], snap) =>
              /\ Op(st, snap) \notin {"remove_started", "remove_completed", "purge"}
              /\ st[2] = 2 => Op(st, snap) = "install"
              /\ Op(st, snap) = "completed" =>
                   << st[1], 2 >> \in Steps(snap) /\ Precedes(<< st[1], 2 >>, st)
         /\ ~Installs(st[1], snap) =>
              /\ Op(st, snap) \notin {"started", "completed"}
              /\ st[2] = 1 => Op(st, snap) = "remove_started"
              /\ Op(st, snap) = "purge" =>
                   << st[1], 1 >> \in Steps(snap) /\ Precedes(<< st[1], 1 >>, st)
<1> DEFINE s == st[1]  k == st[2]
<1>1. /\ st = << s, k >> /\ s \in Stages
      /\ k \in DOMAIN Chain(s, snap) /\ Op(st, snap) = Chain(s, snap)[k]
  BY StepPair
<1>2. CASE Installs(s, snap)
  <2>1. Chain(s, snap) = InstallChain(s, snap)
    BY <1>2 DEF Chain
  <2>2. << s, 2 >> \in Steps(snap)
    BY <1>1, <2>1, UnitChains DEF Steps
  <2>3. Op(st, snap) = "completed" => Precedes(<< s, 2 >>, st)
    BY <1>1, <2>1, UnitChains DEF Precedes
  <2> QED BY <1>1, <1>2, <2>1, <2>2, <2>3, UnitChains
<1>3. CASE ~Installs(s, snap)
  <2>1. Chain(s, snap) = RemoveChain(s)
    BY <1>1, <1>3 DEF Chain
  <2>2. << s, 1 >> \in Steps(snap)
    BY <1>1, <2>1, UnitChains DEF Steps
  <2>3. Op(st, snap) = "purge" => Precedes(<< s, 1 >>, st)
    BY <1>1, <2>1, UnitChains DEF Precedes
  <2> QED BY <1>1, <1>3, <2>1, <2>2, <2>3, UnitChains
<1> QED BY <1>2, <1>3

(* uninstall_config never completes: on Ubuntu its catalog is refused, and *)
(* elsewhere its autoremove fails.                                         *)
LEMMA ConfigRemovalFails ==
  ASSUME DownClosed, NoneImpossible, phase = "applying", NEW st \in Ready,
         st[1] = "config", Op(st, snap) = "remove_completed"
  PROVE  FALSE
<1>1. /\ st \in Steps(snap) /\ st = << "config", st[2] >>
      /\ st[2] \in DOMAIN Chain("config", snap) /\ Op(st, snap) = Chain("config", snap)[st[2]]
  BY StepPair DEF Ready
<1>2. ~Installs("config", snap)
  BY UnitPlace, <1>1 DEF Units, FactRoles
<1>3. Removes("config", snap) /\ Chain("config", snap) = uninstall_config
  <2>1. Chain("config", snap) # << >>
    BY <1>1
  <2> QED BY <1>2, <2>1 DEF Chain, RemoveChain
<1>4. st[2] = 7
  BY <1>1, <1>3 DEF uninstall_config
<1>5. << "config", 5 >> \in Steps(snap) /\ Op(<< "config", 5 >>, snap) = "autoremove"
  BY <1>3 DEF Steps, Op, Stages, uninstall_config
<1>6. << "config", 5 >> \in done
  BY <1>1, <1>4, <1>5 DEF Ready, Precedes
<1>7. OnUbuntu
  BY <1>5, <1>6 DEF NoneImpossible
<1> QED BY <1>3, <1>7 DEF NoneImpossible, Refused, UninstallCycle

(* Only the installation of a unit but database posts X_completed.         *)
LEMMA CompletedBy ==
  ASSUME DownClosed, NoneImpossible, phase = "applying", NEW st \in Ready,
         NEW u \in Units \ {"database"}, Sent(st[1], Op(st, snap)) = << "completed", u >>,
         Op(st, snap) \in {"started", "completed", "remove_started", "remove_completed"}
  PROVE  st[1] = u /\ Op(st, snap) = "completed" /\ Installs(u, snap)
<1>1. st[1] = u /\ Op(st, snap) \in {"completed", "remove_completed"}
  BY DEF Sent
<1>2. Op(st, snap) = "remove_completed" => u = "config"
  BY <1>1 DEF Sent
<1>3. Op(st, snap) = "completed"
  BY <1>1, <1>2, ConfigRemovalFails
<1> QED BY <1>1, <1>3, UnitPlace DEF Ready

LEMMA ReportApply ==
  ASSUME IInv, ReportInv, NEW st \in Ready, Apply(st)
  PROVE  ReportInv'
<1>1. /\ st \in Steps(snap) /\ st \notin done /\ snap' = snap /\ phase' = phase
      /\ done' = done \cup {st} /\ phase = "applying" /\ ~Cannot(st)
  BY DEF Apply, Applied, Ready
<1>2. TypeOK /\ DownClosed
  BY DEF IInv
<1>3. st = << st[1], st[2] >>
  BY <1>1, StepPair
<1>4. /\ pkgs \subseteq pkgs'
      \/ /\ pkgs' = pkgs \ {st[1]} /\ Op(st, snap) = "purge" /\ lastState' = lastState
  BY DEF Apply, ReportStatus, Install, Configure, Serve, CallApi, SetupCompute, Remove,
         ClearCompute, ClearOutFiles, OtherTask, host
<1>5. \/ lastState' = lastState
      \/ ReportStatus(st)
  BY DEF Apply, Install, Configure, Serve, CallApi, SetupCompute, Remove,
         ClearCompute, ClearOutFiles, OtherTask
<1>6. NoneImpossible'
  BY <1>1 DEF ReportInv, NoneImpossible, Cannot
<1>7. PackagesThere'
  <2> SUFFICES ASSUME NEW u \in Units, Installs(u, snap), << u, 2 >> \in done \cup {st}
               PROVE  u \in pkgs'
    BY <1>1 DEF PackagesThere
  <2>1. CASE st = << u, 2 >>
    <3>1. Op(st, snap) = "install"
      BY <1>1, <2>1, UnitPlace
    <3>2. Install(st)
      BY <3>1 DEF Apply, ReportStatus, Configure, Serve, CallApi, SetupCompute, Remove,
                  ClearCompute, ClearOutFiles, OtherTask
    <3> QED BY <2>1, <3>2 DEF Install
  <2>2. CASE << u, 2 >> \in done
    <3>1. u \in pkgs
      BY <2>2 DEF ReportInv, PackagesThere
    <3>2. Op(st, snap) = "purge" => st[1] # u
      BY <1>1, UnitPlace
    <3> QED BY <1>4, <3>1, <3>2
  <2> QED BY <2>1, <2>2
<1>8. RemovalIsReported'
  <2> SUFFICES ASSUME NEW u \in Units \ {"database"}, ~Installs(u, snap),
                      << u, 1 >> \in done \cup {st}, lastState' = << "completed", u >>
               PROVE  FALSE
    BY <1>1 DEF RemovalIsReported
  <2>1. CASE ReportStatus(st)
    BY <1>1, <1>2, <2>1, CompletedBy DEF ReportInv, ReportStatus
  <2>2. CASE lastState' = lastState /\ ~ReportStatus(st)
    <3>1. st = << u, 1 >>
      BY <2>2 DEF ReportInv, RemovalIsReported
    <3>2. Op(st, snap) = "remove_started"
      BY <1>1, <3>1, UnitPlace
    <3> QED
      BY <2>2, <3>2
         DEF Apply, Install, Configure, Serve, CallApi, SetupCompute, Remove,
             ClearCompute, ClearOutFiles, OtherTask
  <2> QED BY <1>5, <2>1, <2>2
<1>9. CompletedMeansInstalled'
  <2> SUFFICES ASSUME NEW u \in Units \ {"database"}, lastState' = << "completed", u >>
               PROVE  u \in pkgs'
    BY DEF CompletedMeansInstalled
  <2>1. CASE ReportStatus(st)
    <3>1. st[1] = u /\ Op(st, snap) = "completed" /\ Installs(u, snap)
      BY <1>1, <1>2, <2>1, CompletedBy DEF ReportInv, ReportStatus
    <3>2. << u, 2 >> \in done
      BY <1>1, <3>1, UnitPlace DEF Ready
    <3>3. u \in pkgs /\ pkgs' = pkgs
      BY <2>1, <3>1, <3>2 DEF ReportInv, PackagesThere, ReportStatus, host
    <3> QED BY <3>3
  <2>2. CASE lastState' = lastState
    <3>1. u \in pkgs
      BY <2>2 DEF ReportInv, CompletedMeansInstalled
    <3>2. CASE Op(st, snap) = "purge" /\ st[1] = u
      <4>1. ~Installs(u, snap) /\ << u, 1 >> \in done
        BY <1>1, <3>2, UnitPlace DEF Ready
      <4> QED BY <2>2, <4>1 DEF ReportInv, RemovalIsReported
    <3> QED BY <1>4, <3>1, <3>2
  <2> QED BY <1>5, <2>1, <2>2
<1> QED BY <1>6, <1>7, <1>8, <1>9 DEF ReportInv

LEMMA ReportStep == IInv /\ ReportInv /\ [Next]_vars => ReportInv'
<1> SUFFICES ASSUME IInv, ReportInv, [Next]_vars PROVE ReportInv'
  OBVIOUS
<1>1. CASE UNCHANGED << phase, snap, done, pkgs, lastState >>
  BY <1>1 DEF ReportInv, NoneImpossible, PackagesThere, RemovalIsReported,
              CompletedMeansInstalled
<1>2. CASE StartRun
  <2>1. done' = {}
    BY <1>2 DEF StartRun, IInv, PhaseOK
  <2> QED
    BY <1>2, <2>1 DEF StartRun, host, ReportInv, NoneImpossible, PackagesThere,
                      RemovalIsReported, CompletedMeansInstalled
<1>3. ASSUME NEW how, Over(how), UNCHANGED << pkgs, lastState >> PROVE ReportInv'
  BY <1>3 DEF Over, ReportInv, NoneImpossible, PackagesThere, RemovalIsReported,
              CompletedMeansInstalled
<1>4. ASSUME NEW st \in Ready, Apply(st) PROVE ReportInv'
  BY <1>4, ReportApply
<1> QED
  BY <1>1, <1>2, <1>3, <1>4
     DEF Next, SetPlan, RefuseRun, EndRun, RebootResource, StepFails, Fail, AgentKilled,
         HostReboots, ServiceDies, Boot, host, run, vars

LEMMA ReportInvariant == Spec => []ReportInv
<1>1. Init => ReportInv
  BY DEF Init, ReportInv, NoneImpossible, PackagesThere, RemovalIsReported,
         CompletedMeansInstalled
<1>2. IInv /\ ReportInv /\ [Next]_vars => ReportInv'
  BY ReportStep
<1> QED BY IInvInductive, <1>1, <1>2, PTL DEF Spec

(* When the last state the server manager received is that a role          *)
(* completed, the role is installed, but for database: no removal of       *)
(* another role gets to post that state, config's included.                *)
THEOREM CompletedMeansInstalledHolds == Spec => []CompletedMeansInstalled
<1>1. ReportInv => CompletedMeansInstalled
  BY DEF ReportInv
<1> QED BY ReportInvariant, <1>1, PTL

-----------------------------------------------------------------------------
(* Served is inductive.                                                    *)

LEMMA ServedApply ==
  ASSUME IInv, Served, NEW st \in Ready, Apply(st), faults = 0,
         NEW u \in Notified, Installs(u, snap), << u, 4 >> \in done \cup {st}
  PROVE  u \in up'
<1>1. st \in Steps(snap)
  BY DEF Ready
<1>2. CASE st = << u, 4 >>
  <2>1. Op(st, snap) = "service" /\ u # "compute"
    BY <1>1, <1>2, NotifiedStep DEF Notified
  <2>2. Serve(st)
    BY <2>1 DEF Apply, ReportStatus, Install, Configure, CallApi, SetupCompute, Remove,
                ClearCompute, ClearOutFiles, OtherTask
  <2> QED BY <1>2, <2>1, <2>2 DEF Serve, Start
<1>3. CASE << u, 4 >> \in done
  <2>1. u \in up
    BY <1>3 DEF Served
  <2>2. CASE Remove(st)
    <3>1. st[1] # u
      BY <1>1, <2>2, NotifiedStep DEF Remove
    <3> QED BY <2>1, <2>2, <3>1 DEF Remove
  <2>3. CASE up \subseteq up'
    BY <2>1, <2>3
  <2> QED
    BY <2>2, <2>3 DEF Apply, ReportStatus, Install, Configure, Serve, Start, CallApi,
                      SetupCompute, ClearCompute, ClearOutFiles, OtherTask, host
<1> QED BY <1>2, <1>3

LEMMA ServedStep == IInv /\ Served /\ [Next]_vars => Served'
<1> SUFFICES ASSUME IInv, Served, [Next]_vars, faults' = 0, NEW u \in Notified,
                    Installs(u, snap'), << u, 4 >> \in done'
             PROVE  u \in up'
  BY DEF Served
<1>1. TypeOK /\ PhaseOK
  BY DEF IInv
<1>2. faults \in Nat
  BY <1>1, RunAssumption DEF TypeOK
<1>3. CASE UNCHANGED << snap, done, up, faults >>
  BY <1>3 DEF Served
<1>4. CASE StartRun
  BY <1>1, <1>4 DEF StartRun, PhaseOK
<1>5. ASSUME NEW how, Over(how) PROVE FALSE
  BY <1>5 DEF Over
<1>6. ASSUME NEW st \in Ready, Apply(st) PROVE u \in up'
  BY <1>6, ServedApply DEF Apply, Applied
<1>7. ASSUME NEW st \in Ready, StepFails(st) PROVE u \in up'
  <2>1. /\ st \in Steps(snap) /\ st \notin done /\ snap' = snap /\ done' = done
        /\ faults = 0
    BY <1>2, <1>7 DEF StepFails, Fail, Ready
  <2>2. Op(st, snap) = "service" => st[1] # u
    BY <2>1, NotifiedStep
  <2> QED BY <1>7, <2>1, <2>2 DEF StepFails, Fail, Served
<1>8. ASSUME NEW v \in Units, ServiceDies(v) PROVE FALSE
  BY <1>2, <1>8 DEF ServiceDies
<1> QED
  BY <1>3, <1>4, <1>5, <1>6, <1>7, <1>8
     DEF Next, SetPlan, RefuseRun, EndRun, RebootResource, AgentKilled, HostReboots,
         Boot, host, run, vars

(* post_provision_completed means that every enabled role of the catalog   *)
(* is configured with the parameters of this run and, without a fault, is  *)
(* being served: provision_complete comes after all other stages.          *)
THEOREM ProvisionedMeansServingHolds == Spec => []ProvisionedMeansServing
<1>1. Init => Served
  BY DEF Init, Served
<1>2. IInv /\ Served /\ [Next]_vars => Served'
  BY ServedStep
<1>3. IInv /\ Served => ProvisionedMeansServing
  <2> SUFFICES ASSUME IInv, Served, Completed("provision_complete"),
                      NEW u \in snap.roles \cap snap.enabled \cap Notified
               PROVE  conf[u] = snap.version /\ (faults = 0 => u \in up)
    BY DEF ProvisionedMeansServing
  <2>1. TypeOK /\ DownClosed /\ FilesCurrent
    BY DEF IInv
  <2>2. u \in RoleNames
    BY <2>1 DEF TypeOK, Snapshots
  <2>3. Installs(u, snap) /\ u \in Stages \ {"provision_complete"}
    BY <2>2 DEF Installs, RoleProfile, RolesToDelete, Notified, RoleNames, Stages
  <2>4. << u, 3 >> \in done /\ << u, 4 >> \in done
    <3>1. PICK c \in done : c[1] = "provision_complete"
      BY DEF Completed
    <3>2. \A k \in {3, 4} : Precedes(<< u, k >>, c)
      BY <2>3, <3>1, LastStage DEF Precedes
    <3> QED BY <2>1, <2>3, <3>1, <3>2, NotifiedSteps DEF DownClosed
  <2> QED BY <2>1, <2>3, <2>4 DEF FilesCurrent, Configured, Served
<1> QED BY IInvInductive, <1>1, <1>2, <1>3, PTL DEF Spec

-----------------------------------------------------------------------------
(* GoneInv is inductive.                                                   *)

(* The installation of a unit reports itself first, and installs it before *)
(* it configures and serves it.                                            *)
LEMMA InstallPlace ==
  ASSUME NEW st \in Steps(snap), st[1] \in Units, Installs(st[1], snap)
  PROVE  /\ Op(st, snap) \notin {"remove_completed", "purge"}
         /\ st[2] = 1 => Op(st, snap) = "started"
         /\ Op(st, snap) \in {"install", "config", "service"} =>
              << st[1], 1 >> \in Steps(snap) /\ Precedes(<< st[1], 1 >>, st)
         /\ Op(st, snap) = "service" =>
              << st[1], 2 >> \in Steps(snap) /\ Precedes(<< st[1], 2 >>, st)
<1> DEFINE s == st[1]  k == st[2]
<1>1. /\ st = << s, k >> /\ s \in Stages /\ Chain(s, snap) = InstallChain(s, snap)
      /\ k \in DOMAIN InstallChain(s, snap) /\ Op(st, snap) = InstallChain(s, snap)[k]
  BY StepPair DEF Chain
<1>2. /\ 1 \in DOMAIN InstallChain(s, snap) /\ 2 \in DOMAIN InstallChain(s, snap)
      /\ InstallChain(s, snap)[1] = "started"
      /\ InstallChain(s, snap)[k] \notin {"remove_completed", "purge"}
      /\ InstallChain(s, snap)[k] \in {"install", "config", "service"} => 1 < k
      /\ InstallChain(s, snap)[k] = "service" => 2 < k
  BY <1>1 DEF InstallChain, control, config, compute, computeUpgrade, tsn, toragent,
         provision_complete, common,
              Units, FactRoles
<1>3. << s, 1 >> \in Steps(snap) /\ << s, 2 >> \in Steps(snap)
  BY <1>1, <1>2 DEF Steps
<1> QED BY <1>1, <1>2, <1>3 DEF Precedes

(* keepalived and haproxy are stopped, then their configuration goes.      *)
LEMMA VipRemoval ==
  ASSUME NEW st \in Steps(snap), st[1] \in Units \ FactRoles, ~Installs(st[1], snap)
  PROVE  /\ Chain(st[1], snap) = uninstall_haproxy
         /\ st[2] = 2 => Op(st, snap) = "stop"
         /\ st[2] = 3 => Op(st, snap) = "clean"
         /\ Op(st, snap) = "remove_completed" =>
              /\ << st[1], 2 >> \in Steps(snap) /\ Precedes(<< st[1], 2 >>, st)
              /\ << st[1], 3 >> \in Steps(snap) /\ Precedes(<< st[1], 3 >>, st)
<1> DEFINE s == st[1]  k == st[2]
<1>1. /\ st = << s, k >> /\ s \in Stages
      /\ k \in DOMAIN Chain(s, snap) /\ Op(st, snap) = Chain(s, snap)[k]
  BY StepPair
<1>2. Chain(s, snap) # << >>
  BY <1>1
<1>3. Removes(s, snap)
  BY <1>2 DEF Chain
<1>4. s \in {"keepalived", "haproxy"}
  BY <1>3 DEF Removes, RoleLeft
<1>5. Chain(s, snap) = uninstall_haproxy
  BY <1>3, <1>4 DEF Chain, RemoveChain
<1>6. << s, 2 >> \in Steps(snap) /\ << s, 3 >> \in Steps(snap)
  BY <1>1, <1>5 DEF Steps, uninstall_haproxy
<1> QED BY <1>1, <1>5, <1>6 DEF Precedes, uninstall_haproxy

(* The removal of any other unit purges its packages before it reports     *)
(* itself done.                                                            *)
LEMMA PurgePlace ==
  ASSUME NEW st \in Steps(snap), st[1] \in FactRoles, Op(st, snap) = "remove_completed"
  PROVE  \E p \in Steps(snap) : /\ p[1] = st[1] /\ Op(p, snap) = "purge"
                                /\ Precedes(p, st)
<1> DEFINE s == st[1]  k == st[2]
<1>1. /\ st = << s, k >> /\ s \in Stages
      /\ k \in DOMAIN Chain(s, snap) /\ Op(st, snap) = Chain(s, snap)[k]
  BY StepPair
<1>2. ~Installs(s, snap)
  BY InstallPlace DEF Units
<1>3. Chain(s, snap) # << >>
  BY <1>1
<1>4. Chain(s, snap) = RemoveChain(s)
  BY <1>2, <1>3 DEF Chain
<1>5. PICK j \in DOMAIN RemoveChain(s) : RemoveChain(s)[j] = "purge" /\ j < k
  <2>1. \/ s = "webui" /\ k = 6 /\ RemoveChain(s)[2] = "purge" /\ 2 \in DOMAIN RemoveChain(s)
        \/ s \in {"control", "collector"} /\ k \in {6, 7} /\ RemoveChain(s)[3] = "purge"
           /\ 3 \in DOMAIN RemoveChain(s)
        \/ /\ s \in {"config", "database", "openstack", "compute"} /\ k \in {6, 7}
           /\ RemoveChain(s)[4] = "purge" /\ 4 \in DOMAIN RemoveChain(s)
    BY <1>1, <1>4 DEF FactRoles, RemoveChain, uninstall_config, uninstall_database,
         uninstall_control, uninstall_collector, uninstall_webui, uninstall_openstack,
         uninstall_compute
  <2> QED BY <2>1
<1>6. << s, j >> \in Steps(snap)
  BY <1>1, <1>4, <1>5 DEF Steps
<1>7. Op(<< s, j >>, snap) = "purge" /\ Precedes(<< s, j >>, st)
  BY <1>1, <1>4, <1>5 DEF Op, Precedes
<1> QED BY <1>6, <1>7

(* Only a unit's own removal posts that it was uninstalled.                *)
LEMMA UninstalledBy ==
  ASSUME NEW st \in Steps(snap), ReportStatus(st), NEW u \in Units,
         lastState' = << "uninstall_completed", u >>
  PROVE  st[1] = u /\ Op(st, snap) = "remove_completed" /\ ~Installs(u, snap)
<1>1. st[1] = u /\ Op(st, snap) = "remove_completed"
  BY DEF ReportStatus, Sent
<1> QED BY <1>1, InstallPlace

(* What can come back: packages by an install, a process by an install, by *)
(* a service, or where its packages are, files by a config.                *)
LEMMA ComesBack ==
  ASSUME IInv, ReportInv, UpIsInstalled, NEW st \in Ready, Apply(st), NEW u \in Units,
         \/ u \in pkgs' /\ u \notin pkgs
         \/ u \in up' /\ u \notin up /\ (u \in FactRoles => u \notin pkgs)
         \/ conf'[u] # 0 /\ conf[u] = 0
  PROVE  Installs(u, snap) /\ << u, 1 >> \in done
<1>1. st \in Steps(snap) /\ TypeOK
  BY DEF Ready, IInv
<1>2. Op(st, snap) \in {"install", "config", "service"} /\ st[1] = u
  <2>1. CASE Remove(st)
    BY <1>1, <2>1 DEF Remove, TypeOK
  <2>2. CASE Serve(st)
    <3>1. ~Cannot(st)
      BY DEF Apply
    <3>2. CASE Start({st[1]}) /\ Op(st, snap) = "service"
      BY <2>2, <3>2 DEF Serve, Start
    <3>3. CASE /\ Start({"compute"})
               /\ Op(st, snap) \in {"restart_vrouter", "upgrade_vrouter"}
      BY <2>2, <3>1, <3>3 DEF Serve, Start, Cannot, FactRoles
    <3>4. CASE Start(snap.roles \cap pkgs \cap {"openstack", "config"})
      BY <2>2, <3>4 DEF Serve, Start, FactRoles
    <3> QED BY <2>2, <3>2, <3>3, <3>4 DEF Serve
  <2>3. CASE Install(st)
    BY <2>3 DEF Install
  <2>4. CASE Configure(st)
    BY <1>1, <2>4 DEF Configure, TypeOK
  <2> QED
    BY <2>1, <2>2, <2>3, <2>4 DEF Apply, ReportStatus, CallApi, SetupCompute,
                                  ClearCompute, ClearOutFiles, OtherTask, host
<1>3. Installs(u, snap)
  BY <1>1, <1>2, UnitStep
<1>4. << u, 1 >> \in done
  BY <1>1, <1>2, <1>3, InstallPlace DEF Ready
<1> QED BY <1>3, <1>4

LEMMA UpApply ==
  ASSUME IInv, ReportInv, UpIsInstalled, NEW st \in Ready, Apply(st)
  PROVE  UpIsInstalled'
<1>1. st \in Steps(snap) /\ ~Cannot(st)
  BY DEF Ready, Apply
<1>2. CASE Serve(st)
  <2>1. CASE UNCHANGED up
    BY <1>2, <2>1 DEF Serve, UpIsInstalled
  <2>2. CASE Start({st[1]}) /\ Op(st, snap) = "service"
    <3>1. st[1] \in Units /\ Installs(st[1], snap)
      BY <1>1, <2>2, UnitStep
    <3>2. << st[1], 2 >> \in done
      BY <1>1, <2>2, <3>1, InstallPlace DEF Ready
    <3>3. st[1] \in pkgs
      BY <3>1, <3>2 DEF ReportInv, PackagesThere
    <3> QED BY <1>2, <2>2, <3>3 DEF Serve, Start, UpIsInstalled
  <2>3. CASE /\ Start({"compute"})
             /\ Op(st, snap) \in {"restart_vrouter", "upgrade_vrouter"}
    BY <1>1, <1>2, <2>3 DEF Serve, Start, Cannot, UpIsInstalled
  <2>4. CASE Start(snap.roles \cap pkgs \cap {"openstack", "config"})
    BY <1>2, <2>4 DEF Serve, Start, UpIsInstalled
  <2> QED BY <1>2, <2>1, <2>2, <2>3, <2>4 DEF Serve
<1>3. CASE Remove(st)
  BY <1>3 DEF Remove, UpIsInstalled
<1>4. CASE Install(st)
  BY <1>4 DEF Install, UpIsInstalled
<1> QED
  BY <1>2, <1>3, <1>4 DEF Apply, ReportStatus, Configure, CallApi, SetupCompute,
                          ClearCompute, ClearOutFiles, OtherTask, host, UpIsInstalled

LEMMA GoneApply ==
  ASSUME IInv, ReportInv, GoneInv, NEW st \in Ready, Apply(st)
  PROVE  GoneInv'
<1>1. /\ st \in Steps(snap) /\ st \notin done /\ snap' = snap /\ st = << st[1], st[2] >>
      /\ done' = done \cup {st} /\ done \subseteq Steps(snap) /\ conf \in [Units -> 0 .. MaxVersion]
  BY StepPair DEF Apply, Applied, Ready, IInv, TypeOK
<1>2. \/ lastState' = lastState
      \/ ReportStatus(st)
  BY DEF Apply, Install, Configure, Serve, CallApi, SetupCompute, Remove,
         ClearCompute, ClearOutFiles, OtherTask
<1>3. UpIsInstalled /\ UpIsInstalled'
  BY UpApply DEF GoneInv
<1>4. Op(st, snap) \in {"stop", "purge", "clean"} => Remove(st)
  BY DEF Apply, ReportStatus, Install, Configure, Serve, CallApi, SetupCompute,
         ClearCompute, ClearOutFiles, OtherTask
<1>5. PurgedStays'
  <2> SUFFICES ASSUME NEW p \in done \cup {st}, Op(p, snap) = "purge"
               PROVE  p[1] \notin pkgs'
    BY <1>1 DEF PurgedStays
  <2>1. CASE p = st
    BY <1>4, <2>1 DEF Remove
  <2>2. CASE p \in done /\ p[1] \in Units
    <3>1. p[1] \notin pkgs
      BY <2>2 DEF GoneInv, PurgedStays
    <3>2. ~Installs(p[1], snap)
      BY <1>1, <2>2, InstallPlace
    <3> QED BY <1>3, <2>2, <3>1, <3>2, ComesBack
  <2>3. CASE p[1] \notin Units
    <3>1. TypeOK'
      BY ApplyType DEF IInv
    <3> QED BY <2>3, <3>1 DEF TypeOK
  <2> QED BY <2>1, <2>2, <2>3
<1>6. StoppedStays'
  <2> SUFFICES ASSUME NEW u \in Units \ FactRoles, ~Installs(u, snap)
               PROVE  /\ << u, 2 >> \in done \cup {st} => u \notin up'
                      /\ << u, 3 >> \in done \cup {st} => conf'[u] = 0
    BY <1>1 DEF StoppedStays
  <2>1. << u, 2 >> \in done => u \notin up'
    BY <1>3, ComesBack DEF GoneInv, StoppedStays
  <2>2. << u, 3 >> \in done => conf'[u] = 0
    BY <1>3, ComesBack DEF GoneInv, StoppedStays
  <2>3. ASSUME st = << u, 2 >> PROVE u \notin up'
    <3>1. Op(st, snap) = "stop"
      BY <1>1, <2>3, VipRemoval
    <3> QED BY <1>4, <2>3, <3>1 DEF Remove
  <2>4. ASSUME st = << u, 3 >> PROVE conf'[u] = 0
    <3>1. Op(st, snap) = "clean"
      BY <1>1, <2>4, VipRemoval
    <3> QED BY <1>1, <1>4, <2>4, <3>1 DEF Remove
  <2> QED BY <2>1, <2>2, <2>3, <2>4
<1>7. InstallIsReported'
  <2> SUFFICES ASSUME NEW u \in Units, Installs(u, snap), << u, 1 >> \in done \cup {st},
                      lastState' = << "uninstall_completed", u >>
               PROVE  FALSE
    BY <1>1 DEF InstallIsReported
  <2>1. lastState' = lastState /\ ~ReportStatus(st)
    BY <1>1, <1>2, UninstalledBy
  <2>2. st = << u, 1 >>
    BY <2>1 DEF GoneInv, InstallIsReported
  <2>3. Op(st, snap) = "started"
    BY <1>1, <2>2, InstallPlace
  <2> QED
    BY <2>1, <2>3 DEF Apply, Install, Configure, Serve, CallApi, SetupCompute, Remove,
                      ClearCompute, ClearOutFiles, OtherTask
<1>8. UninstalledMeansGone'
  <2> SUFFICES ASSUME NEW u \in Units, lastState' = << "uninstall_completed", u >>
               PROVE  u \notin up' /\ IF u \in FactRoles THEN u \notin pkgs' ELSE conf'[u] = 0
    BY DEF UninstalledMeansGone
  <2>1. CASE ReportStatus(st)
    <3>1. st[1] = u /\ Op(st, snap) = "remove_completed" /\ ~Installs(u, snap)
      BY <1>1, <2>1, UninstalledBy
    <3>2. u \in FactRoles => u \notin pkgs
      <4> SUFFICES ASSUME u \in FactRoles PROVE u \notin pkgs
        OBVIOUS
      <4>1. PICK p \in Steps(snap) : p[1] = u /\ Op(p, snap) = "purge" /\ Precedes(p, st)
        BY <1>1, <3>1, PurgePlace
      <4>2. p \in done
        BY <4>1 DEF Ready
      <4> QED BY <4>1, <4>2 DEF GoneInv, PurgedStays
    <3>3. u \notin FactRoles => u \notin up /\ conf[u] = 0
      <4> SUFFICES ASSUME u \notin FactRoles PROVE u \notin up /\ conf[u] = 0
        OBVIOUS
      <4>1. << u, 2 >> \in done /\ << u, 3 >> \in done
        BY <1>1, <3>1, VipRemoval DEF Ready
      <4> QED BY <3>1, <4>1 DEF GoneInv, StoppedStays
    <3>4. u \in FactRoles => u \notin up
      BY <1>3, <3>2 DEF UpIsInstalled
    <3>5. UNCHANGED << up, pkgs, conf >>
      BY <2>1 DEF ReportStatus, host
    <3> QED BY <3>2, <3>3, <3>4, <3>5
  <2>2. CASE lastState' = lastState
    <3>1. u \notin up /\ IF u \in FactRoles THEN u \notin pkgs ELSE conf[u] = 0
      BY <2>2 DEF GoneInv, UninstalledMeansGone
    <3>2. ~(Installs(u, snap) /\ << u, 1 >> \in done)
      BY <2>2 DEF GoneInv, InstallIsReported
    <3> QED BY <1>3, <3>1, <3>2, ComesBack
  <2> QED BY <1>2, <2>1, <2>2
<1> QED BY <1>3, <1>5, <1>6, <1>7, <1>8 DEF GoneInv

LEMMA GoneStep == IInv /\ ReportInv /\ GoneInv /\ [Next]_vars => GoneInv'
<1> SUFFICES ASSUME IInv, ReportInv, GoneInv, [Next]_vars PROVE GoneInv'
  OBVIOUS
<1>1. ASSUME UNCHANGED << snap, done, pkgs, conf, lastState >>, up' \subseteq up
      PROVE  GoneInv'
  BY <1>1 DEF GoneInv, UpIsInstalled, PurgedStays, StoppedStays, InstallIsReported,
              UninstalledMeansGone
<1>2. ASSUME done' = {}, UNCHANGED << pkgs, conf, lastState >>,
             up' = up \/ up' = { u \in pkgs : conf[u] # 0 }
      PROVE  GoneInv'
  <2>1. \A u \in up' : u \in up \/ (u \in pkgs /\ conf[u] # 0)
    BY <1>2
  <2>2. UpIsInstalled'
    BY <1>2, <2>1 DEF GoneInv, UpIsInstalled
  <2>3. UninstalledMeansGone'
    BY <1>2, <2>1 DEF GoneInv, UninstalledMeansGone
  <2>4. PurgedStays' /\ StoppedStays' /\ InstallIsReported'
    BY <1>2 DEF PurgedStays, StoppedStays, InstallIsReported
  <2> QED BY <2>2, <2>3, <2>4 DEF GoneInv
<1>3. CASE UNCHANGED << snap, done, pkgs, conf, up, lastState >>
  BY <1>1, <1>3
<1>4. CASE StartRun
  <2>1. done' = {}
    BY <1>4 DEF StartRun, IInv, PhaseOK
  <2> QED BY <1>2, <1>4, <2>1 DEF StartRun, host
<1>5. CASE EndRun \/ AgentKilled
  <2>1. done' = {} /\ UNCHANGED << pkgs, conf, up, lastState >>
    BY <1>5 DEF EndRun, AgentKilled, Over, host
  <2> QED BY <1>2, <2>1
<1>6. CASE Boot
  <2>1. /\ done' = {} /\ UNCHANGED << pkgs, conf, lastState >>
        /\ up' = { u \in pkgs : conf[u] # 0 }
    BY <1>6 DEF Boot, Over
  <2> QED BY <1>2, <2>1
<1>7. ASSUME UNCHANGED << snap, done, pkgs, conf, lastState >>,
             NEW u, up' = up \/ up' = up \ {u}
      PROVE  GoneInv'
  BY <1>1, <1>7
<1>8. ASSUME NEW st \in Ready, Apply(st) PROVE GoneInv'
  BY <1>8, GoneApply
<1> QED
  BY <1>3, <1>4, <1>5, <1>6, <1>7, <1>8
     DEF Next, SetPlan, RefuseRun, RebootResource, StepFails, Fail, HostReboots,
         ServiceDies, host, run, vars

(* When the last state the server manager received is that a role was      *)
(* uninstalled, nothing of it runs nor comes back with a boot or a run for *)
(* other roles, and its packages are gone, but for keepalived and haproxy. *)
THEOREM UninstalledMeansGoneHolds == Spec => []UninstalledMeansGone
<1>1. Init => GoneInv
  <2>1. Legacy \subseteq Units
    BY RunAssumption
  <2> QED
    BY <2>1 DEF Init, GoneInv, UpIsInstalled, PurgedStays, StoppedStays,
                InstallIsReported, UninstalledMeansGone
<1>2. IInv /\ ReportInv /\ GoneInv /\ [Next]_vars => GoneInv'
  BY GoneStep
<1>3. GoneInv => UninstalledMeansGone
  BY DEF GoneInv
<1> QED BY IInvInductive, ReportInvariant, <1>1, <1>2, <1>3, PTL DEF Spec

-----------------------------------------------------------------------------
(* No two resources of a catalog wait for each other.                      *)

Weight(st) == 10 * Rank[st[1]] + st[2]

LEMMA WeightIsNat ==
  ASSUME NEW st \in Steps(snap)
  PROVE  Weight(st) \in Nat /\ Rank[st[1]] \in Nat /\ st[2] \in 1 .. 9
<1>1. st[1] \in Stages /\ st[2] \in DOMAIN Chain(st[1], snap)
  BY StepPair
<1>2. st[2] \in 1 .. 9
  BY <1>1, ChainIndex
<1>3. Rank[st[1]] \in 1 .. 15
  BY <1>1, StageRank
<1> QED BY <1>2, <1>3 DEF Weight

LEMMA PrecedesIsLighter ==
  ASSUME NEW a \in Steps(snap), NEW b \in Steps(snap), Precedes(a, b)
  PROVE  Weight(a) < Weight(b)
<1>1. /\ Rank[a[1]] \in Nat /\ a[2] \in 1 .. 9
      /\ Rank[b[1]] \in Nat /\ b[2] \in 1 .. 9
  BY WeightIsNat
<1> QED BY <1>1 DEF Precedes, StageBefore, Weight

LEMMA PrecedesIsTransitive ==
  ASSUME NEW a \in Steps(snap), NEW b \in Steps(snap), NEW c \in Steps(snap),
         Precedes(a, b), Precedes(b, c)
  PROVE  Precedes(a, c)
<1>1. /\ Rank[a[1]] \in Nat /\ a[2] \in 1 .. 9
      /\ Rank[b[1]] \in Nat /\ b[2] \in 1 .. 9
      /\ Rank[c[1]] \in Nat /\ c[2] \in 1 .. 9
  BY WeightIsNat
<1> QED BY <1>1 DEF Precedes, StageBefore

LEMMA LeastNumber ==
  ASSUME NEW T \in SUBSET Nat, T # {}
  PROVE  \E x \in T : \A y \in T : ~(y < x)
<1>1. \E x \in T : \A y \in T : << y, x >> \notin OpToRel(<, Nat)
  BY WFMin, NatLessThanWellFounded
<1> QED BY <1>1 DEF OpToRel

(* A run ends with a resource unapplied only where a failed one comes      *)
(* before it: of the resources skipped for another reason the first would  *)
(* still be ready.                                                         *)
THEOREM SkippedForCauseHolds == Spec => SkippedForCause
<1>1. ASSUME TypeOK, EndRun, NEW b \in Steps(snap) \ (done \cup failed)
      PROVE  \E a \in failed : Precedes(a, b)
  <2> DEFINE Skipped == { s \in Steps(snap) \ (done \cup failed) :
                            \A a \in failed : ~Precedes(a, s) }
             W == { Weight(s) : s \in Skipped }
  <2> SUFFICES ASSUME b \in Skipped PROVE FALSE
    OBVIOUS
  <2>1. W \in SUBSET Nat /\ W # {}
    BY WeightIsNat
  <2>2. PICK x \in W : \A y \in W : ~(y < x)
    BY <2>1, LeastNumber
  <2>3. PICK s \in Skipped : \A c \in Skipped : ~(Weight(c) < Weight(s))
    BY <2>2
  <2>4. PICK a \in Steps(snap) \ done : Precedes(a, s)
    BY <1>1 DEF EndRun, Ready
  <2>5. a \notin failed
    BY <2>4
  <2>6. failed \subseteq Steps(snap)
    BY <1>1 DEF TypeOK
  <2>7. a \in Skipped
    BY <2>4, <2>5, <2>6, PrecedesIsTransitive
  <2> QED BY <2>3, <2>4, <2>7, PrecedesIsLighter
<1>2. TypeOK => [EndRun => \A b \in Steps(snap) \ (done \cup failed) :
                              \E a \in failed : Precedes(a, b)]_vars
  BY <1>1
<1> QED BY TypeCorrect, <1>2, PTL DEF SkippedForCause

=============================================================================
