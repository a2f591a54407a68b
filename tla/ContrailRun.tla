---------------------------- MODULE ContrailRun ----------------------------
(***************************************************************************)
(* One host of the cluster under the Puppet agent: the agent takes facts,  *)
(* gets the catalog of ContrailCatalog compiled and applies its resources  *)
(* in dependency order; resources whose dependency failed are skipped.     *)
(* The server manager changes roles and parameters at any moment, also     *)
(* while a run applies the previous catalog; resources fail, the agent is  *)
(* killed, services die and the host reboots between any two steps.        *)
(***************************************************************************)
EXTENDS ContrailCatalog, FiniteSets

CONSTANTS Plans,       \* what the server manager may ask for
          FirstPlan,   \* the one it starts with
          Legacy,      \* units an earlier release installed and left running
          ApiHere,     \* config_ip_to_use is the address of this host
          MaxVersion,  \* bound: parameter revisions
          MaxFaults    \* bound: failures, kills, service deaths and reboots

ASSUME RunAssumption ==
  /\ Plans \subseteq [roles : SUBSET RoleNames, enabled : SUBSET Stages,
                      release : Nat, upgrade : BOOLEAN]
  /\ FirstPlan \in Plans
  /\ Legacy \subseteq Units
  /\ ApiHere \in BOOLEAN
  /\ MaxVersion \in Nat \ {0}
  /\ MaxFaults \in Nat

VARIABLES
  plan,      \* host_roles, enable_* flags, contrail_version and
             \* contrail_upgrade now in hiera
  version,   \* revision of the parameters now in hiera
  pkgs,      \* units whose packages are installed
  release,   \* contrail_version fact: of contrail-lib, 0: not installed
  conf,      \* unit -> revision its configuration files hold, 0: none
  up,        \* units whose service runs
  loaded,    \* unit -> revision its process read when it was last started
  marks,     \* markers in the /etc/contrail/*.out files
  phase,     \* "idle" or "applying"
  snap,      \* what the catalog being applied was compiled from
  done,      \* resources applied in this run
  failed,    \* resources that failed in this run
  due,       \* services (and "reboot") with an undelivered notification
  outcome,   \* how the last run ended
  lastState, \* the last state the server manager received from this host
  lost,      \* history: notifications dropped when the agent was killed
  unbooted,  \* history: "notified" or "upgraded" if compute-server-setup ran
             \* with or without a reboot resource, no reboot since
  faults     \* history: faults so far

host == << pkgs, release, conf, up, loaded >>
run  == << phase, snap, done, failed, outcome >>
vars == << plan, version, pkgs, release, conf, up, loaded, marks, phase, snap,
           done, failed, due, outcome, lastState, lost, unbooted, faults >>

NoSnap == [roles |-> {}, enabled |-> {}, version |-> 0, release |-> 0,
           present |-> {}, upgrade |-> "no"]

(* contrail_compute_exec.out; nothing in the module writes the flag, so it *)
(* is compute-server-setup.sh that asks for a reboot of the server.        *)
ComputeMarks == {"del-vnc-config", "add-vnc-config", "setup-compute-server-setup",
                 "flag-reboot-server"}

Marks == ComputeMarks \cup {"del-vnc-control", "reset_provision_3_0"}

Outcomes == {"none", "done", "failed", "refused", "killed", "rebooted"}

SentStates == ({"started", "completed", "uninstall_started", "uninstall_completed"}
               \X Stages) \cup { << "none", "none" >> }

Snapshots == [roles : SUBSET RoleNames, enabled : SUBSET Stages,
              version : 0 .. MaxVersion, release : Nat,
              present : SUBSET FactRoles, upgrade : {"no", "asked", "needed"}]

-----------------------------------------------------------------------------
(* What steps need and cause.                                              *)

Stale(u) == u \in up /\ loaded[u] # conf[u]

(* The API server at config_ip_to_use answers: always (faults aside) when  *)
(* it is elsewhere, else when this host's config services run.             *)
ApiUp == ApiHere => "config" \in up

NeedsApi(st) ==
  \/ Op(st, snap) \in {"provision", "top_of_rack"}
  \/ Op(st, snap) = "register" /\ "add-vnc-config" \notin marks
  \/ /\ Op(st, snap) = "deregister"
     /\ st[1] = "control" => "del-vnc-control" \notin marks
     /\ st[1] = "compute" => "del-vnc-config" \notin marks

(* apt-get autoremove is run whatever the operating system; toragent       *)
(* starts supervisor-vrouter also where compute has not installed it.      *)
Cannot(st) ==
  \/ NeedsApi(st) /\ ~ApiUp
  \/ Op(st, snap) \in {"restart_vrouter", "upgrade_vrouter"} /\ "compute" \notin pkgs
  \/ Op(st, snap) = "autoremove" /\ ~OnUbuntu

Ready ==
  LET all == Steps(snap)
  IN  { b \in all \ (done \cup failed) :
          \A a \in all \ done : ~Precedes(a, b) }

(* Configuration classes that change on every run: generate_ha_config and, *)
(* where config also manages its database (config_manage_db, true unless   *)
(* hiera says otherwise), update-jamm are unguarded.                       *)
AlwaysChanged == {"haproxy"} \cup
                 (IF "database" \in snap.roles THEN {} ELSE {"config"})

Start(U) ==
  /\ up' = up \cup U
  /\ loaded' = [u \in Units |-> IF u \in U THEN conf[u] ELSE loaded[u]]
  /\ due' = due \ U
  /\ lost' = lost \ U

Applied(st) ==
  /\ done' = done \cup {st}
  /\ UNCHANGED << plan, version, phase, snap, failed, outcome, faults >>

(* Mutant: the next run goes on where this one ended.                      *)
OverKeepsDone(how) ==
  /\ phase' = "idle" /\ snap' = NoSnap /\ done' = done /\ failed' = {}
  /\ outcome' = how

Over(how) ==
  /\ phase' = "idle" /\ snap' = NoSnap /\ done' = {} /\ failed' = {}
  /\ outcome' = how

(* After a reboot every configured unit runs on its current files.         *)
Boot ==
  /\ up' = { u \in pkgs : conf[u] # 0 }
  /\ loaded' = conf
  /\ due' = {} /\ lost' = {} /\ unbooted' = "no"
  /\ Over("rebooted")
  /\ UNCHANGED << plan, version, pkgs, release, conf, lastState >>

-----------------------------------------------------------------------------
TypeOK ==
  /\ plan \in Plans
  /\ version \in 1 .. MaxVersion
  /\ pkgs \in SUBSET Units
  /\ release \in Nat
  /\ conf \in [Units -> 0 .. MaxVersion]
  /\ up \in SUBSET Units
  /\ loaded \in [Units -> 0 .. MaxVersion]
  /\ marks \in SUBSET Marks
  /\ phase \in {"idle", "applying"}
  /\ snap \in Snapshots
  /\ done \in SUBSET Steps(snap)
  /\ failed \in SUBSET Steps(snap)
  /\ due \in SUBSET (Units \cup {"reboot"})
  /\ outcome \in Outcomes
  /\ lastState \in SentStates
  /\ lost \in SUBSET (Units \cup {"reboot"})
  /\ unbooted \in {"no", "notified", "upgraded"}
  /\ faults \in 0 .. MaxFaults

Init ==
  /\ plan = FirstPlan /\ version = 1
  /\ pkgs = Legacy /\ up = Legacy
  /\ release = IF Legacy = {} THEN 0 ELSE 1
  /\ conf = [u \in Units |-> IF u \in Legacy THEN 1 ELSE 0] /\ loaded = conf
  /\ marks = {}
  /\ phase = "idle" /\ snap = NoSnap /\ done = {} /\ failed = {}
  /\ due = {} /\ outcome = "none"
  /\ lastState = << "none", "none" >>
  /\ lost = {} /\ unbooted = "no" /\ faults = 0

-----------------------------------------------------------------------------
(* The server manager rewrites hiera.                                      *)
SetPlan(p) ==
  /\ version < MaxVersion
  /\ plan' = p /\ version' = version + 1
  /\ UNCHANGED << host, run, marks, due, lastState, lost, unbooted, faults >>

(* The agent collects facts and has the catalog compiled.                  *)
Upgrade == IF release # 0 /\ plan.release > release THEN "needed"
           ELSE IF plan.upgrade THEN "asked" ELSE "no"

Compiled == [roles |-> plan.roles, enabled |-> plan.enabled, version |-> version,
             release |-> plan.release, present |-> up \cap FactRoles,
             upgrade |-> Upgrade]

StartRun ==
  /\ phase = "idle" /\ ~Refused(Compiled)
  /\ phase' = "applying" /\ snap' = Compiled
  /\ UNCHANGED << plan, version, host, marks, done, failed, due, outcome,
                  lastState, lost, unbooted, faults >>

RefuseRun ==
  /\ phase = "idle" /\ Refused(Compiled)
  /\ outcome' = "refused"
  /\ UNCHANGED << plan, version, host, marks, phase, snap, done, failed, due,
                  lastState, lost, unbooted, faults >>

ReportStatus(st) ==
  /\ Op(st, snap) \in {"started", "completed", "remove_started", "remove_completed"}
  /\ lastState' = Sent(st[1], Op(st, snap))
  /\ UNCHANGED << host, marks, due, lost, unbooted >>

(* contrail-lib comes with the packages that depend on it, at the latest   *)
(* with the first one of the new release.                                  *)
LibUpdated == release' = IF snap.release > release THEN snap.release ELSE release

(* ensure => latest, notifying the service: what is installed may be       *)
(* replaced too.  The package's own scripts may (re)start the service, on  *)
(* whatever configuration there is.                                        *)
Install(st) ==
  /\ Op(st, snap) = "install"
  /\ \/ /\ st[1] \in pkgs
        /\ UNCHANGED << pkgs, release, up, loaded, due >>
     \/ /\ pkgs' = pkgs \cup {st[1]}
        /\ due' = due \cup {st[1]}
        /\ IF st[1] \in {"keepalived", "haproxy"} THEN UNCHANGED release ELSE LibUpdated
        /\ \/ UNCHANGED << up, loaded >>
           \/ /\ up' = up \cup {st[1]}
              /\ loaded' = [loaded EXCEPT ![st[1]] = conf[st[1]]]
  /\ UNCHANGED << conf, marks, lastState, lost, unbooted >>

(* Mutant: Class[config] -> Class[service] everywhere.                     *)
ConfigureSilently(st) ==
  /\ Op(st, snap) = "config"
  /\ conf' = [conf EXCEPT ![st[1]] = snap.version]
  /\ UNCHANGED << pkgs, release, up, loaded, due, marks, lastState, lost, unbooted >>

(* compute: Class[config] -> Class[service] only orders, it does not notify *)
Configure(st) ==
  /\ Op(st, snap) = "config"
  /\ conf' = [conf EXCEPT ![st[1]] = snap.version]
  /\ IF /\ st[1] # "compute"
        /\ conf[st[1]] # snap.version \/ st[1] \in AlwaysChanged
     THEN due' = due \cup {st[1]} ELSE due' = due
  /\ UNCHANGED << pkgs, release, up, loaded, marks, lastState, lost, unbooted >>

Serve(st) ==
  /\ \/ /\ Op(st, snap) = "service"
        /\ ~(st[1] = "compute" /\ "toragent" \in snap.roles)
        /\ IF st[1] \in up /\ st[1] \notin due
           THEN UNCHANGED << up, loaded, due, lost >> ELSE Start({st[1]})
     \/ /\ Op(st, snap) = "service"
        /\ st[1] = "compute" /\ "toragent" \in snap.roles
        /\ UNCHANGED << up, loaded, due, lost >>
     \/ Op(st, snap) \in {"restart_vrouter", "upgrade_vrouter"} /\ Start({"compute"})
     \/ /\ Op(st, snap) = "post_openstack"
        /\ IF "openstack" \in snap.roles
           THEN Start(snap.roles \cap pkgs \cap {"openstack", "config"})
           ELSE UNCHANGED << up, loaded, due, lost >>
  /\ UNCHANGED << pkgs, release, conf, marks, lastState, unbooted >>

(* Calls to the API server; add-vnc-config and the del-vnc markers guard   *)
(* three of them.                                                          *)
CallApi(st) ==
  /\ Op(st, snap) \in {"register", "deregister", "provision", "top_of_rack"}
  /\ marks' = marks \cup
       ( CASE Op(st, snap) = "register"                          -> {"add-vnc-config"}
           [] Op(st, snap) = "deregister" /\ st[1] = "control"   -> {"del-vnc-control"}
           [] Op(st, snap) = "deregister" /\ st[1] = "compute"   -> {"del-vnc-config"}
           [] OTHER -> {} )
  /\ UNCHANGED << host, due, lastState, lost, unbooted >>

(* Mutant: the reboot resource does not subscribe to the exec.             *)
SetupComputeQuietly(st) ==
  /\ Op(st, snap) = "setup"
  /\ marks' = marks \cup {"setup-compute-server-setup"}
  /\ unbooted' = IF "setup-compute-server-setup" \in marks THEN unbooted ELSE "notified"
  /\ UNCHANGED << host, due, lastState, lost >>

SetupCompute(st) ==
  /\ Op(st, snap) = "setup"
  /\ IF "setup-compute-server-setup" \in marks
     THEN UNCHANGED << marks, due, unbooted >>
     ELSE /\ \/ marks' = marks \cup {"setup-compute-server-setup"}
             \/ marks' = marks \cup {"setup-compute-server-setup", "flag-reboot-server"}
          /\ \/ snap.upgrade = "needed" /\ UNCHANGED due /\ unbooted' = "upgraded"
             \/ /\ snap.upgrade # "needed"
                /\ due' = due \cup {"reboot"} /\ unbooted' = "notified"
  /\ UNCHANGED << host, lastState, lost >>

(* clear_out_files: on Ubuntu the first upgrade of a host removes all      *)
(* markers.                                                                *)
ClearOutFiles(st) ==
  /\ Op(st, snap) = "contrail_upgrade"
  /\ marks' = IF /\ OnUbuntu /\ snap.upgrade # "no"
                 /\ "reset_provision_3_0" \notin marks
              THEN {"reset_provision_3_0"} ELSE marks
  /\ UNCHANGED << host, due, lastState, lost, unbooted >>

Remove(st) ==
  /\ \/ Op(st, snap) = "stop" /\ UNCHANGED << pkgs, conf >>
     \/ Op(st, snap) = "purge" /\ pkgs' = pkgs \ {st[1]}
        /\ conf' = [conf EXCEPT ![st[1]] = 0]
     \/ Op(st, snap) = "clean" /\ conf' = [conf EXCEPT ![st[1]] = 0]
        /\ UNCHANGED pkgs
  /\ up' = IF Op(st, snap) = "clean" THEN up ELSE up \ {st[1]}
  /\ UNCHANGED << release, loaded, marks, due, lastState, lost, unbooted >>

ClearCompute(st) ==
  /\ Op(st, snap) = "clear"
  /\ marks' = marks \ ComputeMarks
  /\ UNCHANGED << host, due, lastState, lost, unbooted >>

(* Resources whose own state this module abstracts; a reboot resource      *)
(* that nothing notified or flagged is one of them.                        *)
OtherTask(st) ==
  /\ \/ Op(st, snap) \in {"common", "ha_config", "storage", "post_provision",
                          "delete_services", "autoremove"}
     \/ Op(st, snap) = "reboot" /\ "reboot" \notin due
     \/ Op(st, snap) = "do_reboot_server" /\ "flag-reboot-server" \notin marks
  /\ UNCHANGED << host, marks, due, lastState, lost, unbooted >>

Apply(st) ==
  /\ phase = "applying" /\ ~Cannot(st)
  /\ \/ ReportStatus(st) \/ Install(st) \/ Configure(st) \/ Serve(st)
     \/ CallApi(st) \/ SetupCompute(st) \/ Remove(st) \/ ClearCompute(st)
     \/ ClearOutFiles(st) \/ OtherTask(st)
  /\ Applied(st)

(* reboot { apply => immediately } and `reboot -f` end the run with the    *)
(* host.  The latter is meant to be done once, but its `unless` greps for  *)
(* an empty shell variable, not for the class parameter.                   *)
RebootResource(st) ==
  /\ phase = "applying"
  /\ \/ Op(st, snap) = "reboot" /\ "reboot" \in due
     \/ Op(st, snap) = "reboot_removed"
     \/ Op(st, snap) = "do_reboot_server" /\ "flag-reboot-server" \in marks
  /\ Boot
  /\ UNCHANGED << marks, faults >>

Fail(st) ==
  /\ failed' = failed \cup {st}
  /\ IF Op(st, snap) = "service"
     THEN up' = up \ {st[1]} /\ due' = due \ {st[1]}
     ELSE UNCHANGED << up, due >>
  /\ UNCHANGED << plan, version, pkgs, release, conf, loaded, marks, phase, snap,
                  done, outcome, lastState, lost, unbooted >>

(* A reboot resource only spawns the shutdown: it does not fail.  rmmod    *)
(* may well find the module in use.                                        *)
StepFails(st) ==
  /\ phase = "applying" /\ Op(st, snap) \notin {"reboot", "reboot_removed"}
  /\ \/ Cannot(st) /\ UNCHANGED faults
     \/ Op(st, snap) = "upgrade_vrouter" /\ UNCHANGED faults
     \/ ~Cannot(st) /\ faults < MaxFaults /\ faults' = faults + 1
  /\ Fail(st)

EndRun ==
  /\ phase = "applying" /\ Ready = {}
  /\ Over(IF failed = {} THEN "done" ELSE "failed")
  /\ due' = {}
  /\ UNCHANGED << plan, version, host, marks, lastState, lost, unbooted, faults >>

-----------------------------------------------------------------------------
(* Faults.                                                                 *)

AgentKilled ==
  /\ phase = "applying" /\ faults < MaxFaults
  /\ Over("killed")
  /\ lost' = lost \cup due /\ due' = {}
  /\ faults' = faults + 1
  /\ UNCHANGED << plan, version, host, marks, lastState, unbooted >>

ServiceDies(u) ==
  /\ u \in up /\ faults < MaxFaults
  /\ up' = up \ {u}
  /\ faults' = faults + 1
  /\ UNCHANGED << plan, version, pkgs, release, conf, loaded, run, marks, due,
                  lastState, lost, unbooted >>

HostReboots ==
  /\ faults < MaxFaults
  /\ Boot
  /\ faults' = faults + 1
  /\ UNCHANGED marks

Agent == \/ StartRun \/ EndRun \/ RefuseRun
         \/ \E st \in Ready : Apply(st) \/ RebootResource(st)
         \/ \E st \in Ready : Cannot(st) /\ StepFails(st)

Next == \/ \E p \in Plans : SetPlan(p)
        \/ StartRun \/ RefuseRun \/ EndRun
        \/ \E st \in Ready : Apply(st) \/ RebootResource(st) \/ StepFails(st)
        \/ AgentKilled \/ HostReboots
        \/ \E u \in Units : ServiceDies(u)

Spec == Init /\ [][Next]_vars

(* The agent is a daemon: it starts runs and applies what is ready.        *)
FairSpec == Spec /\ WF_vars(Agent)

-----------------------------------------------------------------------------
(* Properties.                                                             *)

(* The units whose Class[config] notifies their Class[service]: compute's  *)
(* deliberately does not, and openstack's services are notified by the     *)
(* third-party modules.                                                    *)
Notified == {"keepalived", "haproxy", "webui", "config", "control",
             "global_controller", "collector"}

Completed(s) ==
  /\ phase = "applying"
  /\ \E st \in done : st[1] = s /\ Op(st, snap) = "completed"

(* Once a role has reported X_completed, its files hold the parameters of  *)
(* this run and its process, if it runs, was started on them: the          *)
(* notification of Class[config] ~> Class[service] cannot get lost between *)
(* the stages, but for a kill of the agent between the two.                *)
NoStaleProcess ==
  \A u \in Notified : Completed(u) /\ u \notin lost =>
     conf[u] = snap.version /\ ~Stale(u)

(* post_provision_completed means every enabled role of the catalog has    *)
(* been configured with this run's parameters and, unless something        *)
(* failed or died, is being served.                                        *)
ProvisionedMeansServing ==
  Completed("provision_complete") =>
    \A u \in snap.roles \cap snap.enabled \cap Notified :
      conf[u] = snap.version /\ (faults = 0 => u \in up)

(* When the last thing the server manager heard is that a role completed,  *)
(* that role is installed, unless it is database, whose removal posts the  *)
(* same state (that of config does too, but can never complete).           *)
CompletedMeansInstalled ==
  \A u \in Units : lastState = << "completed", u >> /\ u \notin pkgs =>
     u = "database"

(* compute_completed without a reboot after compute-server-setup is only   *)
(* possible when the agent was killed between that exec and the reboot     *)
(* resource it notifies (the marker then suppresses exec and notification) *)
(* or when the exec ran in an upgrade, which declares no such resource;    *)
(* no later run, upgrade or reset of the markers comes to hide it.         *)
UnbootedMeansLost ==
  Completed("compute") /\ unbooted # "no" =>
    "reboot" \in lost \/ unbooted = "upgraded"

(* When the last thing the server manager heard is that a role was         *)
(* uninstalled, nothing of it runs, whatever other roles, runs and reboots *)
(* do since, and its packages are gone; those of keepalived and haproxy    *)
(* stay, without the configuration a boot would start them on.             *)
UninstalledMeansGone ==
  \A u \in Units : lastState = << "uninstall_completed", u >> =>
     /\ u \notin up
     /\ IF u \in FactRoles THEN u \notin pkgs ELSE conf[u] = 0

(* A run leaves a resource unapplied only behind one that failed: no       *)
(* catalog that is applied has resources that wait for each other, so a    *)
(* run that ends "done" has applied all of its catalog.                    *)
SkippedForCause ==
  [][EndRun => \A b \in Steps(snap) \ (done \cup failed) :
                 \E a \in failed : Precedes(a, b)]_vars

(* Every role in use is eventually served on the latest parameters and     *)
(* stays so, or still waits for a notification a kill has dropped.         *)
Converged ==
  \A u \in plan.roles \cap plan.enabled \cap Notified :
     u \in up /\ (loaded[u] = version \/ u \in lost)
Converges == <>[]Converged

(* A role taken from the host eventually stops for good, but for a role    *)
(* that can only be deregistered at an API server that went before it.     *)
Retired ==
  up \cap FactRoles \subseteq
    plan.roles \cup (IF ApiUp THEN {} ELSE {"config", "database", "control",
                                           "collector", "compute"})
Retires == <>[]Retired

(* Why NoStaleProcess holds: what is applied has all its predecessors      *)
(* applied, files stay as this run wrote them, and a process that runs on  *)
(* other files than there are still has its notification before it.        *)
Configured(u) == Installs(u, snap) /\ << u, 3 >> \in done

Pending(u) ==
  /\ Configured(u) /\ u \in due
  /\ << u, 4 >> \notin done \cup failed

DownClosed ==
  \A b \in done \cup failed : \A a \in Steps(snap) : Precedes(a, b) => a \in done

FilesCurrent == \A u \in Notified : Configured(u) => conf[u] = snap.version

StaleIsNotified ==
  \A u \in Notified :
    Stale(u) => conf[u] = 0 \/ u \in lost \/ Pending(u)

PhaseOK ==
  /\ phase = "idle" => done = {} /\ failed = {}
  /\ phase = "applying" => snap.version # 0

IInv == TypeOK /\ PhaseOK /\ DownClosed /\ FilesCurrent /\ StaleIsNotified

(* What the repository says and the code does not do.                      *)

(* compute/config.pp:394 "Now reboot the system": compute_completed is     *)
(* reported by a system rebooted since compute-server-setup.               *)
RebootedBeforeCompleted == Completed("compute") => unbooted = "no"

(* profile/collector.pp:7 "If true, the module is invoked": an enabled     *)
(* role of the host is eventually installed.                               *)
EnabledIsInstalled ==
  \A u \in {"collector"} :
    (u \in plan.roles \cap plan.enabled) ~>
       (u \in pkgs \/ u \notin plan.roles \cap plan.enabled)

=============================================================================
