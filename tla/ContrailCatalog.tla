-------------------------- MODULE ContrailCatalog --------------------------
(***************************************************************************)
(* The catalog that manifests/contrail_all.pp compiles to for ONE host:    *)
(* which profile of which stage installs its role, which one removes it,   *)
(* the chain of resources either way, and the catalogs Puppet refuses.     *)
(*                                                                         *)
(* A catalog is compiled from a snapshot                                   *)
(*   c.roles    host_roles, as the server manager wrote it to hiera        *)
(*   c.enabled  the enable_* flags of contrail::params that are true       *)
(*   c.version  which revision of the other parameters (addresses, lists)  *)
(*   c.release  contrail_version, the release hiera asks for               *)
(*   c.present  the roles the contrail_roles fact found at the start of    *)
(*              the run                                                    *)
(*   c.upgrade  "needed" if an older release was installed then            *)
(*              ($upgrade_needed), else "asked" if hiera says              *)
(*              contrail_upgrade, else "no"                                *)
(***************************************************************************)
EXTENDS Naturals, Sequences

CONSTANTS OnUbuntu,         \* $::operatingsystem is Ubuntu (else Centos)
          AnsibleProvision, \* contrail::ansible_provision
          EnableLbaas       \* contrail::params::enable_lbaas

ASSUME FlagsAssumption ==
  /\ OnUbuntu \in BOOLEAN
  /\ AnsibleProvision \in BOOLEAN
  /\ EnableLbaas \in BOOLEAN

RoleNames == {"database", "openstack", "config", "control", "collector",
              "webui", "compute", "global_controller", "tsn", "toragent",
              "storage-master", "storage-compute"}

(* The roles the contrail_roles fact looks for: "analytics" is reported as *)
(* collector and "vrouter" as compute.                                     *)
FactRoles == {"database", "openstack", "config", "control", "webui",
              "collector", "compute"}

(* What a profile installs: a package with its configuration and service.  *)
Units == FactRoles \cup {"keepalived", "haproxy", "global_controller"}

(* The Stage resources, in the order of the stage chain.  The stages of    *)
(* one element are not ordered with each other.  (Stages 'contrail' and    *)
(* 'base' only evaluate parameters and third-party sysctl settings.)       *)
StageChain == << {"provision_start"}, {"common"}, {"keepalived"},
                 {"haproxy"}, {"database"}, {"webui"}, {"openstack"},
                 {"ha_config"}, {"config"}, {"control"},
                 {"global_controller"}, {"collector"}, {"compute"},
                 {"tsn", "toragent", "storage"}, {"provision_complete"} >>

Stages == {"provision_start", "common", "keepalived", "haproxy", "database",
           "webui", "openstack", "ha_config", "config", "control",
           "global_controller", "collector", "compute", "tsn", "toragent",
           "storage", "provision_complete"}

Rank == [s \in Stages |->
           CHOOSE i \in DOMAIN StageChain : s \in StageChain[i]]

(* Mutant: no arrow from the other stages to provision_complete.           *)
StageBeforeUnlinked(s, t) == Rank[s] < Rank[t] /\ t # "provision_complete"

(* Mutant: one more arrow, against the order of the chain.                 *)
StageBeforeLooped(s, t) ==
  Rank[s] < Rank[t] \/ (s = "collector" /\ t = "control")

StageBefore(s, t) == Rank[s] < Rank[t]

-----------------------------------------------------------------------------
(* Which profile does what.                                                *)

VipHost(c) == c.roles \cap {"config", "openstack"} # {}

StorageHost(c) == c.roles \cap {"storage-master", "storage-compute"} # {}

(* $is_there_roles_to_delete, which every role profile also tests, is      *)
(* always false: params.pp sets $num_roles_to_delete and then tests the    *)
(* undefined $num_role_to_delete.                                          *)
RolesToDelete(c) == FALSE

RoleProfile(s, c) == s \in c.enabled /\ s \in c.roles /\ ~RolesToDelete(c)

(* profile::database has no branch that installs.                          *)
Installs(s, c) ==
  CASE s = "common"                    -> TRUE
    [] s = "database"                  -> FALSE
    [] s \in {"provision_start", "provision_complete"} -> s \in c.enabled
    [] s \in {"keepalived", "haproxy"} -> s \in c.enabled /\ VipHost(c)
    [] s = "ha_config"                 -> s \in c.enabled /\ "openstack" \in c.roles
    [] s \in {"tsn", "toragent"}       -> s \in c.enabled /\ s \in c.roles
    [] s = "storage"                   -> s \in c.enabled /\ StorageHost(c)
    [] OTHER                           -> RoleProfile(s, c)

(* Mutant: a role is removed only where its flag is still set.             *)
RemovesEnabled(s, c) ==
  /\ ~Installs(s, c)
  /\ s \in FactRoles \cap c.enabled /\ s \notin c.roles /\ s \in c.present

RoleLeft(s, c) ==
  /\ s \in FactRoles /\ s \notin c.roles /\ s \in c.present
  /\ AnsibleProvision => s = "openstack"

VipLeft(c) == \E r \in {"config", "openstack"} : r \notin c.roles /\ r \in c.present

Removes(s, c) ==
  /\ ~Installs(s, c)
  /\ \/ RoleLeft(s, c)
     \/ s \in {"keepalived", "haproxy"} /\ VipLeft(c)

-----------------------------------------------------------------------------
(* The classes: the resources that matter here, in the order of their      *)
(* arrows.                                                                 *)

control == << "started", "install", "config", "service", "completed" >>

(* Mutant: config provisions before its API server is started.             *)
configProvisionsEarly ==
  << "started", "install", "config", "provision", "service", "completed" >>

config == << "started", "install", "config", "service", "provision", "completed" >>

compute == << "started", "install", "config", "register", "setup", "reboot", "service",
              "completed" >>

(* In an upgrade compute declares no reboot, and restarts vrouter itself.  *)
computeUpgrade ==
  << "started", "install", "config", "register", "setup", "service", "upgrade_vrouter",
     "completed" >>

tsn == << "started", "completed" >>

toragent == << "started", "top_of_rack", "restart_vrouter", "completed" >>

provision_complete ==
  << "post_provision", "post_openstack", "completed", "do_reboot_server" >>

(* Of common, contrail_upgrade and the rest.                               *)
common == << "contrail_upgrade", "common" >>

uninstall_config ==
  << "remove_started", "deregister", "stop", "purge", "autoremove", "clean",
     "remove_completed" >>

uninstall_database ==
  << "remove_started", "deregister", "stop", "purge", "autoremove", "clean",
     "remove_completed" >>

uninstall_control ==
  << "remove_started", "deregister", "purge", "autoremove", "clean", "remove_completed" >>

uninstall_collector ==
  << "remove_started", "deregister", "purge", "autoremove", "clean", "stop",
     "remove_completed" >>

uninstall_webui ==
  << "remove_started", "purge", "autoremove", "clean", "stop", "remove_completed" >>

uninstall_openstack ==
  << "remove_started", "delete_services", "stop", "purge", "autoremove",
     "remove_completed" >>

uninstall_compute ==
  << "remove_started", "deregister", "stop", "purge", "autoremove", "clean",
     "remove_completed", "clear", "reboot_removed" >>

(* Mutant: the configuration file stays.                                   *)
uninstall_haproxyKeepsConf == << "remove_started", "stop", "remove_completed" >>

uninstall_haproxy == << "remove_started", "stop", "clean", "remove_completed" >>

InstallChain(s, c) ==
  CASE s = "provision_start"                   -> << "started" >>
    [] s = "provision_complete"                -> provision_complete
    [] s = "tsn"                               -> tsn
    [] s = "toragent"                          -> toragent
    [] s = "common"                            -> common
    [] s \in {"ha_config", "storage"}          -> << s >>
    [] s = "config"                            -> config
    [] s = "compute" -> IF c.upgrade = "needed" THEN computeUpgrade ELSE compute
    [] OTHER                                   -> control

RemoveChain(s) ==
  CASE s = "config"                    -> uninstall_config
    [] s = "database"                  -> uninstall_database
    [] s = "control"                   -> uninstall_control
    [] s = "collector"                 -> uninstall_collector
    [] s = "openstack"                 -> uninstall_openstack
    [] s = "compute"                   -> uninstall_compute
    [] s \in {"keepalived", "haproxy"} -> uninstall_haproxy
    [] OTHER                           -> uninstall_webui

Chain(s, c) ==
  IF Installs(s, c) THEN InstallChain(s, c)
  ELSE IF Removes(s, c) THEN RemoveChain(s) ELSE << >>

-----------------------------------------------------------------------------
(* The resources of a catalog are the pairs <<stage, index in its chain>>. *)

Steps(c) == UNION { {s} \X DOMAIN Chain(s, c) : s \in Stages }

Op(st, c) == Chain(st[1], c)[st[2]]

Precedes(a, b) ==
  \/ a[1] = b[1] /\ a[2] < b[2]
  \/ StageBefore(a[1], b[1])

(* Mutant: removals post what installations post.                          *)
SentAlike(s, op) ==
  IF op \in {"started", "remove_started"} THEN << "started", s >>
  ELSE << "completed", s >>

(* The state a report_status resource posts to the server manager.  Two    *)
(* removals post the state of the installation when they complete.         *)
Sent(s, op) ==
  CASE op = "started"        -> << "started", s >>
    [] op = "completed"      -> << "completed", s >>
    [] op = "remove_started" -> << "uninstall_started", s >>
    [] OTHER -> IF s \in {"config", "database"} THEN << "completed", s >>
                ELSE << "uninstall_completed", s >>

(* Catalogs Puppet rejects before it applies any resource.                *)

(* On Ubuntu, uninstall_config and uninstall_webui have dependency cycles: *)
(* the override file requires the package and comes before its removal.    *)
UninstallCycle(c) == OnUbuntu /\ \E s \in {"config", "webui"} : Removes(s, c)

(* haproxy/install.pp and, with LBaaS, compute declare Package[haproxy].   *)
HaproxyTwice(c) ==
  EnableLbaas /\ Installs("haproxy", c) /\ (Installs("compute", c) \/ Removes("compute", c))

(* uninstall_database and config/database.pp declare the same file.        *)
DatabaseFileTwice(c) == Removes("database", c) /\ Installs("config", c)

(* compute/install.pp notifies Service[supervisor-vrouter], which toragent *)
(* declares in its place on a host with that role.                         *)
NoVrouterService(c) ==
  Installs("compute", c) /\ "toragent" \in c.roles /\ ~Installs("toragent", c)

(* On Centos compute/config.pp orders Reboot[compute] after set-nova-      *)
(* password also in an upgrade, which does not declare it.                 *)
NoRebootResource(c) == ~OnUbuntu /\ Installs("compute", c) /\ c.upgrade = "needed"

Refused(c) ==
  \/ UninstallCycle(c) \/ HaproxyTwice(c) \/ DatabaseFileTwice(c)
  \/ NoVrouterService(c) \/ NoRebootResource(c)

=============================================================================
