# Specifications of contrail-puppet

TLA+ models of the behaviour of the `contrail` Puppet module
(`src/contrail/environment/modules/contrail`, `M` below) on a cluster: what runs
of the Puppet agent do to a host while its roles and parameters change and
steps fail, how the OpenStack nodes form a Galera cluster, and who ends up
registered in the API server. TLC checks the models on small instances; TLAPS
proves the main safety properties for all values of the constants.

Run `tlc -config ContrailRun_host.cfg MCContrailRun.tla` (and so on, see *Runs*)
and `tlapm ContrailRunProofs.tla`.

## The system

| Part | Code | State it keeps | Operations |
| --- | --- | --- | --- |
| catalog | `manifests/contrail_all.pp`, `manifests/profile/*.pp` | none; a function of roles, flags, parameters and facts | stages, install or remove a role |
| agent run on a host | `manifests/<role>.pp`, `manifests/<role>/*.pp`, `lib/report_status.pp`, `lib/contrail_upgrade.pp`, `do_reboot_server.pp` | packages, configuration files, processes, marker lines in `/etc/contrail/*.out`, pending notifications | install, configure, serve, report, register, reboot, upgrade |
| removal of a role | `manifests/uninstall_*.pp`, `clear_compute.pp` | the same | deregister, stop, purge, clean, report |
| Galera creation | `ha_config.pp`, `lib/check_os_master.pp`, `files/galera_setup_gcomm_mod.py` | wsrep configuration, mysqld, token, markers on every OpenStack node | check the master, set up, bootstrap, join |
| registration | `provision_contrail.pp`, `exec_provision_control.pp`, `provision_role_*.pp`, `compute/add_vnc_config.pp`, `delete_vnc_*.pp` and their scripts | API server database, markers | add, delete |
| rest of `ha_config` | `ha_config.pp`, `files/setup_passwordless_ssh.py`, `setup-cmon-schema.py`, `transfer_keys.py` | authorized keys, NFS mounts, grants to cmon, keystone certificates | two chains per node, run again and again |
| RabbitMQ cluster | `rabbitmq.pp`, `verify_rabbitmq.pp`, `files/form_rmq_cluster.sh` | mnesia directory, cluster membership, marker | form the cluster |
| Cassandra, zookeeper | `config_cassandra.pp`, `files/upgrade_cassandra.sh`, `config_zk_files_setup.pp` | data format, package version | staged upgrade |
| keepalived, haproxy | `keepalived/keepalived.pp`, `haproxy/config.pp` | VRRP state and priority | generate |
| package sources | `lib/puppet/provider/contrail_repo/edit_src_list.rb` | `sources.list` | exists?, create, destroy |
| DPDK binding | `lib/facter/dpdk_nic_bind.py` | the driver of every network device | bind, unbind |
| interfaces, kernel | `compute/config.pp`, `lib/contrail_setup_interface.pp`, `lib/upgrade_kernel.pp`, `files/update_dev_net_config_files.py` | network files, kernel | rename, write, reboot |
| storage | `storage.pp`, `lib/storage_*.pp`, `files/config-storage-*.sh` | ceph | add disks, configure |
| parameters, facts | `params.pp`, `lib/facter/*` | none | derive values |
| parser functions, ini types | `lib/puppet/**` | none of their own | convert, edit settings |

How they interact. The server manager writes roles and parameters to hiera. The
agent of a host takes facts (among them `contrail_roles`: which supervisors
run), the master compiles `contrail_all` from hiera and the facts, and the
agent applies the resources in dependency order. A resource that changes
something notifies services; a resource that fails takes everything after it
with it. `report_status` posts a state to the server manager. Scripts that are
not idempotent are guarded by a marker line that is appended to a file once
they succeeded. Hosts see each other only through what they leave behind: node
1's marker and token, a running mysqld, the API server.

What is hard. Facts and parameters are read once and used for a whole run. A
notification lives in the agent's memory and is lost with it, while the marker
that keeps an exec from running again is on disk. Markers do not depend on the
parameters of the command they guard. Runs of all hosts interleave with each
other and with the removal of roles. Nothing coordinates retries.

What makes the parts correct:

* catalog, agent run: a role is reported completed only when its package,
  files and process are those of the run; the host converges to the last
  roles and parameters; a reported state is one the host is in.
* Galera: one cluster; a node that is recorded as done is a member; every node
  becomes one.
* registration: a marker stands for registrations that were all made; listed
  hosts end up registered, hosts that left are removed.
* the rest of `ha_config`: a run without an error leaves its node as its
  reports say, and whatever was lost on the way, every node ends up with the
  keys and every member with the grants.
* DPDK binding: devices that were not asked for, or that carry the host's
  traffic, keep their driver; none is left without one unnoticed.
* RabbitMQ, Cassandra: a marker or report means the step succeeded on every
  node; an interrupted upgrade can be resumed.
* keepalived: one master per virtual address in the end.
* package sources: `create` establishes `exists?`, `destroy` ends it.

`PROJECT.json` lists the hazards at their lines, with the properties that cover
them or the reason none does.

## Modules

`ContrailCatalog` is the compiler's part: which profile installs
(`Installs`) or removes (`Removes`) its role, the chain of resources either way
(`InstallChain`, `RemoveChain`: one operator per class, named after it; compute's
depends on whether the run is an upgrade), the
order of stages (`StageBefore`) and the catalogs Puppet refuses (`Refused`:
dependency cycles, doubly declared resources, references to undeclared ones,
such as the reboot of an upgraded compute node on Centos).
It has no variables. `RolesToDelete` is FALSE because the code tests a
misspelled variable (`params.pp:1010`).

`ContrailRun` is one host under the agent. `plan` (roles, flags, the release and
whether to upgrade) and `version` are hiera; `release` is the `contrail_version`
fact, so that a run knows whether an upgrade is needed (`Upgrade`); `pkgs`, `conf`, `up`, `loaded` the packages, the parameter revision in a unit's
files, the running services and the revision each process read when it
started; `marks` the marker lines; `snap`, `done`, `failed`, `due` the catalog
being applied, its resources and the notifications not yet delivered. One
action per kind of resource (`ReportStatus`, `Install`, `Configure`, `Serve`,
`CallApi`, `SetupCompute`, `Remove`, `ClearCompute`, `ClearOutFiles`,
`RebootResource`), any `Ready` resource may be next. `StepFails`, `AgentKilled`, `ServiceDies`,
`HostReboots` and `SetPlan` happen between any two.

`GaleraSetup` is `setup-vnc-galera` on every OpenStack node, one action per step
that reads or changes shared state, in the order of `main`: `CheckOsMaster`,
`InstallMysqlDb`, `MysqlToken`, `FixupConfigFiles`, `RunServices`,
`IsClustered`, `DecideFirst` or `WaitForFirst`, `BootstrapRestore`, `Mark`.
A restart of mysqld is a stop and a start, two steps.

`GaleraCluster` is what that script promises, in the terms of the class that
calls it: one cluster, created by the first node, joined while a member is
there, and `exec_vnc_galera` recorded on members, on the first node first;
nothing after a fault of the first node. `GaleraSetup` implements it
(`ImplementsCluster`): `members` are the members of the newest cluster,
`recorded` its markers, `failing` the nodes a fault has hit.

`HaConfig` EXTENDS `GaleraCluster` with the class around it, on every node:
`Resources` in the order of the manifest, `Requires` the arrows between them, one
action per resource (`PasswordlessSsh`, `CheckOsMaster`, `GaleraStop`,
`GaleraStart`, `GaleraMark`, `Report`, `ShareImages`, `SetupCmonSchema`,
`TransferKeys`), `NotApplied` for those that are skipped after a failure.
`check_galera.py` and `check-wsrep-status.py` have no action: their condition
(`ha_config.pp:250`) compares an Integer with the string `'1'`, false in Puppet
4.2, so they are in no catalog and a run without an error says nothing of them. `authorized`, `shared`, `granted`
and `certs` are what the scripts leave on the hosts and in the database.
`ConnectionFails`, `AgentStops` and `Reinstalled` are the faults. Its steps on the
cluster are those of `GaleraCluster` (`Create`, `Join`, `Leave`, `FaultAt`), except
that nothing but the arrows keeps `GaleraMark` to what `Record` allows:
`KeepsClusterPromise` says they suffice.

`DpdkBind` is one host's network devices under `dpdk_nic_bind.py`, write by
write: `Invoke` (what it reads and is asked for), `UnbindOne`, `BindOne`, `Claim`
(new_id), `Attach` and `AttachFails` (bind), `CleanUp` (the end of `bind_all`). `known`
is what the script read and `driver` what is so. Any write may be refused and
the script killed anywhere.

`ProvisionContrail` is the cluster's registrations: config nodes that run the
chain of provisioning scripts, each from the lists its catalog was compiled
from (`want`), and the agents of the hosts, which register a vrouter, and stop
and deregister a role they lost.

The modules named `MC...` give TLC its instances, those named `...Proofs` hold
the theorems. Operators whose comment starts with *Mutant* are slips of the
definition that follows them, used to see that a property notices them.

`HaConfig` is composed with the Galera script through `GaleraCluster`; the other
components share no variable: `ContrailRun` abstracts the API server to whether it answers, and
`ProvisionContrail` abstracts a role's stage to one action (compute's, whose
markers matter, to its steps).

### Abstractions

* Configuration content is one revision number per unit; a change of any
  parameter is a new revision. Logging and notify resources are left out, as
  are stages `contrail` and `base`, which evaluate parameters and sysctl.
* Resources inside `profile::common`, `ha_config`, `storage`, `post_provision`
  and the clean-up in `uninstall_openstack` are one task each that may fail.
* Upgrades: what an upgrade does to markers, reboots and vrouter is modelled in
  `ContrailRun` only. `clear_out_files` also removes the markers of
  `ProvisionContrail`, `GaleraSetup` and `HaConfig`; these modules speak of clusters
  between upgrades, and what a cluster does whose markers are reset while it
  runs is not explored. The removal
  and return of packages and the staged Cassandra upgrade are part of the
  installation. contrail-lib, whose version decides whether an upgrade is
  needed, comes with the packages, in the release of the repository; rmmod of a
  module in use may fail.
* `kernel_upgrade` is false and `config_manage_db` true, as they are unless hiera
  says otherwise.
* `do_reboot_server` reboots a host with the line `flag-reboot-server`, which nothing
  in the module writes: compute-server-setup.sh (external) may. Its `unless`
  greps for `$reboot_flag` in single quotes, a shell variable that is empty, so
  it never holds.
* `toragent` starts supervisor-vrouter, whose package only `compute` installs; without
  it that resource fails (`Cannot`).
* A service restarted by a notification reads the files as they are then; a
  package may or may not start its service when it is installed.
* Puppet, mysqld, the API server and the scripts of contrail-utils are
  external: what the code relies on is modelled, no more. An add of what is
  there succeeds. Whether a delete of what is not there does is left open,
  except for `provision_vrouter.py`, which is in the repository and raises.
* Galera: a stopped member leaves the cluster in good order; state transfer and
  loss of quorum are not modelled. The three tries of `exec_vnc_galera` and the
  next run of the agent are the same loop. All nodes are given the same token.
* HaConfig: a run applies resources in the order of the manifest, as the Puppet
  of the repository's `Gemfile.lock` (4.2) does where no arrow says otherwise;
  hosts have no external NFS server and storage is off. A joining node takes
  over the grants of a member. haproxy's restart, sysctl, xinetd and
  `fix-cmon-params-and-add-ssh-keys.py`, which appends to a parameter file on every
  run and never fails, are left out. Only nodes other than the first are
  killed, rebooted or reinstalled: after that of the first, `GaleraCluster`
  promises nothing.
* DpdkBind: a device has one kernel module or none; which of the interfaces
  have a route is chosen when the script reads it. With -e and -b eth devices
  and links are read again after each bind. -d and -e force, -b dpdk and -b eth
  do not. A `--status` call changes nothing.
* ProvisionContrail: a script registers its entries in any order; the steps of
  `provision_contrail` that register no node (metadata, encapsulation, neutron,
  alarms) are left out. No profile installs a database node, so database nodes
  are there from the start.

## Runs

Bounds: `MaxVersion` / `MaxChanges` limit changes of hiera, `MaxFaults` all
failures, kills, deaths and reboots together, `MaxClusters` the clusters
created. Every hazard needs at most one change and one fault in the right
place, or two faults (Galera, vrouter markers).

| Run | Instance | Shows |
| --- | --- | --- |
| `run_host` (`ContrailRun_host.cfg`) | Ubuntu, an old database service, six plans from controller over VIP, compute, a later release of it and ToR agents to none, 3 revisions, 1 fault | `NoStaleProcess`, `CompletedMeansInstalled`, `UninstalledMeansGone`, `ProvisionedMeansServing`, `UnbootedMeansLost`, `SkippedForCause` |
| `run_live` (`_live.cfg`) | Centos, the API server on the host, three plans, 2 revisions, 1 fault | `Converges`, `Retires` |
| `galera_safety` (`GaleraSetup_safety.cfg`) | 3 nodes, 2 faults anywhere | `NoSplitBrain`, `CreatedOnce`, `MarkedMeansMember`, and that it refines `GaleraCluster` (`ImplementsCluster`) |
| `galera_live` (`_live.cfg`) | 3 nodes, node 1's agent rests after its success, 1 fault elsewhere | `AllClustered` |
| `provision_lists` (`ProvisionContrail_lists.cfg`) | 2 config nodes behind a virtual address, 2 control nodes and a BGP peer, 2 changes, 1 fault | `MarkedMeansRegistered` |
| `provision_hosts` (`_hosts.cfg`) | 1 config node, a compute and a database node, 3 changes, 2 faults | `CompletedMeansRegistered`, `ListedAreRegistered`, `UnlistedAreRemoved`, `VroutersAreRegistered` |
| `ha_fair` (`HaConfig_fair.cfg`) | 2 OpenStack nodes, 2 faults | `CleanRunMeansConfigured`, `KeepsClusterPromise`, `KeysShared`, `GrantsReachCluster`, `AllComplete` |
| `dpdk_safety` (`DpdkBind_safety.cfg`) | 2 ports of one model, 1 device of another without a kernel module, any DPDK modules loaded, any assignment of drivers to start from, command lines of up to 2 devices, invocations and faults without bound | `OthersUntouched`, `ActiveKeepsDriver`, `DoneAsAsked`, `LosesOnlyWhenRefused` |

One property each, said by a comment or message of the code and violated:

| Run | The code says | What happens |
| --- | --- | --- |
| `run_reboot` | `compute/config.pp:394` "Now reboot the system" | The reboot is notified by an exec that has marked itself done. Killed in between, the agent never reboots the host and the next run reports `compute_completed`. |
| `run_cycle` | `profile/collector.pp:7` "If true, the module is invoked" | A host that loses webui on Ubuntu gets a catalog with a dependency cycle, refused as a whole, every time: its other roles never come. |
| `galera_rerun` | `galera_setup_gcomm_mod.py:346` "Waiting for first galera node to create new cluster" | `exec_vnc_galera` is unguarded. Run again on node 1 before another node joined, it restarts the only member with the list of nodes that wait for it; nobody can start. |
| `provision_scaleout` | `provision_contrail.pp:3` "provisioning tasks ... such as provision control node" | The marker of `exec-provision-control` is not tied to the list: a control node listed later is never registered. |

Three nodes are enough for Galera: node 1, node 2 (which alone is asked whether
a cluster runs) and one that nobody asks; the proofs are for any number. Two
config nodes suffice for lists of different age at once. Three revisions let a
role leave and return, or change twice within one run.

Two nodes suffice in `HaConfig`, as a node other than the first meets only the
first one's marker, key, exports and certificates, and the database of some
member. Two devices on a command line are what it takes for one of them to
change what the script has read of the other.

Exceptions in the properties of `DpdkBind` are the script's. Its usage text (line
91) says that -e is to "Unbind a device back to a system ethernet driver", and
`Asked` takes it at its word. The code does something else: with vfio-pci
loaded, a device that is at its kernel driver already, or has none, moves to
vfio-pci, as line 349 looks for the first unused module that is not igb_uio.
`DoneAsAsked` names that disagreement as an exception (`TakenByVfio`); other devices of its model that vfio-pci then claims count as bound before,
since all are read again. A driver that does not take the device, or a refused
write, costs the device its driver: the rollback (lines 394 and 414, "restore
any previous driver") calls `bind_one` for a device whose driver name was
cleared, `unbind_one` cannot open a file of that name and exits; after a refused
new_id there is no rollback at all.

The four exceptions in the other properties are what the code really does: a lost
notification (`lost`); an upgrade (`upgraded` in `UnbootedMeansLost`), which removes
the markers (`lib/contrail_upgrade.pp:38`), so that compute-server-setup runs
again, and declares no reboot (`compute/config.pp:382`); a removal cut off between the deletion and
`clear_compute` (`cut`); and `database` in `CompletedMeansInstalled`, whose
removal ends with the report `database_completed` (`uninstall_database.pp:146`;
`uninstall_config` does the same, but on Ubuntu its catalog is refused and on
Centos its `apt-get` fails first, so the report is never sent).
`Retires` excepts roles that cannot be deregistered because the API server
went before them.

### Fairness

`FairSpec` is weak fairness of the agent (`ContrailRun`), of each node's script
(`GaleraSetup`), of each config node's and host's agent (`ProvisionContrail`), and
of each node's agent in `FairHaSpec` (`HaConfig`):
the Puppet agent is a daemon that starts a run periodically and applies what is
ready. Nothing is assumed of faults, of the server manager, or of which
resource or entry comes first. Faults and changes are bounded, so the
liveness properties say what happens after the last of them.
`galera_live` also sets `RerunFirst` to FALSE; `galera_rerun` shows why.

## Proofs

All theorems hold for all values of the constants that satisfy the module's
named assumption (`RunAssumption`, `FlagsAssumption`, `GaleraAssumption`,
`ProvisionAssumption`, `HaAssumption`, `DpdkAssumption`): typing, at least two
Galera nodes, no fault of the first node in `HaConfig`, and module names that are
not those of DPDK drivers.

* `ContrailRunProofs`: `TypeCorrect`, then `NoStaleProcessHolds`. The invariant
  alone is not inductive: a completed unit is fresh because its notification
  was delivered before. `IInv` adds that the applied resources are closed under
  precedence (`DownClosed`), that files stay as the run wrote them
  (`FilesCurrent`), and that a process on other files than those on disk still
  has its notification before it, or lost it in a kill (`StaleIsNotified`).
* `GaleraSetupProofs`: `TypeCorrect`, `CreatedOnceHolds`, `NoSplitBrainHolds`.
  `Undisturbed` ties node 1's place in the script to whether a cluster exists:
  it decides only before there is one, and holds the empty address only between
  the bootstrap and the sed after it. Steps of other nodes are handled by one
  lemma (`OtherNode`), node 1's one by one (`FirstScript`).
* `GaleraRefinementProofs`: `GaleraRefines`, the implementation of `GaleraCluster`.
  Besides `Undisturbed` it needs that no node is past `check_os_master` before node
  1 is recorded (`MasterFirst`) and that a script at its marker runs on a member
  (`MarksMembers`); each step is then mapped (`ScriptRefines`, `FaultRefines`).
  `MarkedMeansMemberHolds` adds `TokenFirst` and `MarkedReturn`: a recorded node never
  decides again, and where nobody is left to join nobody appears
  (`NobodyAppears`), as node 1 is recorded too.
* `HaConfigProofs`: `HaTypeCorrect`, `KeepsClusterPromiseHolds` and
  `CleanRunMeansConfiguredHolds`. `FirstSteady` says that what the first node has
  stays, `HandedOn` what a resource may rely on when the one before it has not
  failed, and `Passed` what a node without a failure has at each place of the
  manifest; `RunIsLocal` that the other agents take nothing of it away.
* `ProvisionContrailProofs`: `TypeCorrect`, `MarkedMeansRegisteredHolds`,
  `CompletedMeansRegisteredHolds`. `ScriptCovers` says what a running script has
  done or has left, `MarkersAgree` what the vrouter markers stand for at each
  step.
* `ContrailReportProofs`: what the states a host posts mean, over `IInv`.
  `UnbootedMeansLostHolds` from `RebootIsDue`: where the exec ran outside an
  upgrade, its notification waits for the reboot resource, which can neither be
  skipped nor fail, and no later upgrade or reset of the markers hides it.
  `CompletedMeansInstalledHolds` from `ReportInv`: this run's packages are there, a
  removal has reported itself before it purges, and no removal but database's
  posts a completion, as config's is refused (`UninstallCycle`) or fails before
  (`ConfigRemovalFails`). `UninstalledMeansGoneHolds` from `GoneInv`: only what is
  installed runs, what was purged or stopped stays so, and whatever comes back
  (`ComesBack`) was announced by its own installation.
  `ProvisionedMeansServingHolds` from `Served` and the place of the last stage
  (`LastStage`). `SkippedForCauseHolds` needs no invariant but `TypeOK`: `Precedes` is
  transitive and agrees with a weight in Nat, so the first resource skipped for
  no cause would still be ready.
* `DpdkBindProofs`: `TypeCorrect`, `ActiveKeepsDriverHolds`, `OthersUntouchedHolds` and
  `LosesOnlyWhenRefusedHolds`, each from an invariant of its own. `ActiveInv`:
  devices with an active link have their interface and are known with a driver,
  and without force work begins on other devices only; `ActiveKeepsDriver`
  follows step by step (`ActiveStays`).
  `OthersInv`: a device without a driver is known as such until the clean-up has
  freed it. `LossInv`: a device that lost its driver is about to get the new one;
  with -e, whether that one takes it does not depend on the driver it has by
  then (`FitsStays`, `EthFits`).
* `DpdkAskedProofs`: `DoneAsAskedHolds`. `AskedInv` follows the list of the command
  line: devices before the current one have their driver, those after it wait,
  and what a claim binds by its model is, or will be, where the command line puts it
  (`Target`). `FinishedIsAsked` compares that with what the usage text promises.
  That a list without duplicates names a device at one place only is a fact
  about cardinalities (`ListInjective`).

Only model-checked: the liveness properties (`Converges`, `Retires`, `AllClustered`,
`ListedAreRegistered`, `UnlistedAreRemoved`, `VroutersAreRegistered`, `KeysShared`,
`GrantsReachCluster`, `AllComplete`). They rest on weak fairness, hence on ENABLED,
which is out of the prover's reach. Every other property of the passing runs is
proved.

## Not modelled

* `form_rmq_cluster.sh`, `upgrade_cassandra.sh`, `config-zk-files-setup.sh`,
  `change_id.sh`, the storage scripts: shell over the files and commands of
  external programs, whose answers decide most of what happens. What they are
  exposed to is listed as hazards.
* `update_dev_net_config_files.py` and interface renaming: rewriting of the text of
  configuration files, done once under a marker.
* keepalived and haproxy: constants and a template; the election is external.
* The `contrail_repo` provider and the parser functions: text and values without
  concurrency.
* `enable_kernel_core.py`: one edit of the boot configuration.
* The ini_setting types (third-party inifile), the third-party OpenStack and
  MongoDB modules, templates, `site.pp`, example hieradata and test fixtures.

Next: a model of the RabbitMQ cluster (every node wipes its directory and looks
for the others, the marker follows a `;`), and of the staged Cassandra upgrade.
