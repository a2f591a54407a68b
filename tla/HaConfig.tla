------------------------------ MODULE HaConfig ------------------------------
(***************************************************************************)
(* The class contrail::ha_config on the OpenStack nodes: passwordless ssh, *)
(* the Galera cluster, the shared image directory, the grants of the       *)
(* cluster monitor and the keystone certificates of the first node.  The   *)
(* agents run concurrently, again and again; what fails skips what depends *)
(* on it and nothing else, and most commands have no guard: the next run   *)
(* does them again.                                                        *)
(*                                                                         *)
(* setup-vnc-galera is GaleraCluster, which GaleraSetup implements: its    *)
(* restart of mysqld, its outcome and its marker are three steps here.     *)
(* Resources of a run are applied in manifest order (Puppet 4.2).          *)
(***************************************************************************)
EXTENDS GaleraCluster, Sequences

CONSTANTS Faulty,    \* nodes whose agent is killed, that reboot or are reinstalled
          MaxFaults  \* bound: number of faults

ASSUME HaAssumption ==
  /\ 1 \in Hosts /\ Hosts \subseteq Nat \ {0}
  /\ Faulty \subseteq Hosts \ {1}
  /\ MaxFaults \in Nat

VARIABLES
  pc,         \* resource a node is at: 0 before the openstack stage
  failed,     \* resources of its run that failed or were skipped
  authorized, \* << n, m >>: m's authorized_keys has n's key
  seen,       \* nodes with check_galera_on_master
  shared,     \* nodes whose image directory is the shared one
  granted,    \* grants to cmon in a node's database
  certs,      \* whose keystone certificates a node has, 0 if none
  faults      \* history: faults so far

haVars == << members, recorded, created, failing, pc, failed, authorized, seen,
             shared, granted, certs, faults >>

-----------------------------------------------------------------------------
(* The class.                                                              *)

(* Mutant: the second half of the class comes first.                       *)
PostBeforePre ==
  << "nfs", "cmon", "transfer", "post_completed",
     "ssh", "check_os_master", "galera_stop", "galera_start", "galera_mark",
     "pre_completed" >>

(* exec_check_galera and exec_check_wsrep, the cluster's check by the      *)
(* first node, are in no catalog: their condition compares an Integer,     *)
(* $openstack_index, with the String '1', which Puppet 4.2 finds unequal.  *)
Resources ==
  << "ssh", "check_os_master", "galera_stop", "galera_start", "galera_mark",
     "pre_completed", "nfs", "cmon", "transfer", "post_completed" >>

Steps == {"ssh", "check_os_master", "galera_stop", "galera_start", "galera_mark",
          "pre_completed", "nfs", "cmon", "transfer", "post_completed"}

Over == Len(Resources) + 1

(* The arrows.  None leads from the first half to the second.              *)
Requires(s) ==
  CASE s = "check_os_master" -> {"ssh"}
    [] s = "galera_stop"     -> {"check_os_master"}
    [] s = "galera_start"    -> {"galera_stop"}
    [] s = "galera_mark"     -> {"galera_start"}
    [] s = "pre_completed"   -> {"galera_mark"}
    [] s = "transfer"        -> {"cmon"}
    [] s = "post_completed"  -> {"nfs", "transfer"}
    [] OTHER                 -> {}

HaTypeOK ==
  /\ members \subseteq Hosts /\ recorded \subseteq Hosts /\ failing \subseteq Hosts
  /\ created \in 0 .. 1
  /\ pc \in [Hosts -> 0 .. Over]
  /\ failed \in [Hosts -> SUBSET Steps]
  /\ authorized \subseteq Hosts \X Hosts
  /\ seen \subseteq Hosts /\ shared \subseteq Hosts
  /\ granted \in [Hosts -> SUBSET {"nodes", "vip"}]
  /\ certs \in [Hosts -> Hosts \cup {0}]
  /\ faults \in 0 .. MaxFaults

HaInit ==
  /\ ClusterInit
  /\ pc = [n \in Hosts |-> 0]
  /\ failed = [n \in Hosts |-> {}]
  /\ authorized = {} /\ seen = {} /\ shared = {}
  /\ granted = [n \in Hosts |-> {}]
  /\ certs = [n \in Hosts |-> 0]
  /\ faults = 0

-----------------------------------------------------------------------------
(* Applying a resource.                                                    *)

At(n, s) == pc[n] \in 1 .. Len(Resources) /\ Resources[pc[n]] = s

Passes(n) == pc' = [pc EXCEPT ![n] = @ + 1] /\ UNCHANGED failed

Fails(n, s) ==
  /\ pc' = [pc EXCEPT ![n] = @ + 1]
  /\ failed' = [failed EXCEPT ![n] = @ \cup {s}]

Applies(n, s) ==
  /\ At(n, s)
  /\ Requires(s) \cap failed[n] = {}
  /\ UNCHANGED faults

(* What depends on a failed resource is skipped.                           *)
NotApplied(n) ==
  \E s \in Steps :
    /\ At(n, s)
    /\ Requires(s) \cap failed[n] # {}
    /\ Fails(n, s)
    /\ UNCHANGED << clusterVars, authorized, seen, shared, granted, certs, faults >>

(* A run; before the first the openstack stage has installed keystone.     *)
StartRun(n) ==
  /\ pc[n] \in {0, Over}
  /\ pc' = [pc EXCEPT ![n] = 1]
  /\ failed' = [failed EXCEPT ![n] = {}]
  /\ certs' = [certs EXCEPT ![n] = IF @ = 0 THEN n ELSE @]
  /\ UNCHANGED << clusterVars, authorized, seen, shared, granted, faults >>

(* The key is appended on every host, which nobody waits for: the check    *)
(* that follows may come too early where the key is new.                   *)
PasswordlessSsh(n) ==
  /\ Applies(n, "ssh")
  /\ authorized' = authorized \cup ({n} \X Hosts)
  /\ \/ Passes(n)
     \/ authorized' # authorized /\ Fails(n, "ssh")
  /\ UNCHANGED << clusterVars, seen, shared, granted, certs >>

(* Mutant: the first node is not asked.                                    *)
CheckOsMasterSkipped(n) ==
  /\ Applies(n, "check_os_master")
  /\ Passes(n)
  /\ UNCHANGED << clusterVars, authorized, seen, shared, granted, certs >>

CheckOsMaster(n) ==
  /\ Applies(n, "check_os_master")
  /\ \/ n = 1 /\ Passes(n) /\ UNCHANGED seen
     \/ /\ n # 1
        /\ n \in seen \/ (<< n, 1 >> \in authorized /\ 1 \in recorded)
        /\ seen' = seen \cup {n}
        /\ Passes(n)
     \/ /\ n # 1 /\ n \notin seen
        /\ << n, 1 >> \notin authorized \/ 1 \notin recorded
        /\ Fails(n, "check_os_master")
        /\ UNCHANGED seen
  /\ UNCHANGED << clusterVars, authorized, shared, granted, certs >>

GaleraStop(n) ==
  /\ Applies(n, "galera_stop")
  /\ Leave(n) /\ Passes(n)
  /\ UNCHANGED << authorized, seen, shared, granted, certs >>

(* A node that joins takes over the database of a member.                  *)
JoinsDatabase(n) ==
  /\ Join(n)
  /\ \E m \in members \ {n} : granted' = [granted EXCEPT ![n] = granted[m]]

GaleraStart(n) ==
  /\ Applies(n, "galera_start")
  /\ \/ n = 1 /\ Create /\ Passes(n) /\ UNCHANGED granted
     \/ JoinsDatabase(n) /\ Passes(n)
     \/ /\ ~(n = 1 /\ created = 0)
        /\ members \ {n} = {} \/ (n # 1 /\ 1 \notin members)
        /\ Fails(n, "galera_start")
        /\ UNCHANGED << clusterVars, granted >>
  /\ UNCHANGED << authorized, seen, shared, certs >>

GaleraMark(n) ==
  /\ Applies(n, "galera_mark")
  /\ recorded' = recorded \cup {n}
  /\ Passes(n)
  /\ UNCHANGED << members, created, failing, authorized, seen, shared, granted, certs >>

(* contrail::lib::report_status.                                           *)
Report(n) ==
  /\ Applies(n, "pre_completed") \/ Applies(n, "post_completed")
  /\ Passes(n)
  /\ UNCHANGED << clusterVars, authorized, seen, shared, granted, certs >>

-----------------------------------------------------------------------------
(* The second half.                                                        *)

(* Mutant: the first node mounts the directory as well.                    *)
ShareImagesMountAll(n) ==
  /\ Applies(n, "nfs")
  /\ IF n \in shared \/ 1 \in shared
     THEN shared' = shared \cup {n} /\ Passes(n)
     ELSE Fails(n, "nfs") /\ UNCHANGED shared
  /\ UNCHANGED << clusterVars, authorized, seen, granted, certs >>

(* The first node exports the image directory, the others mount it.        *)
ShareImages(n) ==
  /\ Applies(n, "nfs")
  /\ IF n = 1 \/ n \in shared \/ 1 \in shared
     THEN shared' = shared \cup {n} /\ Passes(n)
     ELSE Fails(n, "nfs") /\ UNCHANGED shared
  /\ UNCHANGED << clusterVars, authorized, seen, granted, certs >>

Rights(n) == {"nodes"} \cup IF n = 1 THEN {"vip"} ELSE {}

(* Mutant: the grants for the virtual address stay with the node's own     *)
(* database.                                                               *)
SetupCmonSchemaLocal(n) ==
  /\ Applies(n, "cmon")
  /\ granted' = [granted EXCEPT ![n] = @ \cup Rights(n)]
  /\ Passes(n)
  /\ UNCHANGED << clusterVars, authorized, seen, shared, certs >>

(* No command's status is looked at: a node that is not a member grants to *)
(* its own database or to none.                                            *)
SetupCmonSchema(n) ==
  /\ Applies(n, "cmon")
  /\ LET Writes(S) == [m \in Hosts |-> IF m \in S THEN granted[m] \cup Rights(n)
                                       ELSE granted[m]]
     IN  IF n \in members THEN granted' = Writes(members)
         ELSE granted' \in {granted, Writes({n})}
  /\ Passes(n)
  /\ UNCHANGED << clusterVars, authorized, seen, shared, certs >>

(* Mutant: the files are not copied where there are some already.          *)
TransferKeysOnce(n) ==
  /\ Applies(n, "transfer")
  /\ IF << n, 1 >> \in authorized /\ certs[1] # 0 /\ certs[n] = 0
     THEN certs' = [certs EXCEPT ![n] = certs[1]]
     ELSE UNCHANGED certs
  /\ Passes(n)
  /\ UNCHANGED << clusterVars, authorized, seen, shared, granted >>

(* An ls that fails, for want of the directory or of an authorized key, is *)
(* a success.                                                              *)
TransferKeys(n) ==
  /\ Applies(n, "transfer")
  /\ IF << n, 1 >> \in authorized /\ certs[1] # 0
     THEN certs' = [certs EXCEPT ![n] = certs[1]]
     ELSE UNCHANGED certs
  /\ Passes(n)
  /\ UNCHANGED << clusterVars, authorized, seen, shared, granted >>

Run(n) ==
  \/ StartRun(n) \/ NotApplied(n) \/ PasswordlessSsh(n) \/ CheckOsMaster(n)
  \/ GaleraStop(n) \/ GaleraStart(n) \/ GaleraMark(n) \/ Report(n)
  \/ ShareImages(n) \/ SetupCmonSchema(n) \/ TransferKeys(n)

-----------------------------------------------------------------------------
(* Faults.                                                                 *)

Fault == faults < MaxFaults /\ faults' = faults + 1

(* A remote command fails: the ls of transfer_keys.py with success.        *)
ConnectionFails(n) ==
  /\ Fault
  /\ \E s \in {"ssh", "check_os_master", "nfs", "transfer"} :
       /\ At(n, s) /\ Requires(s) \cap failed[n] = {}
       /\ Fails(n, s) \/ (s = "transfer" /\ Passes(n))
  /\ UNCHANGED << clusterVars, authorized, seen, shared, granted, certs >>

(* The agent is killed or its host reboots.                                *)
AgentStops(n) ==
  /\ Fault /\ n \in Faulty
  /\ pc[n] # 0
  /\ pc' = [pc EXCEPT ![n] = Over]
  /\ failed' = [failed EXCEPT ![n] = Steps]
  /\ FaultAt(n) /\ UNCHANGED recorded
  /\ IF n \in members' \ members
     THEN \E m \in members : granted' = [granted EXCEPT ![n] = granted[m]]
     ELSE UNCHANGED granted
  /\ UNCHANGED << authorized, seen, shared, certs >>

Reinstalled(n) ==
  /\ Fault /\ n \in Faulty
  /\ pc' = [pc EXCEPT ![n] = 0]
  /\ failed' = [failed EXCEPT ![n] = {}]
  /\ members' = members \ {n} /\ recorded' = recorded \ {n}
  /\ failing' = failing \cup {n}
  /\ authorized' = {p \in authorized : n \notin {p[1], p[2]}}
  /\ seen' = seen \ {n} /\ shared' = shared \ {n}
  /\ granted' = [granted EXCEPT ![n] = {}]
  /\ certs' = [certs EXCEPT ![n] = 0]
  /\ UNCHANGED created

HaNext ==
  \E n \in Hosts : Run(n) \/ ConnectionFails(n) \/ AgentStops(n) \/ Reinstalled(n)

HaSpec == HaInit /\ [][HaNext]_haVars

(* The agent of every node runs again and again.                           *)
FairHaSpec == HaSpec /\ \A n \in Hosts : WF_haVars(Run(n))

-----------------------------------------------------------------------------
(* Properties.                                                             *)

(* A run without an error means what its reports say, until there is a     *)
(* fault: the node is a recorded member of the cluster, has the shared     *)
(* images, the first node's certificates and its own grants.  Nothing but  *)
(* the order of the manifest puts ssh before the transfer of the keys, and *)
(* the cluster before the grants and before the transfer.                  *)
CleanRunMeansConfigured ==
  \A n \in Hosts :
    faults = 0 /\ pc[n] = Over /\ failed[n] = {} =>
      /\ n \in members /\ n \in recorded /\ n \in shared
      /\ Rights(n) \subseteq granted[n]
      /\ certs[n] = certs[1] /\ certs[n] # 0

(* The arrows of the first half keep what GaleraCluster promises: a node   *)
(* is recorded as a member, and only after the first.                      *)
KeepsClusterPromise == ClusterSpec

(* Though transfer_keys.py takes a failed ls for a success, every node has *)
(* the first node's certificates in the end, for it runs every time.       *)
KeysShared == <>[](\A n \in Hosts : certs[n] = certs[1] /\ certs[1] # 0)

(* Though setup-cmon-schema.py ignores every error and writes to a         *)
(* database that joining the cluster replaces, every member ends up with   *)
(* all grants.                                                             *)
GrantsReachCluster == <>[](\A n \in members : granted[n] = {"nodes", "vip"})

(* Every node reports post_exec_vnc_galera_completed again and again,      *)
(* whatever became of the database cluster.                                *)
AllComplete ==
  \A n \in Hosts : []<>(pc[n] = Over /\ "post_completed" \notin failed[n])

=============================================================================
