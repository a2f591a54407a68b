---------------------------- MODULE GaleraSetup ----------------------------
(***************************************************************************)
(* The OpenStack nodes form a Galera cluster: on every node Puppet runs    *)
(* check_os_master and then setup-vnc-galera                               *)
(* (files/galera_setup_gcomm_mod.py), again on every run of the agent.     *)
(* Node 1, the first of galera_ip_list, creates the cluster, the others    *)
(* join it.  The nodes run concurrently; scripts are killed, mysqld is     *)
(* stopped, hosts reboot or are installed anew.                            *)
(*                                                                         *)
(* External: mysqld.  With wsrep_cluster_address "gcomm://" it starts a    *)
(* cluster of its own, with "gcomm://<list>" it joins a running member of  *)
(* the list or does not start, without wsrep configuration it runs alone.  *)
(***************************************************************************)
EXTENDS Naturals, FiniteSets

CONSTANTS N,           \* size of galera_ip_list (with one, the script raises)
          RerunFirst,  \* the agent of node 1 runs again after it succeeded
          Faulty,      \* nodes faults may hit
          MaxFaults,   \* bound: number of faults
          MaxClusters  \* bound: number of clusters created

ASSUME GaleraAssumption ==
  /\ N \in Nat \ {0, 1}
  /\ RerunFirst \in BOOLEAN
  /\ Faulty \subseteq 1 .. N
  /\ MaxFaults \in Nat
  /\ MaxClusters \in Nat \ {0}

Nodes == 1 .. N

VARIABLES
  pc,      \* the step of setup-vnc-galera a node is at
  conf,    \* wsrep_cluster_address: "none", "gcomm" (empty) or "list"
  mysqld,  \* "down", "alone" or "member"
  cluster, \* the cluster a member is of, 0 for others
  token,   \* nodes with /etc/contrail/mysql.token
  marked,  \* nodes with exec_vnc_galera in contrail_openstack_exec.out
  seen,    \* nodes with check_galera_on_master there
  created, \* history: clusters created
  hit,     \* history: nodes a fault has hit
  faults   \* history: faults so far

vars == << pc, conf, mysqld, cluster, token, marked, seen, created, hit, faults >>

Lines == {"idle", "check_os_master", "install_mysql_db", "install_start", "token",
          "fixup", "run_services", "restart_start", "is_clustered", "decide",
          "bootstrap_start", "bootstrap_restore", "join_start", "mark"}

TypeOK ==
  /\ pc \in [Nodes -> Lines]
  /\ conf \in [Nodes -> {"none", "gcomm", "list"}]
  /\ mysqld \in [Nodes -> {"down", "alone", "member"}]
  /\ cluster \in [Nodes -> 0 .. MaxClusters]
  /\ \A n \in Nodes : mysqld[n] = "member" <=> cluster[n] # 0
  /\ token \subseteq Nodes /\ marked \subseteq Nodes /\ seen \subseteq Nodes
  /\ hit \subseteq Nodes
  /\ created \in 0 .. MaxClusters
  /\ faults \in 0 .. MaxFaults

(* The openstack stage has installed and started mysql before ha_config.   *)
Init ==
  /\ pc = [n \in Nodes |-> "idle"]
  /\ conf = [n \in Nodes |-> "none"]
  /\ mysqld = [n \in Nodes |-> "alone"]
  /\ cluster = [n \in Nodes |-> 0]
  /\ token = {} /\ marked = {} /\ seen = {}
  /\ created = 0 /\ hit = {} /\ faults = 0

-----------------------------------------------------------------------------
(* mysqld.                                                                 *)

Member(n) == mysqld[n] = "member"   \* wsrep_local_state 4, own address listed

(* Mutant: a stopped mysqld is still taken for a node of its cluster.      *)
StopMysqlStays(n) ==
  /\ mysqld' = [mysqld EXCEPT ![n] = "down"]
  /\ UNCHANGED cluster

StopMysql(n) ==
  /\ mysqld' = [mysqld EXCEPT ![n] = "down"]
  /\ cluster' = [cluster EXCEPT ![n] = 0]

Joins(n, m) ==
  /\ m # n /\ Member(m)
  /\ mysqld' = [mysqld EXCEPT ![n] = "member"]
  /\ cluster' = [cluster EXCEPT ![n] = cluster[m]]
  /\ UNCHANGED created

StartMysql(n) ==
  \/ /\ conf[n] = "none"
     /\ mysqld' = [mysqld EXCEPT ![n] = "alone"]
     /\ cluster' = [cluster EXCEPT ![n] = 0]
     /\ UNCHANGED created
  \/ /\ conf[n] = "gcomm" /\ created < MaxClusters
     /\ mysqld' = [mysqld EXCEPT ![n] = "member"]
     /\ created' = created + 1
     /\ cluster' = [cluster EXCEPT ![n] = created + 1]
  \/ conf[n] = "list" /\ \E m \in Nodes : Joins(n, m)

MysqlCannotStart(n) ==
  conf[n] = "list" /\ \A m \in Nodes \ {n} : ~Member(m)

-----------------------------------------------------------------------------
(* The script, step by step.                                               *)

GoTo(n, l) == pc' = [pc EXCEPT ![n] = l]

(* A failed command ends the script; exec_vnc_galera tries again, at most  *)
(* three times, and then the next run of the agent does.                   *)
Fail(n) ==
  /\ GoTo(n, "idle")
  /\ UNCHANGED << conf, mysqld, cluster, token, marked, seen, created, hit, faults >>

StartRun(n) ==
  /\ pc[n] = "idle"
  /\ n = 1 /\ 1 \in marked => RerunFirst
  /\ GoTo(n, "check_os_master")
  /\ UNCHANGED << conf, mysqld, cluster, token, marked, seen, created, hit, faults >>

(* Mutant: nobody looks whether the first node is ready.                   *)
CheckOsMasterSkipped(n) ==
  /\ pc[n] = "check_os_master"
  /\ GoTo(n, "install_mysql_db")
  /\ UNCHANGED << conf, mysqld, cluster, token, marked, seen, created, hit, faults >>

CheckOsMaster(n) ==
  /\ pc[n] = "check_os_master"
  /\ \/ /\ n = 1 \/ n \in seen \/ 1 \in marked
        /\ seen' = IF n = 1 THEN seen ELSE seen \cup {n}
        /\ GoTo(n, "install_mysql_db")
        /\ UNCHANGED << conf, mysqld, cluster, token, marked, created, hit, faults >>
     \/ n # 1 /\ n \notin seen /\ 1 \notin marked /\ Fail(n)

(* Every "service mysql restart" is a stop and a start.                    *)
InstallMysqlDb(n) ==
  /\ pc[n] = "install_mysql_db"
  /\ StopMysql(n) /\ GoTo(n, "install_start")
  /\ UNCHANGED << conf, token, marked, seen, created, hit, faults >>

StartOrFail(n, from, to) ==
  /\ pc[n] = from
  /\ \/ /\ StartMysql(n) /\ GoTo(n, to)
        /\ UNCHANGED << conf, token, marked, seen, hit, faults >>
     \/ MysqlCannotStart(n) /\ Fail(n)

(* Node 1 creates the token, the others copy node 1's.                     *)
MysqlToken(n) ==
  /\ pc[n] = "token"
  /\ \/ /\ n = 1 \/ n \in token \/ 1 \in token
        /\ token' = token \cup {n}
        /\ GoTo(n, "fixup")
        /\ UNCHANGED << conf, mysqld, cluster, marked, seen, created, hit, faults >>
     \/ n # 1 /\ n \notin token /\ 1 \notin token /\ Fail(n)

(* The root password needs a running mysqld.  The configuration is written *)
(* and a node that is not of a cluster stopped, its state files removed.   *)
FixupConfigFiles(n) ==
  /\ pc[n] = "fixup"
  /\ \/ /\ mysqld[n] # "down"
        /\ conf' = [conf EXCEPT ![n] = "list"]
        /\ GoTo(n, "run_services")
        /\ IF Member(n) THEN UNCHANGED << mysqld, cluster >> ELSE StopMysql(n)
        /\ UNCHANGED << token, marked, seen, created, hit, faults >>
     \/ mysqld[n] = "down" /\ Fail(n)

(* Mutant: the state of the node's own mysqld is not looked at.            *)
RunServicesAnyway(n) ==
  /\ pc[n] = "run_services"
  /\ GoTo(n, "decide")
  /\ UNCHANGED << conf, mysqld, cluster, token, marked, seen, created, hit, faults >>

RunServices(n) ==
  /\ pc[n] = "run_services"
  /\ IF Member(n) THEN StopMysql(n) /\ GoTo(n, "restart_start")
     ELSE UNCHANGED << mysqld, cluster >> /\ GoTo(n, "decide")
  /\ UNCHANGED << conf, token, marked, seen, created, hit, faults >>

IsClustered(n) ==
  /\ pc[n] = "is_clustered"
  /\ GoTo(n, IF Member(n) THEN "mark" ELSE "decide")
  /\ UNCHANGED << conf, mysqld, cluster, token, marked, seen, created, hit, faults >>

(* is_cluster_running returns in the first round of its loop: it looks at  *)
(* the second node of galera_ip_list only.                                 *)
IsClusterRunning == Member(2)

DecideFirst ==
  /\ pc[1] = "decide"
  /\ \/ /\ IsClusterRunning
        /\ StopMysql(1) /\ GoTo(1, "join_start") /\ UNCHANGED conf
     \/ /\ ~IsClusterRunning
        /\ conf' = [conf EXCEPT ![1] = "gcomm"]
        /\ StopMysql(1) /\ GoTo(1, "bootstrap_start")
  /\ UNCHANGED << token, marked, seen, created, hit, faults >>

(* Mutant: the empty address stays in the configuration.                   *)
BootstrapRestoreNothing(n) ==
  /\ pc[n] = "bootstrap_restore"
  /\ GoTo(n, "mark")
  /\ UNCHANGED << conf, mysqld, cluster, token, marked, seen, created, hit, faults >>

BootstrapRestore(n) ==
  /\ pc[n] = "bootstrap_restore"
  /\ conf' = [conf EXCEPT ![n] = "list"]
  /\ GoTo(n, "mark")
  /\ UNCHANGED << mysqld, cluster, token, marked, seen, created, hit, faults >>

(* Mutant: after ten polls the script ends without an error.               *)
WaitForFirstGivesUp(n) ==
  /\ pc[n] = "decide" /\ n # 1
  /\ IF Member(1) THEN StopMysql(n) /\ GoTo(n, "join_start")
     ELSE GoTo(n, "mark") /\ UNCHANGED << mysqld, cluster >>
  /\ UNCHANGED << conf, token, marked, seen, created, hit, faults >>

(* The others poll node 1 ten times.                                       *)
WaitForFirst(n) ==
  /\ pc[n] = "decide" /\ n # 1
  /\ \/ /\ Member(1)
        /\ StopMysql(n) /\ GoTo(n, "join_start")
        /\ UNCHANGED << conf, token, marked, seen, created, hit, faults >>
     \/ ~Member(1) /\ Fail(n)

(* Mutant: the marker goes to another file than check_os_master reads.     *)
MarkElsewhere(n) ==
  /\ pc[n] = "mark"
  /\ GoTo(n, "idle")
  /\ UNCHANGED << conf, mysqld, cluster, token, marked, seen, created, hit, faults >>

Mark(n) ==
  /\ pc[n] = "mark"
  /\ marked' = marked \cup {n}
  /\ GoTo(n, "idle")
  /\ UNCHANGED << conf, mysqld, cluster, token, seen, created, hit, faults >>

Script(n) ==
  \/ StartRun(n) \/ CheckOsMaster(n) \/ InstallMysqlDb(n)
  \/ StartOrFail(n, "install_start", "token")
  \/ MysqlToken(n) \/ FixupConfigFiles(n) \/ RunServices(n)
  \/ StartOrFail(n, "restart_start", "is_clustered")
  \/ IsClustered(n)
  \/ n = 1 /\ DecideFirst
  \/ StartOrFail(n, "bootstrap_start", "bootstrap_restore")
  \/ BootstrapRestore(n) \/ WaitForFirst(n)
  \/ StartOrFail(n, "join_start", "mark")
  \/ Mark(n)

-----------------------------------------------------------------------------
(* Faults.                                                                 *)

Fault(n) ==
  /\ n \in Faulty /\ faults < MaxFaults
  /\ faults' = faults + 1 /\ hit' = hit \cup {n}

ScriptKilled(n) ==
  /\ Fault(n) /\ pc[n] # "idle"
  /\ GoTo(n, "idle")
  /\ UNCHANGED << conf, mysqld, cluster, token, marked, seen, created >>

(* Somebody stops mysqld: the node leaves its cluster in good order.       *)
MysqlStops(n) ==
  /\ Fault(n) /\ mysqld[n] # "down"
  /\ StopMysql(n)
  /\ UNCHANGED << pc, conf, token, marked, seen, created >>

(* mysql is started when the host boots.                                   *)
HostReboots(n) ==
  /\ Fault(n)
  /\ GoTo(n, "idle")
  /\ \/ StartMysql(n)
     \/ MysqlCannotStart(n) /\ StopMysql(n) /\ UNCHANGED created
  /\ UNCHANGED << conf, token, marked, seen >>

Reinstalled(n) ==
  /\ Fault(n)
  /\ GoTo(n, "idle")
  /\ conf' = [conf EXCEPT ![n] = "none"]
  /\ mysqld' = [mysqld EXCEPT ![n] = "alone"]
  /\ cluster' = [cluster EXCEPT ![n] = 0]
  /\ token' = token \ {n} /\ marked' = marked \ {n} /\ seen' = seen \ {n}
  /\ UNCHANGED created

Next ==
  \E n \in Nodes :
    Script(n) \/ ScriptKilled(n) \/ MysqlStops(n) \/ HostReboots(n) \/ Reinstalled(n)

Spec == Init /\ [][Next]_vars

(* The agent of every node keeps running the script to its end.            *)
FairSpec == Spec /\ \A n \in Nodes : WF_vars(Script(n))

-----------------------------------------------------------------------------
(* Properties.                                                             *)

(* Until a fault hits node 1 all members are of one cluster: no node runs  *)
(* a database the others' writes do not reach while taken for a member.    *)
NoSplitBrain ==
  1 \notin hit =>
    \A m, n \in Nodes : Member(m) /\ Member(n) => cluster[m] = cluster[n]

(* Until a fault hits node 1 it creates one cluster, whatever happens to   *)
(* the other nodes and however the runs of the agents interleave.          *)
CreatedOnce == 1 \notin hit => created <= 1

(* exec_vnc_galera is recorded for a node that holds node 1's token, and   *)
(* for the others only after node 1; while there are no faults a recorded  *)
(* node is a member unless its agent is at work again or nobody is left    *)
(* for it to join.                                                         *)
MarkedMeansMember ==
  \A n \in marked :
    /\ n \in token
    /\ 1 \in marked \cup hit
    /\ hit # {} \/ pc[n] # "idle" \/ Member(n) \/ MysqlCannotStart(n)

(* Why: until a fault hits node 1, it comes to create a cluster only       *)
(* before there is one, and it is a member of it wherever its script would *)
(* otherwise decide again.                                                 *)
FirstNode ==
  /\ created = 0 => \A n \in Nodes : ~Member(n)
  /\ conf[1] = "none" => created = 0
  /\ conf[1] = "gcomm" => pc[1] \in {"bootstrap_start", "bootstrap_restore"}
  /\ pc[1] \in {"decide", "bootstrap_start"} => created = 0
  /\ pc[1] = "bootstrap_start" => conf[1] = "gcomm"
  /\ pc[1] \in {"token", "fixup", "run_services", "is_clustered"} /\ created # 0
       => Member(1)
  /\ pc[1] \in {"restart_start", "is_clustered"} => created # 0 /\ conf[1] = "list"
  /\ pc[1] = "bootstrap_restore" => created # 0

OneCluster ==
  /\ created <= 1
  /\ \A n \in Nodes : cluster[n] <= created
  /\ \A n \in Nodes \ {1} : conf[n] # "gcomm"

Undisturbed == 1 \notin hit => FirstNode /\ OneCluster

(* The script keeps what the rest of ha_config builds on (GaleraCluster):  *)
(* one cluster, created once, joined while it has members, and recorded on *)
(* members only, on node 1 first.                                          *)
Cluster == INSTANCE GaleraCluster WITH
  Hosts <- Nodes,
  members <- {n \in Nodes : Member(n) /\ cluster[n] = created},
  recorded <- marked,
  failing <- hit

ImplementsCluster == Cluster!ClusterSpec

(* Every node is a member of node 1's cluster again and again, when node 1 *)
(* stays up once it has created it.                                        *)
AllClustered == \A n \in Nodes : []<>(Member(n) /\ cluster[n] = cluster[1])

=============================================================================
