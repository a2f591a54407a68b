----------------------- MODULE GaleraRefinementProofs -----------------------
(***************************************************************************)
(* setup-vnc-galera implements GaleraCluster, and its marker means what it *)
(* says, for every size of the list and every number of faults.            *)
(***************************************************************************)
EXTENDS GaleraSetupProofs

(* Until a fault hits node 1, no other node is past check_os_master before *)
(* node 1 is recorded.                                                     *)
MasterFirst ==
  \A n \in Nodes \ {1} :
    n \in seen \cup marked \/ pc[n] \notin {"idle", "check_os_master"}
      => 1 \in marked

(* A script that comes to write its marker runs on a member: it started    *)
(* mysqld with the list of nodes, or created the cluster.                  *)
MarksMembers ==
  \A n \in Nodes :
    /\ n # 1 => pc[n] \notin {"bootstrap_start", "bootstrap_restore"}
    /\ pc[n] \in {"run_services", "restart_start", "is_clustered", "decide", "join_start"}
         => conf[n] = "list"
    /\ pc[n] \in {"bootstrap_restore", "mark"} => Member(n) \/ n \in hit

Promise == 1 \notin hit => MasterFirst /\ MarksMembers

(* What the proofs about a step use: no fault has hit node 1.              *)
Steady == OneFirst /\ MasterFirst /\ MarksMembers

Hits(n) == ScriptKilled(n) \/ MysqlStops(n) \/ HostReboots(n) \/ Reinstalled(n)

-----------------------------------------------------------------------------
(* Promise is inductive.                                                   *)

LEMMA InitPromise == Init => Promise
BY DEF Init, Promise, MasterFirst, MarksMembers

(* A step of a node changes its own pc, conf and mysqld only.              *)
LEMMA StepIsLocal ==
  ASSUME Steady, NEW n \in Nodes, Script(n) \/ Hits(n)
  PROVE  \A m \in Nodes \ {n} :
           /\ pc'[m] = pc[m] /\ conf'[m] = conf[m]
           /\ mysqld'[m] = mysqld[m] /\ cluster'[m] = cluster[m]
           /\ m \in seen' <=> m \in seen
           /\ m \in marked' <=> m \in marked
           /\ m \in hit' <=> m \in hit
<1>1. TypeOK
  BY DEF Steady, OneFirst
<1>2. \A m \in Nodes \ {n} : pc'[m] = pc[m] /\ conf'[m] = conf[m]
  BY <1>1
     DEF Script, StartRun, CheckOsMaster, InstallMysqlDb, StartOrFail, MysqlToken,
         FixupConfigFiles, RunServices, IsClustered, DecideFirst, BootstrapRestore,
         WaitForFirst, Mark, Fail, GoTo, Hits, ScriptKilled, MysqlStops, HostReboots,
         Reinstalled, TypeOK
<1>3. \A m \in Nodes \ {n} : mysqld'[m] = mysqld[m] /\ cluster'[m] = cluster[m]
  BY <1>1
     DEF Script, StartRun, CheckOsMaster, InstallMysqlDb, StartOrFail, MysqlToken,
         FixupConfigFiles, RunServices, IsClustered, DecideFirst, BootstrapRestore,
         WaitForFirst, Mark, Fail, Hits, ScriptKilled, MysqlStops, HostReboots,
         Reinstalled, TypeOK, StopMysql, StartMysql, Joins
<1>4. \A m \in Nodes \ {n} : (m \in seen' <=> m \in seen) /\ (m \in marked' <=> m \in marked)
  BY DEF Script, StartRun, CheckOsMaster, InstallMysqlDb, StartOrFail, MysqlToken,
         FixupConfigFiles, RunServices, IsClustered, DecideFirst, BootstrapRestore,
         WaitForFirst, Mark, Fail, Hits, ScriptKilled, MysqlStops, HostReboots,
         Reinstalled
<1>5. \A m \in Nodes \ {n} : m \in hit' <=> m \in hit
  BY DEF Script, StartRun, CheckOsMaster, InstallMysqlDb, StartOrFail, MysqlToken,
         FixupConfigFiles, RunServices, IsClustered, DecideFirst, BootstrapRestore,
         WaitForFirst, Mark, Fail, Hits, ScriptKilled, MysqlStops, HostReboots,
         Reinstalled, Fault
<1> QED BY <1>2, <1>3, <1>4, <1>5

LEMMA MasterFirstStep ==
  ASSUME Steady, NEW n \in Nodes, Script(n) \/ Hits(n), 1 \notin hit'
  PROVE  MasterFirst'
<1>1. TypeOK /\ MasterFirst /\ 1 \in Nodes
  BY FirstIsNode DEF Steady, OneFirst
<1>2. 1 \in marked => 1 \in marked'
  BY DEF Script, StartRun, CheckOsMaster, InstallMysqlDb, StartOrFail, MysqlToken,
         FixupConfigFiles, RunServices, IsClustered, DecideFirst, BootstrapRestore,
         WaitForFirst, Mark, Fail, Hits, ScriptKilled, MysqlStops, HostReboots,
         Reinstalled, Fault
<1>3. CASE n = 1
  BY <1>1, <1>2, <1>3, StepIsLocal DEF MasterFirst
<1>4. CASE n # 1 /\ n \in seen' \cup marked' \cup {m \in {n} : pc'[m] \notin {"idle", "check_os_master"}}
  <2>1. 1 \in marked
    BY <1>1, <1>4
       DEF MasterFirst, Script, StartRun, CheckOsMaster, InstallMysqlDb, StartOrFail,
           MysqlToken, FixupConfigFiles, RunServices, IsClustered, DecideFirst,
           BootstrapRestore, WaitForFirst, Mark, Fail, GoTo, Hits, ScriptKilled,
           MysqlStops, HostReboots, Reinstalled, TypeOK
  <2> QED BY <1>2, <2>1 DEF MasterFirst
<1>5. CASE n # 1 /\ n \notin seen' \cup marked' \cup {m \in {n} : pc'[m] \notin {"idle", "check_os_master"}}
  BY <1>1, <1>2, <1>5, StepIsLocal DEF MasterFirst
<1> QED BY <1>3, <1>4, <1>5

LEMMA MarksMembersStep ==
  ASSUME Steady, NEW n \in Nodes, Script(n) \/ Hits(n), 1 \notin hit'
  PROVE  MarksMembers'
<1>1. TypeOK /\ MarksMembers /\ FirstNode /\ OneCluster /\ 1 \in Nodes
  BY FirstIsNode DEF Steady, OneFirst
<1> DEFINE Good ==
      /\ n # 1 => pc'[n] \notin {"bootstrap_start", "bootstrap_restore"}
      /\ pc'[n] \in {"run_services", "restart_start", "is_clustered", "decide", "join_start"}
           => conf'[n] = "list"
      /\ pc'[n] \in {"bootstrap_restore", "mark"} => mysqld'[n] = "member" \/ n \in hit'
<1>2. Good
  <2>1. CASE pc'[n] \in {"idle", "check_os_master", "install_mysql_db", "install_start",
                         "token", "fixup"}
    BY <2>1
  <2>2. CASE Hits(n)
    BY <1>1, <2>1, <2>2
       DEF Hits, ScriptKilled, MysqlStops, HostReboots, Reinstalled, GoTo, TypeOK,
           MarksMembers, Fault, Member
  <2>3. CASE Fail(n) \/ StartRun(n) \/ CheckOsMaster(n) \/ InstallMysqlDb(n) \/ MysqlToken(n)
             \/ Mark(n)
    BY <1>1, <2>1, <2>3
       DEF Fail, StartRun, CheckOsMaster, InstallMysqlDb, MysqlToken, Mark, GoTo, TypeOK
  <2>4. CASE FixupConfigFiles(n)
    BY <1>1, <2>3, <2>4 DEF FixupConfigFiles, GoTo, TypeOK
  <2>5. CASE RunServices(n)
    BY <1>1, <2>5 DEF RunServices, GoTo, TypeOK, MarksMembers
  <2>6. CASE IsClustered(n)
    BY <1>1, <2>6 DEF IsClustered, GoTo, TypeOK, MarksMembers, Member
  <2>7. CASE n = 1 /\ DecideFirst
    BY <1>1, <2>7 DEF DecideFirst, GoTo, TypeOK, MarksMembers
  <2>8. CASE BootstrapRestore(n)
    BY <1>1, <2>8 DEF BootstrapRestore, GoTo, TypeOK, MarksMembers, Member
  <2>9. CASE WaitForFirst(n)
    BY <1>1, <2>3, <2>9 DEF WaitForFirst, GoTo, TypeOK, MarksMembers
  <2>10. CASE StartOrFail(n, "install_start", "token")
    BY <1>1, <2>1, <2>3, <2>10 DEF StartOrFail, GoTo, TypeOK
  <2>11. CASE StartOrFail(n, "restart_start", "is_clustered")
    BY <1>1, <2>3, <2>11 DEF StartOrFail, GoTo, TypeOK, MarksMembers
  <2>12. CASE StartOrFail(n, "bootstrap_start", "bootstrap_restore")
    <3>1. CASE ~Fail(n)
      <4>1. n = 1 /\ conf[1] = "gcomm"
        BY <1>1, <2>12, <3>1 DEF StartOrFail, MarksMembers, FirstNode
      <4> QED
        BY <1>1, <2>12, <3>1, <4>1 DEF StartOrFail, StartMysql, GoTo, TypeOK
    <3> QED BY <2>3, <3>1
  <2>13. CASE StartOrFail(n, "join_start", "mark")
    <3>1. CASE ~Fail(n)
      <4>1. conf[n] = "list"
        BY <1>1, <2>13, <3>1 DEF StartOrFail, MarksMembers
      <4> QED
        BY <1>1, <2>13, <3>1, <4>1 DEF StartOrFail, StartMysql, Joins, GoTo, TypeOK
    <3> QED BY <2>3, <3>1
  <2> QED
    BY <2>2, <2>3, <2>4, <2>5, <2>6, <2>7, <2>8, <2>9, <2>10, <2>11, <2>12, <2>13
       DEF Script
<1> QED BY <1>1, <1>2, StepIsLocal DEF MarksMembers, Member

(* Steps of node 1's faults are the only ones that add 1 to hit, and hit   *)
(* only grows.                                                             *)
LEMMA StillSteady ==
  ASSUME TypeOK, Undisturbed, Promise, NEW n \in Nodes, Script(n) \/ Hits(n), 1 \notin hit'
  PROVE  Steady /\ (n # 1 \/ ~Hits(n))
<1>1. 1 \notin hit /\ (n # 1 \/ ~Hits(n))
  BY DEF Script, StartRun, CheckOsMaster, InstallMysqlDb, StartOrFail, MysqlToken,
         FixupConfigFiles, RunServices, IsClustered, DecideFirst, BootstrapRestore,
         WaitForFirst, Mark, Fail, Hits, ScriptKilled, MysqlStops, HostReboots,
         Reinstalled, Fault
<1> QED BY <1>1 DEF Undisturbed, Promise, Steady, OneFirst

LEMMA PromiseStep == TypeOK /\ Undisturbed /\ Promise /\ [Next]_vars => Promise'
<1> SUFFICES ASSUME TypeOK, Undisturbed, Promise, [Next]_vars, 1 \notin hit'
             PROVE  MasterFirst' /\ MarksMembers'
  BY DEF Promise
<1>1. CASE UNCHANGED vars
  BY <1>1 DEF vars, Promise, MasterFirst, MarksMembers, Member
<1>2. ASSUME NEW n \in Nodes, Script(n) \/ Hits(n) PROVE MasterFirst' /\ MarksMembers'
  BY <1>2, StillSteady, MasterFirstStep, MarksMembersStep
<1> QED BY <1>1, <1>2 DEF Next, Hits

LEMMA AlwaysPromise == Spec => []Promise
BY InitPromise, PromiseStep, TypeCorrect, AlwaysUndisturbed, PTL DEF Spec

-----------------------------------------------------------------------------
(* Refinement.                                                             *)

Members == {n \in Nodes : Member(n) /\ cluster[n] = created}

LEMMA InitRefines == Init => Cluster!ClusterInit
BY DEF Init, Cluster!ClusterInit, Member

(* With one cluster at most, every member is of the newest.                *)
LEMMA AllMembers ==
  ASSUME TypeOK, OneCluster
  PROVE  Members = {n \in Nodes : Member(n)}
<1> SUFFICES ASSUME NEW n \in Nodes, Member(n) PROVE cluster[n] = created
  BY DEF Members
<1>1. cluster[n] \in Nat /\ created \in Nat /\ cluster[n] # 0
  BY GaleraAssumption DEF TypeOK, Member
<1> QED BY <1>1 DEF OneCluster

(* The next step's Members, when it keeps OneCluster.                      *)
LEMMA AllMembersNext ==
  ASSUME TypeOK', OneCluster'
  PROVE  Members' = {n \in Nodes : mysqld'[n] = "member"}
<1> SUFFICES ASSUME NEW n \in Nodes, mysqld'[n] = "member" PROVE cluster'[n] = created'
  BY DEF Members, Member
<1>1. cluster'[n] \in Nat /\ created' \in Nat /\ cluster'[n] # 0
  BY GaleraAssumption DEF TypeOK
<1> QED BY <1>1 DEF OneCluster

(* mysqld stops: the node leaves.                                          *)
LEMMA StopLeaves ==
  ASSUME TypeOK, OneCluster, TypeOK', OneCluster', NEW n \in Nodes, StopMysql(n)
  PROVE  Members' = Members \ {n}
BY AllMembers, AllMembersNext DEF StopMysql, TypeOK, Member

(* mysqld starts: the node runs alone, creates the cluster, or joins it.   *)
LEMMA StartSteps ==
  ASSUME OneFirst, TypeOK', OneCluster', NEW n \in Nodes, StartMysql(n)
  PROVE  \/ Members' = Members \ {n} /\ created' = created
         \/ n = 1 /\ created = 0 /\ created' = 1 /\ Members' = {1}
         \/ Members \ {n} # {} /\ Members' = Members \cup {n} /\ created' = created
<1>1. TypeOK /\ FirstNode /\ OneCluster /\ 1 \in Nodes
  BY FirstIsNode DEF OneFirst
<1>2. Members = {m \in Nodes : mysqld[m] = "member"}
  BY <1>1, AllMembers DEF Member
<1>3. CASE conf[n] = "none"
  BY <1>1, <1>2, <1>3, AllMembersNext DEF StartMysql, TypeOK
<1>4. CASE conf[n] = "gcomm"
  <2>1. n = 1 /\ created \in Nat /\ created' \in Nat /\ created' = created + 1 /\ created' <= 1
    BY <1>1, <1>4, GaleraAssumption DEF StartMysql, OneCluster, TypeOK
  <2>2. created = 0 /\ created' = 1
    BY <2>1
  <2>3. \A m \in Nodes : mysqld[m] # "member"
    BY <1>1, <2>2 DEF FirstNode, Member
  <2>4. mysqld' = [mysqld EXCEPT ![n] = "member"]
    BY <1>4 DEF StartMysql
  <2>5. \A m \in Nodes : mysqld'[m] = "member" <=> m = 1
    BY <1>1, <2>1, <2>3, <2>4 DEF TypeOK
  <2>6. Members' = {1}
    BY <1>1, <2>5, AllMembersNext
  <2> QED BY <2>1, <2>2, <2>6
<1>5. ASSUME NEW m \in Nodes, Joins(n, m) PROVE Members \ {n} # {} /\ Members' = Members \cup {n}
                                               /\ created' = created
  BY <1>1, <1>2, <1>5, AllMembersNext DEF Joins, Member, TypeOK
<1> QED BY <1>1, <1>3, <1>4, <1>5 DEF StartMysql, TypeOK

(* What a step looks like from outside: a step of the cluster or none.     *)
ClusterStep == Cluster!ClusterNext \/ UNCHANGED << Members, marked, created, hit >>

(* A step of the script is a step of the cluster or none.                  *)
LEMMA ScriptRefines ==
  ASSUME Steady, TypeOK', OneCluster', NEW n \in Nodes, Script(n)
  PROVE  ClusterStep
<1>1. TypeOK /\ OneCluster /\ MasterFirst /\ MarksMembers
  BY DEF Steady, OneFirst
<1>2. CASE UNCHANGED << mysqld, cluster, marked, created, hit >>
  BY <1>2 DEF ClusterStep, Members, Member
<1>3. CASE StopMysql(n) /\ UNCHANGED << marked, created, hit >>
  BY <1>1, <1>3, StopLeaves DEF ClusterStep, Cluster!ClusterNext, Cluster!Leave, Members
<1>4. CASE StartMysql(n) /\ UNCHANGED << marked, hit >>
  BY <1>4, StartSteps
     DEF ClusterStep, Cluster!ClusterNext, Cluster!Leave, Cluster!Join, Cluster!Create,
         Members, Steady
<1>5. CASE Mark(n)
  <2>1. Members' = Members /\ UNCHANGED << created, hit >> /\ marked' = marked \cup {n}
    BY <1>5 DEF Mark, Members, Member
  <2>2. n \in Members \cup hit
    BY <1>1, <1>5, AllMembers DEF Mark, MarksMembers
  <2>3. n = 1 \/ 1 \in marked
    BY <1>1, <1>5 DEF Mark, MasterFirst
  <2>4. Cluster!Record(n)
    BY <2>1, <2>2, <2>3 DEF Cluster!Record, Members
  <2> QED BY <2>4 DEF ClusterStep, Cluster!ClusterNext
<1>6. CASE Fail(n) \/ StartRun(n) \/ CheckOsMaster(n) \/ MysqlToken(n) \/ IsClustered(n)
           \/ BootstrapRestore(n)
  BY <1>2, <1>6
     DEF Fail, StartRun, CheckOsMaster, MysqlToken, IsClustered, BootstrapRestore
<1>7. CASE InstallMysqlDb(n) \/ FixupConfigFiles(n) \/ RunServices(n) \/ (n = 1 /\ DecideFirst)
           \/ WaitForFirst(n)
  BY <1>2, <1>3, <1>6, <1>7
     DEF InstallMysqlDb, FixupConfigFiles, RunServices, DecideFirst, WaitForFirst
<1>8. ASSUME NEW from \in Lines, NEW to \in Lines, StartOrFail(n, from, to) PROVE ClusterStep
  BY <1>4, <1>6, <1>8 DEF StartOrFail
<1> QED BY <1>5, <1>6, <1>7, <1>8 DEF Script, Lines

(* A fault of another node is one of the cluster's.                        *)
LEMMA FaultRefines ==
  ASSUME Steady, TypeOK', OneCluster', NEW n \in Nodes, n # 1, Hits(n)
  PROVE  Cluster!FaultAt(n)
<1>1. TypeOK /\ OneCluster
  BY DEF Steady, OneFirst
<1>2. hit' = hit \cup {n} /\ marked' \in {marked, marked \ {n}}
  BY DEF Hits, ScriptKilled, MysqlStops, HostReboots, Reinstalled, Fault
<1>3. /\ created' = created
      /\ \/ Members' \in {Members, Members \ {n}}
         \/ Members \ {n} # {} /\ Members' = Members \cup {n}
  <2>1. CASE UNCHANGED << mysqld, cluster, created >>
    BY <2>1 DEF Members, Member
  <2>2. CASE StopMysql(n) /\ UNCHANGED created
    BY <1>1, <2>2, StopLeaves
  <2>3. CASE StartMysql(n)
    BY <2>3, StartSteps DEF Steady
  <2>4. CASE Reinstalled(n)
    BY <1>1, <2>4, AllMembers, AllMembersNext DEF Reinstalled, TypeOK, Member
  <2> QED BY <2>1, <2>2, <2>3, <2>4 DEF Hits, ScriptKilled, MysqlStops, HostReboots
<1> QED BY <1>2, <1>3 DEF Cluster!FaultAt, Members

LEMMA StepRefines ==
  ASSUME TypeOK, Undisturbed, Promise, TypeOK', Undisturbed', [Next]_vars
  PROVE  [Cluster!ClusterNext]_(Cluster!clusterVars)
<1>1. CASE UNCHANGED vars
  BY <1>1 DEF vars, Cluster!clusterVars, Member
<1>2. CASE 1 \in hit'
  BY <1>2 DEF Cluster!ClusterNext, Cluster!NoPromise
<1>3. ASSUME NEW n \in Nodes, Script(n) \/ Hits(n), 1 \notin hit'
      PROVE  ClusterStep
  <2>1. Steady /\ OneCluster' /\ (n # 1 \/ ~Hits(n))
    BY <1>3, StillSteady DEF Undisturbed
  <2>2. CASE Script(n)
    BY <2>1, <2>2, ScriptRefines
  <2>3. CASE Hits(n)
    BY <2>1, <2>3, FaultRefines DEF ClusterStep, Cluster!ClusterNext
  <2> QED BY <1>3, <2>2, <2>3
<1> QED
  BY <1>1, <1>2, <1>3 DEF Next, Hits, ClusterStep, Cluster!clusterVars, Members

(* setup-vnc-galera on every node implements the cluster HaConfig uses.    *)
THEOREM GaleraRefines == Spec => ImplementsCluster
<1>1. TypeOK /\ Undisturbed /\ Promise /\ TypeOK' /\ Undisturbed' /\ [Next]_vars
        => [Cluster!ClusterNext]_(Cluster!clusterVars)
  BY StepRefines
<1> QED
  BY InitRefines, <1>1, TypeCorrect, AlwaysUndisturbed, AlwaysPromise, PTL
     DEF Spec, ImplementsCluster, Cluster!ClusterSpec

-----------------------------------------------------------------------------
(* What the marker means.                                                  *)

(* The token comes before the configuration, which needs its password.     *)
TokenFirst ==
  \A n \in Nodes :
    \/ n \in marked
    \/ pc[n] \in {"fixup", "run_services", "restart_start", "is_clustered", "decide",
                  "bootstrap_start", "bootstrap_restore", "join_start", "mark"}
    => n \in token

(* Without faults a recorded node has the list of nodes in its             *)
(* configuration, comes back to its cluster and has nothing to decide.     *)
Returns(n) ==
  /\ conf[n] = "list"
  /\ pc[n] \notin {"decide", "bootstrap_start", "bootstrap_restore", "join_start"}
  /\ pc[n] \in {"token", "fixup", "run_services", "is_clustered", "mark"} => Member(n)
  /\ pc[n] = "idle" => Member(n) \/ MysqlCannotStart(n)

MarkedReturn ==
  hit = {} => \A n \in Nodes : /\ n \in marked => Returns(n)
                               /\ pc[n] = "mark" => conf[n] = "list"

LEMMA InitReturn == Init => TokenFirst /\ MarkedReturn
BY DEF Init, TokenFirst, MarkedReturn

LEMMA TokenFirstStep == TypeOK /\ TokenFirst /\ [Next]_vars => TokenFirst'
<1> SUFFICES ASSUME TypeOK, TokenFirst, [Next]_vars PROVE TokenFirst'
  OBVIOUS
<1>1. CASE UNCHANGED vars
  BY <1>1 DEF vars, TokenFirst
<1>2. ASSUME NEW n \in Nodes, Script(n) \/ Hits(n) PROVE TokenFirst'
  <2>1. \A m \in Nodes \ {n} : /\ pc'[m] = pc[m] /\ (m \in marked' <=> m \in marked)
                               /\ m \in token => m \in token'
    BY <1>2
       DEF Script, StartRun, CheckOsMaster, InstallMysqlDb, StartOrFail, MysqlToken,
           FixupConfigFiles, RunServices, IsClustered, DecideFirst, BootstrapRestore,
           WaitForFirst, Mark, Fail, GoTo, Hits, ScriptKilled, MysqlStops, HostReboots,
           Reinstalled, TypeOK
  <2>2. \/ n \in marked'
        \/ pc'[n] \in {"fixup", "run_services", "restart_start", "is_clustered", "decide",
                       "bootstrap_start", "bootstrap_restore", "join_start", "mark"}
        => n \in token'
    BY <1>2
       DEF Script, StartRun, CheckOsMaster, InstallMysqlDb, StartOrFail, MysqlToken,
           FixupConfigFiles, RunServices, IsClustered, DecideFirst, BootstrapRestore,
           WaitForFirst, Mark, Fail, GoTo, Hits, ScriptKilled, MysqlStops, HostReboots,
           Reinstalled, TypeOK, TokenFirst
  <2> QED
    BY <2>1, <2>2 DEF TokenFirst
<1> QED
  BY <1>1, <1>2 DEF Next, Hits

(* Where no node is left to join, none appears: node 1 is recorded and     *)
(* does not create a cluster again.                                        *)
LEMMA NobodyAppears ==
  ASSUME Steady, MarkedReturn, hit = {}, NEW n \in Nodes, Script(n),
         NEW m \in Nodes \ {n}, m \in marked, Returns(m)
  PROVE  Returns(m)'
<1>1. /\ conf'[m] = conf[m] /\ pc'[m] = pc[m] /\ mysqld'[m] = mysqld[m]
      /\ \A k \in Nodes \ {n} : mysqld'[k] = mysqld[k]
  BY StepIsLocal
<1>2. 1 \in marked /\ Returns(1)
  BY FirstIsNode DEF Steady, MasterFirst, MarkedReturn
<1>3. ASSUME MysqlCannotStart(m), ~Member(m) PROVE MysqlCannotStart(m)'
  <2>1. \A k \in Nodes : ~Member(k)
    BY <1>3 DEF MysqlCannotStart
  <2>2. conf[n] # "gcomm"
    BY <1>2 DEF Returns, Steady, OneFirst, OneCluster
  <2>3. mysqld'[n] # "member"
    BY <2>1, <2>2
       DEF Script, StartRun, CheckOsMaster, InstallMysqlDb, StartOrFail, StartMysql, Joins,
           StopMysql, MysqlToken, FixupConfigFiles, RunServices, IsClustered, DecideFirst,
           BootstrapRestore, WaitForFirst, Mark, Fail, Steady, OneFirst, TypeOK, Member
  <2> QED
    BY <1>1, <1>3, <2>1, <2>3 DEF MysqlCannotStart, Member
<1> QED
  BY <1>1, <1>3 DEF Returns, Member

LEMMA MarkedReturnStep ==
  ASSUME Steady, TokenFirst, MarkedReturn, hit = {}, NEW n \in Nodes, Script(n)
  PROVE  (n \in marked' => Returns(n)') /\ (pc'[n] = "mark" => conf'[n] = "list")
<1>1. TypeOK /\ MarksMembers /\ (n \in marked => 1 \in marked)
  BY DEF Steady, OneFirst, MasterFirst
<1>2. n \in marked => Returns(n)
  BY DEF MarkedReturn
<1>3. CASE Mark(n)
  BY <1>1, <1>3 DEF Mark, GoTo, TypeOK, MarksMembers, MarkedReturn, Returns, Member
<1>4. CASE StartRun(n) \/ CheckOsMaster(n) \/ MysqlToken(n) \/ IsClustered(n)
  <2>1. UNCHANGED << conf, mysqld, marked >>
    BY <1>4 DEF StartRun, CheckOsMaster, MysqlToken, IsClustered, Fail
  <2>2. n \in marked => pc'[n] # "idle"
    BY <1>1, <1>2, <1>4 DEF StartRun, CheckOsMaster, MysqlToken, IsClustered, GoTo, Fail,
                            Returns, TypeOK, TokenFirst
  <2> QED
    BY <1>1, <1>2, <1>4, <2>1, <2>2
       DEF StartRun, CheckOsMaster, MysqlToken, IsClustered, GoTo, Fail, Returns, TypeOK,
           MarksMembers, Member
<1>5. CASE InstallMysqlDb(n) \/ FixupConfigFiles(n) \/ RunServices(n)
  BY <1>1, <1>2, <1>5
     DEF InstallMysqlDb, FixupConfigFiles, RunServices, StopMysql, GoTo, Fail, Returns, TypeOK,
         Member
<1>6. CASE StartOrFail(n, "install_start", "token")
           \/ StartOrFail(n, "restart_start", "is_clustered")
           \/ StartOrFail(n, "bootstrap_start", "bootstrap_restore")
           \/ StartOrFail(n, "join_start", "mark")
  <2>1. CASE Fail(n) /\ MysqlCannotStart(n)
    BY <1>1, <1>2, <2>1 DEF Fail, GoTo, Returns, MysqlCannotStart, Member, TypeOK
  <2>2. CASE StartMysql(n) /\ UNCHANGED << conf, marked >>
    <3>1. conf[n] = "list" => mysqld'[n] = "member"
      BY <1>1, <2>2 DEF StartMysql, Joins, TypeOK
    <3> QED
      BY <1>1, <1>2, <1>6, <2>2, <3>1
         DEF StartOrFail, Fail, GoTo, Returns, Member, MarksMembers, TypeOK
  <2> QED
    BY <1>6, <2>1, <2>2 DEF StartOrFail
<1>7. CASE (n = 1 /\ DecideFirst) \/ BootstrapRestore(n) \/ WaitForFirst(n)
  BY <1>1, <1>2, <1>7
     DEF DecideFirst, BootstrapRestore, WaitForFirst, GoTo, Fail, Returns, TypeOK
<1> QED
  BY <1>3, <1>4, <1>5, <1>6, <1>7 DEF Script

LEMMA ReturnStep ==
  TypeOK /\ Undisturbed /\ Promise /\ TokenFirst /\ MarkedReturn /\ [Next]_vars
    => MarkedReturn'
<1> SUFFICES ASSUME TypeOK, Undisturbed, Promise, TokenFirst, MarkedReturn, [Next]_vars,
                    hit' = {}, NEW m \in Nodes
             PROVE  (m \in marked' => Returns(m)') /\ (pc'[m] = "mark" => conf'[m] = "list")
  BY DEF MarkedReturn
<1>1. CASE UNCHANGED vars
  BY <1>1 DEF vars, MarkedReturn, Returns, Member, MysqlCannotStart
<1>2. ASSUME NEW n \in Nodes, Script(n) \/ Hits(n)
      PROVE  (m \in marked' => Returns(m)') /\ (pc'[m] = "mark" => conf'[m] = "list")
  <2>1. Steady
    BY <1>2, StillSteady
  <2>2. Script(n) /\ hit = {}
    BY <1>2 DEF Hits, ScriptKilled, MysqlStops, HostReboots, Reinstalled, Fault, Script,
                StartRun, CheckOsMaster, InstallMysqlDb, StartOrFail, MysqlToken,
                FixupConfigFiles, RunServices, IsClustered, DecideFirst, BootstrapRestore,
                WaitForFirst, Mark, Fail
  <2>3. CASE m = n
    BY <2>1, <2>2, <2>3, MarkedReturnStep
  <2>4. CASE m # n
    BY <2>1, <2>2, <2>4, NobodyAppears, StepIsLocal DEF MarkedReturn
  <2> QED
    BY <2>3, <2>4
<1> QED
  BY <1>1, <1>2 DEF Next, Hits

(* exec_vnc_galera means the token, node 1's marker before, and without    *)
(* faults a place in the cluster: runs that restart mysqld, and others     *)
(* that do the same meanwhile, only lose it where nobody is left to join.  *)
THEOREM MarkedMeansMemberHolds == Spec => []MarkedMeansMember
<1>1. TypeOK /\ Promise /\ TokenFirst /\ MarkedReturn => MarkedMeansMember
  BY DEF TypeOK, Promise, MasterFirst, TokenFirst, MarkedReturn, Returns, MarkedMeansMember
<1> QED
  BY <1>1, InitReturn, TokenFirstStep, ReturnStep, TypeCorrect, AlwaysUndisturbed,
     AlwaysPromise, PTL DEF Spec

=============================================================================
