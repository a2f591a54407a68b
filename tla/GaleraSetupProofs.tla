------------------------- MODULE GaleraSetupProofs -------------------------
(***************************************************************************)
(* Proofs about GaleraSetup for every size of the list and every number of *)
(* faults.                                                                 *)
(***************************************************************************)
EXTENDS GaleraSetup, TLAPS

-----------------------------------------------------------------------------
(* Type correctness.                                                       *)

LEMMA FirstIsNode == 1 \in Nodes /\ 2 \in Nodes
BY GaleraAssumption DEF Nodes

LEMMA InitType == Init => TypeOK
BY GaleraAssumption DEF Init, TypeOK, Lines

LEMMA GoToType ==
  ASSUME TypeOK, NEW n \in Nodes, NEW l \in Lines, GoTo(n, l)
  PROVE  pc' \in [Nodes -> Lines]
BY DEF GoTo, TypeOK

(* What mysqld does keeps the types of its three variables.                *)
MysqldType ==
  /\ mysqld \in [Nodes -> {"down", "alone", "member"}]
  /\ cluster \in [Nodes -> 0 .. MaxClusters]
  /\ created \in 0 .. MaxClusters
  /\ \A n \in Nodes : mysqld[n] = "member" <=> cluster[n] # 0

LEMMA StopType ==
  ASSUME TypeOK, NEW n \in Nodes, StopMysql(n), created' = created
  PROVE  MysqldType'
BY GaleraAssumption DEF TypeOK, StopMysql, MysqldType

LEMMA StartType ==
  ASSUME TypeOK, NEW n \in Nodes, StartMysql(n)
  PROVE  MysqldType'
<1>1. CASE mysqld' = [mysqld EXCEPT ![n] = "alone"] /\ cluster' = [cluster EXCEPT ![n] = 0]
           /\ UNCHANGED created
  BY <1>1, GaleraAssumption DEF TypeOK, MysqldType
<1>2. CASE /\ created < MaxClusters
           /\ mysqld' = [mysqld EXCEPT ![n] = "member"]
           /\ created' = created + 1
           /\ cluster' = [cluster EXCEPT ![n] = created + 1]
  <2>1. created + 1 \in 1 .. MaxClusters
    BY <1>2, GaleraAssumption DEF TypeOK
  <2> QED BY <1>2, <2>1 DEF TypeOK, MysqldType
<1>3. ASSUME NEW m \in Nodes, Joins(n, m) PROVE MysqldType'
  BY <1>3 DEF Joins, Member, TypeOK, MysqldType
<1> QED BY <1>1, <1>2, <1>3 DEF StartMysql

LEMMA ScriptType ==
  ASSUME TypeOK, NEW n \in Nodes, Script(n)
  PROVE  TypeOK'
<1> USE DEF Lines
<1>1. CASE UNCHANGED << conf, token, marked, seen, hit, faults >> /\ MysqldType'
           /\ \E l \in Lines : GoTo(n, l)
  BY <1>1, GoToType DEF TypeOK, MysqldType
<1>2. CASE Fail(n)
  BY <1>2, GoToType DEF Fail, TypeOK
<1>3. CASE StartRun(n)
  BY <1>3, GoToType DEF StartRun, TypeOK
<1>4. CASE CheckOsMaster(n)
  BY <1>2, <1>4, GoToType DEF CheckOsMaster, TypeOK
<1>5. CASE InstallMysqlDb(n)
  BY <1>1, <1>5, StopType DEF InstallMysqlDb
<1>6. ASSUME NEW from, NEW to \in Lines, StartOrFail(n, from, to) PROVE TypeOK'
  BY <1>1, <1>2, <1>6, StartType DEF StartOrFail
<1>7. CASE MysqlToken(n)
  BY <1>2, <1>7, GoToType DEF MysqlToken, TypeOK
<1>8. CASE FixupConfigFiles(n)
  <2>1. CASE mysqld[n] # "down" /\ ~Member(n)
    <3>1. MysqldType'
      BY <1>2, <1>8, <2>1, StopType DEF FixupConfigFiles
    <3> QED BY <1>8, <2>1, <3>1, GoToType DEF FixupConfigFiles, TypeOK, MysqldType
  <2>2. CASE Member(n)
    BY <1>8, <2>2, GoToType DEF FixupConfigFiles, Member, TypeOK
  <2> QED BY <1>2, <1>8, <2>1, <2>2 DEF FixupConfigFiles, Member
<1>9. CASE RunServices(n)
  <2>1. CASE Member(n)
    BY <1>1, <1>9, <2>1, StopType DEF RunServices
  <2>2. CASE ~Member(n)
    BY <1>9, <2>2, GoToType DEF RunServices, TypeOK
  <2> QED BY <2>1, <2>2
<1>10. CASE IsClustered(n)
  BY <1>10, GoToType DEF IsClustered, TypeOK
<1>11. CASE n = 1 /\ DecideFirst
  <2>1. MysqldType'
    BY <1>11, StopType DEF DecideFirst
  <2>2. \E l \in Lines : GoTo(n, l)
    BY <1>11 DEF DecideFirst
  <2>3. conf' \in [Nodes -> {"none", "gcomm", "list"}]
    BY <1>11 DEF DecideFirst, TypeOK
  <2> QED BY <1>11, <2>1, <2>2, <2>3, GoToType DEF DecideFirst, TypeOK, MysqldType
<1>12. CASE BootstrapRestore(n)
  BY <1>12, GoToType DEF BootstrapRestore, TypeOK
<1>13. CASE WaitForFirst(n)
  BY <1>1, <1>2, <1>13, StopType DEF WaitForFirst
<1>14. CASE Mark(n)
  BY <1>14, GoToType DEF Mark, TypeOK
<1> QED
  BY <1>3, <1>4, <1>5, <1>6, <1>7, <1>8, <1>9, <1>10, <1>11, <1>12, <1>13, <1>14
     DEF Script

LEMMA FaultType ==
  ASSUME TypeOK, NEW n \in Nodes,
         ScriptKilled(n) \/ MysqlStops(n) \/ HostReboots(n) \/ Reinstalled(n)
  PROVE  TypeOK'
<1>1. faults' \in 0 .. MaxFaults /\ hit' \subseteq Nodes
  BY GaleraAssumption
     DEF ScriptKilled, MysqlStops, HostReboots, Reinstalled, Fault, TypeOK
<1>2. CASE ScriptKilled(n)
  BY <1>1, <1>2, GoToType DEF ScriptKilled, TypeOK, Lines
<1>3. CASE MysqlStops(n)
  BY <1>1, <1>3, StopType DEF MysqlStops, TypeOK, MysqldType
<1>4. CASE HostReboots(n)
  <2>1. MysqldType'
    BY <1>4, StartType, StopType DEF HostReboots
  <2> QED BY <1>1, <1>4, <2>1, GoToType DEF HostReboots, TypeOK, MysqldType, Lines
<1>5. CASE Reinstalled(n)
  BY <1>1, <1>5, GoToType, GaleraAssumption DEF Reinstalled, TypeOK, Lines
<1> QED BY <1>2, <1>3, <1>4, <1>5

LEMMA TypeStep == TypeOK /\ [Next]_vars => TypeOK'
<1>1. TypeOK /\ UNCHANGED vars => TypeOK'
  BY DEF vars, TypeOK
<1> QED BY <1>1, ScriptType, FaultType DEF Next

(* Every variable keeps its type; a node is of a cluster exactly while its *)
(* mysqld is a member.                                                     *)
THEOREM TypeCorrect == Spec => []TypeOK
BY InitType, TypeStep, PTL DEF Spec

-----------------------------------------------------------------------------
(* One cluster, until a fault hits node 1.                                 *)

(* Undisturbed before any fault at node 1, as the lemmas use it.           *)
OneFirst == TypeOK /\ FirstNode /\ OneCluster

LEMMA InitUndisturbed == Init => Undisturbed
<1> SUFFICES ASSUME Init PROVE FirstNode /\ OneCluster
  BY DEF Undisturbed
<1>1. FirstNode
  BY FirstIsNode DEF Init, FirstNode, Member
<1>2. OneCluster
  BY DEF Init, OneCluster
<1> QED BY <1>1, <1>2

(* A node other than the first stops or starts its mysqld, or neither.     *)
OtherMysqld(n) ==
  \/ UNCHANGED << mysqld, cluster, created >>
  \/ StopMysql(n) /\ UNCHANGED created
  \/ StartMysql(n)
  \/ /\ mysqld' = [mysqld EXCEPT ![n] = "alone"]
     /\ cluster' = [cluster EXCEPT ![n] = 0]
     /\ UNCHANGED created

(* A step of another node leaves node 1 alone and creates no cluster.      *)
LEMMA OtherNode ==
  ASSUME OneFirst, NEW n \in Nodes, n # 1,
         conf'[1] = conf[1], pc'[1] = pc[1],
         \A m \in Nodes \ {1} : conf'[m] # "gcomm",
         OtherMysqld(n)
  PROVE  FirstNode' /\ OneCluster'
<1>1. /\ TypeOK /\ FirstNode /\ OneCluster /\ 1 \in Nodes
  BY FirstIsNode DEF OneFirst
<1>2. created' = created
  BY <1>1 DEF OtherMysqld, StartMysql, Joins, OneCluster
<1>3. mysqld'[1] = mysqld[1]
  BY <1>1 DEF OtherMysqld, StopMysql, StartMysql, Joins, TypeOK, OneCluster
<1>4. created = 0 => \A m \in Nodes : mysqld'[m] # "member"
  BY <1>1 DEF OtherMysqld, StopMysql, StartMysql, Joins, Member, TypeOK, FirstNode,
             OneCluster
<1>5. \A m \in Nodes : cluster'[m] <= created
  <2>1. \A m \in Nodes : cluster[m] \in Nat /\ created \in Nat
    BY <1>1, GaleraAssumption DEF TypeOK
  <2> QED
    BY <1>1, <2>1
       DEF OtherMysqld, StopMysql, StartMysql, Joins, TypeOK, OneCluster
<1>6. FirstNode'
  BY <1>1, <1>2, <1>3, <1>4 DEF FirstNode, Member
<1>7. OneCluster'
  BY <1>1, <1>2, <1>5 DEF OneCluster
<1> QED BY <1>6, <1>7

LEMMA OtherScript ==
  ASSUME OneFirst, NEW n \in Nodes, n # 1,
         Script(n) \/ ScriptKilled(n) \/ MysqlStops(n) \/ HostReboots(n) \/ Reinstalled(n)
  PROVE  FirstNode' /\ OneCluster'
<1>1. TypeOK /\ OneCluster /\ 1 \in Nodes
  BY FirstIsNode DEF OneFirst
<1>2. pc'[1] = pc[1]
  BY <1>1
     DEF Script, StartRun, CheckOsMaster, InstallMysqlDb, StartOrFail, MysqlToken,
         FixupConfigFiles, RunServices, IsClustered, BootstrapRestore, WaitForFirst,
         Mark, Fail, GoTo, ScriptKilled, MysqlStops, HostReboots, Reinstalled, TypeOK
<1>3. conf'[1] = conf[1] /\ \A m \in Nodes \ {1} : conf'[m] # "gcomm"
  BY <1>1
     DEF Script, StartRun, CheckOsMaster, InstallMysqlDb, StartOrFail, MysqlToken,
         FixupConfigFiles, RunServices, IsClustered, BootstrapRestore, WaitForFirst,
         Mark, Fail, ScriptKilled, MysqlStops, HostReboots, Reinstalled, TypeOK,
         OneCluster
<1>4. OtherMysqld(n)
  BY DEF Script, StartRun, CheckOsMaster, InstallMysqlDb, StartOrFail, MysqlToken,
         FixupConfigFiles, RunServices, IsClustered, BootstrapRestore, WaitForFirst,
         Mark, Fail, ScriptKilled, MysqlStops, HostReboots, Reinstalled, OtherMysqld
<1> QED BY <1>2, <1>3, <1>4, OtherNode

(* Node 1's script creates the cluster once and then rejoins it.           *)
LEMMA FirstScript ==
  ASSUME OneFirst, Script(1)
  PROVE  FirstNode' /\ OneCluster'
<1>1. /\ TypeOK /\ FirstNode /\ OneCluster /\ 1 \in Nodes
      /\ created \in {0, 1}
  BY FirstIsNode, GaleraAssumption DEF OneFirst, OneCluster, TypeOK
<1>2. CASE UNCHANGED << conf, mysqld, cluster, created >> /\ pc'[1] \in
             {"idle", "check_os_master", "install_mysql_db", "mark"}
  <2>1. conf[1] # "gcomm" \/ pc[1] \in {"bootstrap_start", "bootstrap_restore"}
    BY <1>1 DEF FirstNode
  <2>2. CASE conf[1] # "gcomm"
    BY <1>1, <1>2, <2>2 DEF FirstNode, OneCluster, Member
  <2>3. CASE pc[1] \in {"bootstrap_start", "bootstrap_restore"}
    BY <1>1, <1>2, <2>3
       DEF Script, StartRun, CheckOsMaster, InstallMysqlDb, StartOrFail, MysqlToken,
           FixupConfigFiles, RunServices, IsClustered, DecideFirst, BootstrapRestore,
           WaitForFirst, Mark, Fail, GoTo, TypeOK, FirstNode, OneCluster, StartMysql,
           MysqlCannotStart, Joins, Member
  <2> QED BY <2>1, <2>2, <2>3
<1>3. CASE StartRun(1) \/ CheckOsMaster(1) \/ Mark(1)
  BY <1>1, <1>2, <1>3 DEF StartRun, CheckOsMaster, Mark, Fail, GoTo, TypeOK
<1>4. CASE InstallMysqlDb(1)
  BY <1>1, <1>4
     DEF InstallMysqlDb, StopMysql, GoTo, TypeOK, FirstNode, OneCluster, Member
<1>5. ASSUME NEW from, NEW to, StartOrFail(1, from, to), MysqlCannotStart(1)
      PROVE  FirstNode' /\ OneCluster'
  BY <1>1, <1>2, <1>5
     DEF StartOrFail, Fail, GoTo, TypeOK, StartMysql, MysqlCannotStart, Joins
<1>6. CASE StartOrFail(1, "install_start", "token") /\ ~MysqlCannotStart(1)
  <2>1. conf[1] \in {"none", "list"}
    BY <1>1, <1>6 DEF StartOrFail, TypeOK, FirstNode
  <2>2. CASE conf[1] = "none"
    BY <1>1, <1>6, <2>2
       DEF StartOrFail, StartMysql, GoTo, TypeOK, FirstNode, OneCluster, Member
  <2>3. CASE conf[1] = "list"
    BY <1>1, <1>6, <2>3
       DEF StartOrFail, StartMysql, Joins, GoTo, TypeOK, FirstNode, OneCluster, Member
  <2> QED BY <2>1, <2>2, <2>3
<1>7. CASE MysqlToken(1)
  BY <1>1, <1>7 DEF MysqlToken, GoTo, TypeOK, FirstNode, OneCluster, Member
<1>8. CASE FixupConfigFiles(1)
  <2>1. CASE mysqld[1] = "down"
    BY <1>1, <1>2, <1>8, <2>1 DEF FixupConfigFiles, Fail, GoTo, TypeOK
  <2>2. CASE mysqld[1] # "down"
    BY <1>1, <1>8, <2>2
       DEF FixupConfigFiles, StopMysql, GoTo, TypeOK, FirstNode, OneCluster, Member
  <2> QED BY <2>1, <2>2
<1>9. CASE RunServices(1)
  <2>1. conf[1] # "gcomm"
    BY <1>1, <1>9 DEF RunServices, FirstNode
  <2>2. conf[1] = "list" \/ created = 0
    BY <1>1, <2>1 DEF TypeOK, FirstNode
  <2>3. CASE Member(1)
    BY <1>1, <1>9, <2>1, <2>2, <2>3
       DEF RunServices, StopMysql, GoTo, TypeOK, FirstNode, OneCluster, Member
  <2>4. CASE ~Member(1)
    BY <1>1, <1>9, <2>1, <2>4 DEF RunServices, GoTo, TypeOK, FirstNode, OneCluster, Member
  <2> QED BY <2>3, <2>4
<1>10. CASE StartOrFail(1, "restart_start", "is_clustered") /\ ~MysqlCannotStart(1)
  BY <1>1, <1>10
     DEF StartOrFail, StartMysql, Joins, GoTo, TypeOK, FirstNode, OneCluster, Member
<1>11. CASE IsClustered(1)
  BY <1>1, <1>2, <1>11 DEF IsClustered, GoTo, TypeOK, FirstNode
<1>12. CASE DecideFirst
  <2>1. created = 0 /\ ~IsClusterRunning
    BY <1>1, <1>12, FirstIsNode DEF DecideFirst, FirstNode, IsClusterRunning
  <2> QED
    BY <1>1, <1>12, <2>1
       DEF DecideFirst, StopMysql, GoTo, TypeOK, FirstNode, OneCluster, Member
<1>13. CASE StartOrFail(1, "bootstrap_start", "bootstrap_restore") /\ ~MysqlCannotStart(1)
  <2>1. created = 0
    BY <1>1, <1>13 DEF StartOrFail, FirstNode
  <2>2. \A m \in Nodes : ~Member(m)
    BY <1>1, <2>1 DEF FirstNode
  <2>3. conf[1] = "gcomm"
    BY <1>1, <1>13 DEF StartOrFail, FirstNode
  <2> QED
    BY <1>1, <1>13, <2>1, <2>2, <2>3
       DEF StartOrFail, StartMysql, GoTo, TypeOK, FirstNode, OneCluster, Member
<1>14. CASE BootstrapRestore(1)
  BY <1>1, <1>14 DEF BootstrapRestore, GoTo, TypeOK, FirstNode, OneCluster, Member
<1>15. CASE StartOrFail(1, "join_start", "mark") /\ ~MysqlCannotStart(1)
  BY <1>1, <1>15
     DEF StartOrFail, StartMysql, Joins, GoTo, TypeOK, FirstNode, OneCluster, Member
<1> QED
  BY <1>3, <1>4, <1>5, <1>6, <1>7, <1>8, <1>9, <1>10, <1>11, <1>12, <1>13, <1>14, <1>15
     DEF Script, WaitForFirst

LEMMA UndisturbedStep ==
  TypeOK /\ Undisturbed /\ [Next]_vars => Undisturbed'
<1> SUFFICES ASSUME TypeOK, Undisturbed, [Next]_vars, 1 \notin hit'
             PROVE  FirstNode' /\ OneCluster'
  BY DEF Undisturbed
<1>1. CASE UNCHANGED vars
  BY <1>1 DEF vars, Undisturbed, FirstNode, OneCluster, Member
<1> DEFINE Hit(n) == ScriptKilled(n) \/ MysqlStops(n) \/ HostReboots(n) \/ Reinstalled(n)
<1>2. ASSUME NEW n \in Nodes, Script(n) \/ Hit(n), n # 1 \/ Script(n)
      PROVE  FirstNode' /\ OneCluster'
  <2>1. 1 \notin hit
    BY <1>2
       DEF Script, StartRun, CheckOsMaster, InstallMysqlDb, StartOrFail, MysqlToken,
           FixupConfigFiles, RunServices, IsClustered, DecideFirst, BootstrapRestore,
           WaitForFirst, Mark, Fail, ScriptKilled, MysqlStops, HostReboots, Reinstalled,
           Fault
  <2>2. OneFirst
    BY <2>1 DEF Undisturbed, OneFirst
  <2> QED BY <1>2, <2>2, OtherScript, FirstScript
<1>3. ~Hit(1)
  BY DEF ScriptKilled, MysqlStops, HostReboots, Reinstalled, Fault
<1> QED BY <1>1, <1>2, <1>3 DEF Next

LEMMA AlwaysUndisturbed == Spec => []Undisturbed
BY InitUndisturbed, UndisturbedStep, TypeCorrect, PTL DEF Spec

(* Until a fault hits node 1 it creates one cluster, however many nodes    *)
(* there are and however often the others fail.                            *)
THEOREM CreatedOnceHolds == Spec => []CreatedOnce
<1>1. Undisturbed => CreatedOnce
  BY DEF Undisturbed, OneCluster, CreatedOnce
<1> QED BY <1>1, AlwaysUndisturbed, PTL

(* And then any two members are of the same cluster.                       *)
THEOREM NoSplitBrainHolds == Spec => []NoSplitBrain
<1>1. TypeOK /\ Undisturbed => NoSplitBrain
  <2> SUFFICES ASSUME TypeOK, Undisturbed, 1 \notin hit,
                      NEW m \in Nodes, NEW n \in Nodes, Member(m), Member(n)
               PROVE  cluster[m] = cluster[n]
    BY DEF NoSplitBrain
  <2>1. /\ cluster[m] \in Nat /\ cluster[n] \in Nat /\ created \in Nat
        /\ cluster[m] # 0 /\ cluster[n] # 0
    BY GaleraAssumption DEF TypeOK, Member
  <2>2. cluster[m] <= created /\ cluster[n] <= created /\ created <= 1
    BY DEF Undisturbed, OneCluster
  <2> QED BY <2>1, <2>2
<1> QED BY <1>1, TypeCorrect, AlwaysUndisturbed, PTL

=============================================================================
