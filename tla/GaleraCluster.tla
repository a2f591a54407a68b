--------------------------- MODULE GaleraCluster ---------------------------
(***************************************************************************)
(* What setup-vnc-galera promises the rest of ha_config: one database      *)
(* cluster, created once by the first node and joined by the others while  *)
(* a member is there, and the line exec_vnc_galera written on a member,    *)
(* on the first node before the others.  GaleraSetup implements it; with   *)
(* HaConfig it stands for the whole script.                                *)
(*                                                                         *)
(* Nothing is promised once a fault has hit the first node.                *)
(***************************************************************************)
EXTENDS Naturals

CONSTANT Hosts  \* the nodes of galera_ip_list, 1 is the first

VARIABLES
  members,  \* the members of the newest cluster
  recorded, \* nodes with exec_vnc_galera in contrail_openstack_exec.out
  created,  \* clusters created
  failing   \* nodes a fault has hit

clusterVars == << members, recorded, created, failing >>

ClusterInit ==
  /\ members = {} /\ recorded = {} /\ failing = {}
  /\ created = 0

(* Mutant: what the first node does when it finds no member any more.      *)
CreateAgain ==
  /\ members = {}
  /\ created' = created + 1 /\ members' = {1}
  /\ UNCHANGED << recorded, failing >>

Create ==
  /\ created = 0
  /\ created' = 1 /\ members' = {1}
  /\ UNCHANGED << recorded, failing >>

Join(n) ==
  /\ members \ {n} # {}
  /\ members' = members \cup {n}
  /\ UNCHANGED << recorded, created, failing >>

(* Every run of the script restarts mysqld.                                *)
Leave(n) ==
  /\ members' = members \ {n}
  /\ UNCHANGED << recorded, created, failing >>

Record(n) ==
  /\ n \in members \cup failing
  /\ n = 1 \/ 1 \in recorded
  /\ recorded' = recorded \cup {n}
  /\ UNCHANGED << members, created, failing >>

(* A fault of another node: it leaves or comes back, as it was or anew.    *)
FaultAt(n) ==
  /\ n # 1
  /\ failing' = failing \cup {n}
  /\ \/ members' \in {members, members \ {n}}
     \/ members \ {n} # {} /\ members' = members \cup {n}
  /\ recorded' \in {recorded, recorded \ {n}}
  /\ UNCHANGED created

NoPromise == 1 \in failing'

ClusterNext ==
  \/ Create \/ NoPromise
  \/ \E n \in Hosts : Join(n) \/ Leave(n) \/ Record(n) \/ FaultAt(n)

ClusterSpec == ClusterInit /\ [][ClusterNext]_clusterVars

=============================================================================
