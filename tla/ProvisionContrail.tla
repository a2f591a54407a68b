------------------------- MODULE ProvisionContrail -------------------------
(***************************************************************************)
(* Who is registered in the API server's database.  Every config node runs *)
(* class provision_contrail at the end of its config stage: scripts that   *)
(* register the control nodes, BGP peers, config, database and analytics   *)
(* nodes of the lists in hiera, the first two kinds under a marker file.   *)
(* A compute node registers its vrouter itself; a host that loses a role   *)
(* deregisters itself.  Agents of all hosts run concurrently, each with    *)
(* the lists its catalog was compiled from.                                *)
(*                                                                         *)
(* External: the API server and the scripts of contrail-utils.  An add of  *)
(* what is there succeeds.  Whether a delete of what is not there does is  *)
(* left open, but for provision_vrouter.py, which is in the repository.    *)
(***************************************************************************)
EXTENDS Naturals, Sequences, FiniteSets

CONSTANTS ConfigNodes,  \* config_ip_list
          First,        \* config_ip_list[0]
          Vip,          \* config_ip_to_use is a virtual address (else First)
          Entries,      \* <<kind, name>>: what may be in the lists of hiera
          Lists,        \* the contents the server manager may give them
          FirstLists,   \* the one it starts with
          MaxChanges,   \* bound: changes of the lists
          MaxFaults     \* bound: failures and kills

Chain == << "control", "bgp", "config", "database", "collector" >>

(* Mutant: provision-role-* look for the markers they write.               *)
GuardedAll == {"control", "bgp", "config", "database", "collector"}

Guarded == {"control", "bgp"}    \* exec-provision-control, provision-external-bgp

HostKinds == {"control", "config", "database", "collector", "compute"}

ASSUME ProvisionAssumption ==
  /\ First \in ConfigNodes
  /\ Vip \in BOOLEAN
  /\ Entries \subseteq (HostKinds \cup {"bgp"}) \X STRING
  /\ Lists \subseteq SUBSET Entries /\ FirstLists \in Lists
  /\ MaxChanges \in Nat /\ MaxFaults \in Nat

Hosted == { e \in Entries : e[1] # "bgp" }

VARIABLES
  lists,     \* the entries now in hiera
  serving,   \* config nodes whose API server runs
  at,        \* config node -> the step of Chain it is at, 0: none
  want,      \* config node -> the lists its catalog was compiled from
  left,      \* config node -> entries the script it is at has yet to register
  marked,    \* config node -> kinds marked in its contrail_config_exec.out
  covered,   \* history: entries registered, by a script, before its marker
  db,        \* entries in the API server's database
  gone,      \* history: entries ever deregistered
  present,   \* entries whose service runs on the host
  step,      \* entry -> what its host's agent does about it
  marks,     \* entry -> "add" and "del" markers on its host
  completed, \* compute entries whose last report is compute_completed
  cut,       \* history: removals cut off between deletion and clear_compute
  changes, faults

configs == << at, want, left, marked, covered >>
hosts   == << present, step, marks, completed, cut >>
vars    == << lists, serving, configs, db, gone, hosts, changes, faults >>

TypeOK ==
  /\ lists \in Lists
  /\ serving \subseteq ConfigNodes
  /\ at \in [ConfigNodes -> 0 .. 5]
  /\ want \in [ConfigNodes -> SUBSET Entries]
  /\ left \in [ConfigNodes -> SUBSET Entries]
  /\ marked \in [ConfigNodes -> SUBSET Guarded]
  /\ \A n \in ConfigNodes : left[n] \subseteq want[n] /\ (at[n] = 0 => want[n] = {})
  /\ covered \subseteq Entries /\ db \subseteq Entries /\ gone \subseteq Entries
  /\ present \subseteq Hosted
  /\ step \in [Hosted -> {"idle", "register", "mark_added", "serve", "deregister",
                          "mark_deleted", "stop", "clear"}]
  /\ marks \in [Hosted -> SUBSET {"add", "del"}]
  /\ completed \subseteq Hosted /\ cut \subseteq Hosted
  /\ changes \in 0 .. MaxChanges /\ faults \in 0 .. MaxFaults

(* No profile installs a database node: those there are were there before. *)
Init ==
  /\ lists = FirstLists /\ serving = {}
  /\ at = [n \in ConfigNodes |-> 0]
  /\ want = [n \in ConfigNodes |-> {}] /\ left = want
  /\ marked = [n \in ConfigNodes |-> {}] /\ covered = {}
  /\ db = {} /\ gone = {}
  /\ present = { e \in Hosted : e[1] = "database" }
  /\ step = [e \in Hosted |-> "idle"] /\ marks = [e \in Hosted |-> {}]
  /\ completed = {} /\ cut = {}
  /\ changes = 0 /\ faults = 0

Fault == faults < MaxFaults /\ faults' = faults + 1

ListsChange(l) ==
  /\ l # lists /\ changes < MaxChanges
  /\ lists' = l /\ changes' = changes + 1
  /\ UNCHANGED << serving, configs, db, gone, hosts, faults >>

-----------------------------------------------------------------------------
(* The config nodes.                                                       *)

ToUse == IF Vip THEN serving # {} ELSE First \in serving

(* provision_role.py talks to the first node of the list, the others to    *)
(* config_ip_to_use.                                                       *)
Answers(kind) ==
  IF kind \in {"config", "database", "collector"} THEN First \in serving ELSE ToUse

(* The entries of a script, none if its exec finds the marker.             *)
Todo(n, w, i) ==
  IF i = 0 \/ Chain[i] \in marked[n] THEN {} ELSE { e \in w : e[1] = Chain[i] }

(* The config stage has its services running before it provisions.         *)
StartRun(n) ==
  /\ at[n] = 0
  /\ serving' = serving \cup {n}
  /\ want' = [want EXCEPT ![n] = lists]
  /\ at' = [at EXCEPT ![n] = 1]
  /\ left' = [left EXCEPT ![n] = Todo(n, lists, 1)]
  /\ UNCHANGED << lists, marked, covered, db, gone, hosts, changes, faults >>

(* Mutant: a failing provision_control.py does not end the script.         *)
RegisterAnyway(n, e) ==
  /\ at[n] # 0 /\ e \in left[n]
  /\ db' = IF Answers(e[1]) THEN db \cup {e} ELSE db
  /\ left' = [left EXCEPT ![n] = left[n] \ {e}]
  /\ UNCHANGED << lists, serving, at, want, marked, covered, gone, hosts, changes, faults >>

Register(n, e) ==
  /\ at[n] # 0 /\ e \in left[n] /\ Answers(e[1])
  /\ db' = db \cup {e}
  /\ left' = [left EXCEPT ![n] = left[n] \ {e}]
  /\ UNCHANGED << lists, serving, at, want, marked, covered, gone, hosts, changes, faults >>

NextStep(i) == IF i = Len(Chain) THEN 0 ELSE i + 1

(* command && echo marker                                                  *)
ScriptEnds(n) ==
  /\ at[n] # 0 /\ left[n] = {}
  /\ LET k == Chain[at[n]]
     IN  IF k \in Guarded \ marked[n]
         THEN /\ marked' = [marked EXCEPT ![n] = marked[n] \cup {k}]
              /\ covered' = covered \cup { e \in want[n] : e[1] = k }
         ELSE UNCHANGED << marked, covered >>
  /\ at' = [at EXCEPT ![n] = NextStep(at[n])]
  /\ left' = [left EXCEPT ![n] = Todo(n, want[n], NextStep(at[n]))]
  /\ want' = [want EXCEPT ![n] = IF NextStep(at[n]) = 0 THEN {} ELSE want[n]]
  /\ UNCHANGED << lists, serving, db, gone, hosts, changes, faults >>

(* Mutant: a run that was cut off leaves its work to the next.             *)
RunEndsLater(n) ==
  /\ at' = [at EXCEPT ![n] = 0] /\ want' = [want EXCEPT ![n] = {}]
  /\ UNCHANGED << lists, serving, left, marked, covered, db, gone, hosts, changes >>

RunEnds(n) ==
  /\ at' = [at EXCEPT ![n] = 0]
  /\ want' = [want EXCEPT ![n] = {}] /\ left' = [left EXCEPT ![n] = {}]
  /\ UNCHANGED << lists, serving, marked, covered, db, gone, hosts, changes >>

(* A script exits at its first failure, and its dependents are skipped.    *)
ScriptFails(n) ==
  /\ \E e \in left[n] : ~Answers(e[1])
  /\ RunEnds(n) /\ UNCHANGED faults

RunKilled(n) == at[n] # 0 /\ Fault /\ RunEnds(n)

ApiDies(n) ==
  /\ n \in serving /\ Fault
  /\ serving' = serving \ {n}
  /\ UNCHANGED << lists, configs, db, gone, hosts, changes >>

ConfigAgent(n) ==
  \/ StartRun(n) \/ ScriptEnds(n) \/ ScriptFails(n)
  \/ \E e \in left[n] : Register(n, e)

-----------------------------------------------------------------------------
(* The hosts.                                                              *)

GoTo(e, s) == step' = [step EXCEPT ![e] = s]

Elsewhere == UNCHANGED << lists, serving, configs, changes, faults >>

(* The role's stage as a whole; the module ContrailRun has its steps.      *)
InstallRole(e) ==
  /\ e[1] \notin {"compute", "database"} /\ step[e] = "idle"
  /\ e \in lists /\ e \notin present
  /\ present' = present \cup {e}
  /\ UNCHANGED << step, marks, completed, cut, db, gone >> /\ Elsewhere

(* Mutant: the compute class does not look at the roles of the host.       *)
InstallComputeAnyway(e) ==
  /\ e[1] = "compute" /\ step[e] = "idle"
  /\ GoTo(e, "register")
  /\ UNCHANGED << present, marks, completed, cut, db, gone >> /\ Elsewhere

InstallCompute(e) ==
  /\ e[1] = "compute" /\ step[e] = "idle" /\ e \in lists
  /\ GoTo(e, "register")
  /\ UNCHANGED << present, marks, completed, cut, db, gone >> /\ Elsewhere

(* Mutant: the marker is written whether or not the script succeeds.       *)
AddVrouterOrNot(e) ==
  /\ step[e] = "register"
  /\ GoTo(e, IF "add" \in marks[e] THEN "serve" ELSE "mark_added")
  /\ db' = IF "add" \notin marks[e] /\ ToUse THEN db \cup {e} ELSE db
  /\ UNCHANGED << present, marks, completed, cut, gone >> /\ Elsewhere

AddVrouter(e) ==
  /\ step[e] = "register"
  /\ \/ "add" \in marks[e] /\ GoTo(e, "serve") /\ UNCHANGED db
     \/ /\ "add" \notin marks[e] /\ ToUse
        /\ GoTo(e, "mark_added") /\ db' = db \cup {e}
     \/ "add" \notin marks[e] /\ ~ToUse /\ GoTo(e, "idle") /\ UNCHANGED db
  /\ UNCHANGED << present, marks, completed, cut, gone >> /\ Elsewhere

MarkAdded(e) ==
  /\ step[e] = "mark_added"
  /\ marks' = [marks EXCEPT ![e] = marks[e] \cup {"add"}]
  /\ GoTo(e, "serve")
  /\ UNCHANGED << present, completed, cut, db, gone >> /\ Elsewhere

(* compute_completed                                                       *)
ServeVrouter(e) ==
  /\ step[e] = "serve"
  /\ present' = present \cup {e} /\ completed' = completed \cup {e}
  /\ GoTo(e, "idle")
  /\ UNCHANGED << marks, cut, db, gone >> /\ Elsewhere

UninstallRole(e) ==
  /\ step[e] = "idle" /\ e \notin lists /\ e \in present
  /\ completed' = completed \ {e}
  /\ GoTo(e, "deregister")
  /\ UNCHANGED << present, marks, cut, db, gone >> /\ Elsewhere

Deregister(e) ==
  /\ step[e] = "deregister"
  /\ \/ "del" \in marks[e] /\ GoTo(e, "stop") /\ UNCHANGED << db, gone >>
     \/ /\ "del" \notin marks[e] /\ ToUse
        /\ e[1] = "compute" => e \in db
        /\ db' = db \ {e} /\ gone' = gone \cup {e}
        /\ GoTo(e, "mark_deleted")
     \/ /\ "del" \notin marks[e] /\ (ToUse => e \notin db)
        /\ GoTo(e, "idle") /\ UNCHANGED << db, gone >>
  /\ UNCHANGED << present, marks, completed, cut >> /\ Elsewhere

(* The markers of the other roles' deletions are read by nobody.           *)
MarkDeleted(e) ==
  /\ step[e] = "mark_deleted"
  /\ marks' = IF e[1] \in {"control", "compute"}
              THEN [marks EXCEPT ![e] = marks[e] \cup {"del"}] ELSE marks
  /\ GoTo(e, "stop")
  /\ UNCHANGED << present, completed, cut, db, gone >> /\ Elsewhere

StopRole(e) ==
  /\ step[e] = "stop"
  /\ present' = present \ {e}
  /\ GoTo(e, IF e[1] = "compute" THEN "clear" ELSE "idle")
  /\ UNCHANGED << marks, completed, cut, db, gone >> /\ Elsewhere

(* Mutant: clear_compute removes the marker of the deletion only.          *)
ClearComputeHalf(e) ==
  /\ step[e] = "clear"
  /\ marks' = [marks EXCEPT ![e] = marks[e] \ {"del"}] /\ cut' = cut \ {e}
  /\ GoTo(e, "idle")
  /\ UNCHANGED << present, completed, db, gone >> /\ Elsewhere

ClearCompute(e) ==
  /\ step[e] = "clear"
  /\ marks' = [marks EXCEPT ![e] = {}] /\ cut' = cut \ {e}
  /\ GoTo(e, "idle")
  /\ UNCHANGED << present, completed, db, gone >> /\ Elsewhere

(* A resource of the chain fails, or the agent is killed.                  *)
RoleRunEnds(e) ==
  /\ step[e] # "idle" /\ Fault
  /\ GoTo(e, "idle")
  /\ cut' = IF step[e] \in {"mark_deleted", "stop", "clear"} THEN cut \cup {e} ELSE cut
  /\ UNCHANGED << lists, serving, configs, changes, present, marks, completed, db, gone >>

HostAgent(e) ==
  \/ InstallRole(e) \/ InstallCompute(e) \/ AddVrouter(e) \/ MarkAdded(e)
  \/ ServeVrouter(e) \/ UninstallRole(e) \/ Deregister(e) \/ MarkDeleted(e)
  \/ StopRole(e) \/ ClearCompute(e)

-----------------------------------------------------------------------------
Next ==
  \/ \E l \in Lists : ListsChange(l)
  \/ \E n \in ConfigNodes :
       \/ StartRun(n) \/ ScriptEnds(n) \/ ScriptFails(n) \/ RunKilled(n) \/ ApiDies(n)
       \/ \E e \in left[n] : Register(n, e)
  \/ \E e \in Hosted : HostAgent(e) \/ RoleRunEnds(e)

Spec == Init /\ [][Next]_vars

(* Every host's agent starts runs and goes on with them.                   *)
FairSpec ==
  /\ Spec
  /\ \A n \in ConfigNodes : WF_vars(ConfigAgent(n))
  /\ \A e \in Hosted : WF_vars(HostAgent(e))

-----------------------------------------------------------------------------
(* Properties.                                                             *)

(* What a marker of exec-provision-control or provision-external-bgp       *)
(* stands for, and no later run will redo, was registered, and is so still *)
(* unless its host deregistered it: no failure halfway is marked.          *)
MarkedMeansRegistered == covered \subseteq db \cup gone

(* A compute node that reported compute_completed has its vrouter in the   *)
(* database, also after the role was taken away and given back, unless a   *)
(* removal was cut off before clear_compute: the markers it leaves make    *)
(* the next installation skip add-vnc-config.                              *)
CompletedMeansRegistered == completed \subseteq db \cup cut

(* The kinds without a marker heal: whatever happened in between, the      *)
(* nodes listed in the end are in the database for good.                   *)
Unguarded == { e \in lists : e[1] \in {"config", "database", "collector"} }
ListedAreRegistered == <>[](Unguarded \subseteq db)

(* A role taken away is eventually gone from its host, or at least from    *)
(* the database: what keeps it is a deletion that was done but not marked. *)
UnlistedAreRemoved == <>[](\A e \in present \ lists : e \notin db)

(* A listed compute node eventually has its vrouter registered for good,   *)
(* unless a removal was cut off as above.                                  *)
VroutersAreRegistered ==
  <>[](\A e \in lists : e[1] = "compute" => e \in db \cup cut)

(* Why the first two hold.                                                 *)
ScriptCovers ==
  \A n \in ConfigNodes :
    at[n] # 0 /\ Chain[at[n]] \in Guarded \ marked[n] =>
      { e \in want[n] : e[1] = Chain[at[n]] } \subseteq left[n] \cup db \cup gone

MarkersAgree ==
  \A e \in Hosted :
    e[1] = "compute" /\ e \notin cut =>
      /\ "add" \in marks[e] => e \in db \/ step[e] \in {"mark_deleted", "stop", "clear"}
      /\ step[e] \in {"mark_added", "serve"} \/ e \in completed => e \in db

OnlyComputes ==
  /\ \A e \in completed : e[1] = "compute"
  /\ \A e \in Hosted : step[e] \in {"register", "mark_added", "serve", "clear"} => e[1] = "compute"
  /\ \A e \in completed : step[e] \notin {"deregister", "mark_deleted", "stop", "clear"}

IInv == TypeOK /\ MarkedMeansRegistered /\ ScriptCovers /\ MarkersAgree /\ OnlyComputes

(* provision_contrail.pp:3 "This class is used to perform several          *)
(* provisioning tasks needed for contrail such as provision control node": *)
(* the control nodes listed in the end are registered in the end.          *)
ControlsAreRegistered == <>[](\A e \in lists : e[1] = "control" => e \in db)

=============================================================================
