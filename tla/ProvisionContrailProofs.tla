---------------------- MODULE ProvisionContrailProofs ----------------------
(***************************************************************************)
(* Proofs about ProvisionContrail, for every number of config nodes and    *)
(* hosts, every list the server manager may write, and any bounds: its     *)
(* type invariant, and that markers mean what later runs take them for.    *)
(***************************************************************************)
EXTENDS ProvisionContrail, TLAPS

LEMMA ChainLength == Len(Chain) = 5 /\ DOMAIN Chain = 1 .. 5
BY DEF Chain

LEMMA NextStepInRange ==
  ASSUME NEW i \in 1 .. 5
  PROVE  NextStep(i) \in 0 .. 5
BY ChainLength DEF NextStep

LEMMA TodoInLists ==
  ASSUME NEW n, NEW w, NEW i
  PROVE  Todo(n, w, i) \subseteq w
BY DEF Todo

(* The lists of hiera hold entries only.                                   *)
LEMMA ListsInEntries ==
  ASSUME TypeOK
  PROVE  lists \subseteq Entries
BY ProvisionAssumption DEF TypeOK

LEMMA TypeInit == Init => TypeOK
BY ProvisionAssumption DEF Init, TypeOK, Hosted

LEMMA ConfigType ==
  ASSUME TypeOK, NEW n \in ConfigNodes,
         StartRun(n) \/ ScriptEnds(n) \/ ScriptFails(n) \/ RunKilled(n) \/ ApiDies(n)
           \/ \E e \in left[n] : Register(n, e)
  PROVE  TypeOK'
<1> USE ProvisionAssumption
<1>1. CASE StartRun(n)
  <2>1. lists \subseteq Entries BY ListsInEntries
  <2>2. Todo(n, lists, 1) \subseteq lists BY TodoInLists
  <2> QED BY <1>1, <2>1, <2>2 DEF StartRun, TypeOK, hosts
<1>2. CASE ScriptEnds(n)
  <2>1. NextStep(at[n]) \in 0 .. 5
    BY <1>2, NextStepInRange DEF ScriptEnds, TypeOK
  <2>2. Todo(n, want[n], NextStep(at[n])) \subseteq want[n] BY TodoInLists
  <2>3. NextStep(at[n]) = 0 => Todo(n, want[n], NextStep(at[n])) = {} BY DEF Todo
  <2>4. marked' \in [ConfigNodes -> SUBSET Guarded] /\ covered' \subseteq Entries
    BY <1>2 DEF ScriptEnds, TypeOK
  <2>5. at' \in [ConfigNodes -> 0 .. 5] /\ want' \in [ConfigNodes -> SUBSET Entries]
    BY <1>2, <2>1 DEF ScriptEnds, TypeOK
  <2>6. left' \in [ConfigNodes -> SUBSET Entries]
    BY <1>2, <2>2 DEF ScriptEnds, TypeOK
  <2>7. \A m \in ConfigNodes : left'[m] \subseteq want'[m] /\ (at'[m] = 0 => want'[m] = {})
    BY <1>2, <2>1, <2>2, <2>3 DEF ScriptEnds, TypeOK
  <2> QED BY <1>2, <2>4, <2>5, <2>6, <2>7 DEF ScriptEnds, TypeOK, hosts
<1>3. CASE ScriptFails(n) \/ RunKilled(n)
  BY <1>3 DEF ScriptFails, RunKilled, RunEnds, Fault, TypeOK, hosts
<1>4. CASE ApiDies(n)
  BY <1>4 DEF ApiDies, Fault, TypeOK, configs, hosts
<1>5. CASE \E e \in left[n] : Register(n, e)
  BY <1>5 DEF Register, TypeOK, hosts
<1> QED BY <1>1, <1>2, <1>3, <1>4, <1>5

LEMMA HostType ==
  ASSUME TypeOK, NEW e \in Hosted, HostAgent(e) \/ RoleRunEnds(e)
  PROVE  TypeOK'
<1> e \in Entries BY DEF Hosted
<1> USE ProvisionAssumption DEF TypeOK, GoTo, Elsewhere, configs
<1>1. CASE InstallRole(e) BY <1>1 DEF InstallRole
<1>2. CASE InstallCompute(e) BY <1>2 DEF InstallCompute
<1>3. CASE AddVrouter(e) BY <1>3 DEF AddVrouter
<1>4. CASE MarkAdded(e) BY <1>4 DEF MarkAdded
<1>5. CASE ServeVrouter(e) BY <1>5 DEF ServeVrouter
<1>6. CASE UninstallRole(e) BY <1>6 DEF UninstallRole
<1>7. CASE Deregister(e) BY <1>7 DEF Deregister
<1>8. CASE MarkDeleted(e) BY <1>8 DEF MarkDeleted
<1>9. CASE StopRole(e) BY <1>9 DEF StopRole
<1>10. CASE ClearCompute(e) BY <1>10 DEF ClearCompute
<1>11. CASE RoleRunEnds(e) BY <1>11 DEF RoleRunEnds, Fault
<1> QED BY <1>1, <1>2, <1>3, <1>4, <1>5, <1>6, <1>7, <1>8, <1>9, <1>10, <1>11
        DEF HostAgent

LEMMA TypeNext == TypeOK /\ [Next]_vars => TypeOK'
<1> SUFFICES ASSUME TypeOK, [Next]_vars PROVE TypeOK' OBVIOUS
<1>1. CASE \E l \in Lists : ListsChange(l)
  BY <1>1, ProvisionAssumption DEF ListsChange, TypeOK, configs, hosts
<1>2. CASE UNCHANGED vars
  BY <1>2 DEF vars, configs, hosts, TypeOK
<1> QED BY <1>1, <1>2, ConfigType, HostType DEF Next

(* Every variable keeps its range, whatever the lists and the bounds are.  *)
THEOREM TypeCorrect == Spec => []TypeOK
BY TypeInit, TypeNext, PTL DEF Spec

-----------------------------------------------------------------------------
(* Markers of the config nodes.                                            *)

Covers == MarkedMeansRegistered /\ ScriptCovers

(* Entries leave the database by a deletion only.                          *)
LEMMA CoversElsewhere ==
  ASSUME TypeOK, Covers, UNCHANGED configs, db \cup gone \subseteq db' \cup gone'
  PROVE  Covers'
BY DEF Covers, MarkedMeansRegistered, ScriptCovers, configs

LEMMA ConfigCovers ==
  ASSUME TypeOK, Covers, NEW n \in ConfigNodes,
         StartRun(n) \/ ScriptEnds(n) \/ ScriptFails(n) \/ RunKilled(n) \/ ApiDies(n)
           \/ \E e \in left[n] : Register(n, e)
  PROVE  Covers'
<1>1. CASE StartRun(n)
  <2>1. MarkedMeansRegistered'
    BY <1>1 DEF StartRun, Covers, MarkedMeansRegistered
  <2>2. ScriptCovers'
    <3> SUFFICES ASSUME NEW m \in ConfigNodes, at'[m] # 0,
                        Chain[at'[m]] \in Guarded \ marked'[m]
                 PROVE  { e \in want'[m] : e[1] = Chain[at'[m]] }
                          \subseteq left'[m] \cup db' \cup gone'
      BY DEF ScriptCovers
    <3>1. CASE m = n
      <4>1. left'[n] = Todo(n, lists, 1) /\ want'[n] = lists /\ at'[n] = 1 /\ marked' = marked
        BY <1>1 DEF StartRun, TypeOK
      <4> QED BY <3>1, <4>1 DEF Todo
    <3>2. CASE m # n
      BY <1>1, <3>2 DEF StartRun, TypeOK, Covers, ScriptCovers
    <3> QED BY <3>1, <3>2
  <2> QED BY <2>1, <2>2 DEF Covers
<1>2. CASE ScriptEnds(n)
  <2>1. MarkedMeansRegistered'
    BY <1>2 DEF ScriptEnds, Covers, MarkedMeansRegistered, ScriptCovers
  <2>2. ScriptCovers'
    <3> SUFFICES ASSUME NEW m \in ConfigNodes, at'[m] # 0,
                        Chain[at'[m]] \in Guarded \ marked'[m]
                 PROVE  { e \in want'[m] : e[1] = Chain[at'[m]] }
                          \subseteq left'[m] \cup db' \cup gone'
      BY DEF ScriptCovers
    <3>1. CASE m = n
      <4>1. /\ at'[n] = NextStep(at[n])
            /\ left'[n] = Todo(n, want[n], at'[n])
            /\ want'[n] = want[n]
            /\ marked[n] \subseteq marked'[n]
        BY <1>2, <3>1 DEF ScriptEnds, TypeOK
      <4> QED BY <3>1, <4>1 DEF Todo
    <3>2. CASE m # n
      <4>1. at'[m] = at[m] /\ left'[m] = left[m] /\ want'[m] = want[m] /\ marked'[m] = marked[m]
        BY <1>2, <3>2 DEF ScriptEnds, TypeOK
      <4> QED BY <1>2, <4>1 DEF ScriptEnds, Covers, ScriptCovers
    <3> QED BY <3>1, <3>2
  <2> QED BY <2>1, <2>2 DEF Covers
<1>3. CASE ScriptFails(n) \/ RunKilled(n)
  BY <1>3 DEF ScriptFails, RunKilled, RunEnds, TypeOK, Covers, MarkedMeansRegistered,
              ScriptCovers
<1>4. CASE ApiDies(n)
  BY <1>4, CoversElsewhere DEF ApiDies
<1>5. CASE \E e \in left[n] : Register(n, e)
  BY <1>5 DEF Register, TypeOK, Covers, MarkedMeansRegistered, ScriptCovers
<1> QED BY <1>1, <1>2, <1>3, <1>4, <1>5

LEMMA CoversNext == TypeOK /\ Covers /\ [Next]_vars => Covers'
<1> SUFFICES ASSUME TypeOK, Covers, [Next]_vars PROVE Covers' OBVIOUS
<1>1. CASE \E l \in Lists : ListsChange(l)
  BY <1>1, CoversElsewhere DEF ListsChange
<1>2. CASE \E e \in Hosted : HostAgent(e) \/ RoleRunEnds(e)
  <2> PICK e \in Hosted : HostAgent(e) \/ RoleRunEnds(e) BY <1>2
  <2>1. UNCHANGED configs /\ db \cup gone \subseteq db' \cup gone'
    BY DEF HostAgent, RoleRunEnds, InstallRole, InstallCompute, AddVrouter, MarkAdded,
           ServeVrouter, UninstallRole, Deregister, MarkDeleted, StopRole, ClearCompute,
           Elsewhere
  <2> QED BY <2>1, CoversElsewhere
<1>3. CASE UNCHANGED vars
  BY <1>3, CoversElsewhere DEF vars
<1> QED BY <1>1, <1>2, <1>3, ConfigCovers DEF Next

LEMMA CoversInit == Init => Covers
BY DEF Init, Covers, MarkedMeansRegistered, ScriptCovers

(* Whatever fails and wherever a run is cut off, a marker on a config node *)
(* stands for registrations that were all made.                            *)
THEOREM MarkedMeansRegisteredHolds == Spec => []MarkedMeansRegistered
<1>1. Covers => MarkedMeansRegistered BY DEF Covers
<1> QED BY <1>1, TypeCorrect, TypeNext, TypeInit, CoversInit, CoversNext, PTL DEF Spec

-----------------------------------------------------------------------------
(* Markers of the compute nodes.                                           *)

Agree == MarkersAgree /\ OnlyComputes

LEMMA AgreeElsewhere ==
  ASSUME TypeOK, Agree, UNCHANGED hosts, db \subseteq db'
  PROVE  Agree'
BY DEF Agree, MarkersAgree, OnlyComputes, hosts

LEMMA HostAgrees ==
  ASSUME TypeOK, Agree, NEW e \in Hosted, HostAgent(e) \/ RoleRunEnds(e)
  PROVE  Agree'
<1> USE DEF TypeOK, GoTo, Agree, MarkersAgree, OnlyComputes
<1>1. CASE InstallRole(e) BY <1>1 DEF InstallRole
<1>2. CASE InstallCompute(e) BY <1>2 DEF InstallCompute
<1>3. CASE AddVrouter(e) BY <1>3 DEF AddVrouter
<1>4. CASE MarkAdded(e) BY <1>4 DEF MarkAdded
<1>5. CASE ServeVrouter(e) BY <1>5 DEF ServeVrouter
<1>6. CASE UninstallRole(e) BY <1>6 DEF UninstallRole
<1>7. CASE Deregister(e) BY <1>7 DEF Deregister
<1>8. CASE MarkDeleted(e) BY <1>8 DEF MarkDeleted
<1>9. CASE StopRole(e) BY <1>9 DEF StopRole
<1>10. CASE ClearCompute(e) BY <1>10 DEF ClearCompute
<1>11. CASE RoleRunEnds(e) BY <1>11 DEF RoleRunEnds
<1> QED BY <1>1, <1>2, <1>3, <1>4, <1>5, <1>6, <1>7, <1>8, <1>9, <1>10, <1>11
        DEF HostAgent

LEMMA AgreeNext == TypeOK /\ Agree /\ [Next]_vars => Agree'
<1> SUFFICES ASSUME TypeOK, Agree, [Next]_vars PROVE Agree' OBVIOUS
<1>1. CASE \E l \in Lists : ListsChange(l)
  BY <1>1, AgreeElsewhere DEF ListsChange
<1>2. CASE \E n \in ConfigNodes :
             \/ StartRun(n) \/ ScriptEnds(n) \/ ScriptFails(n) \/ RunKilled(n) \/ ApiDies(n)
             \/ \E e \in left[n] : Register(n, e)
  <2>1. UNCHANGED hosts /\ db \subseteq db'
    BY <1>2 DEF StartRun, ScriptEnds, ScriptFails, RunKilled, RunEnds, ApiDies, Register
  <2> QED BY <2>1, AgreeElsewhere
<1>3. CASE UNCHANGED vars
  BY <1>3, AgreeElsewhere DEF vars
<1> QED BY <1>1, <1>2, <1>3, HostAgrees DEF Next

LEMMA AgreeInit == Init => Agree
BY DEF Init, Agree, MarkersAgree, OnlyComputes

(* A compute node that reported compute_completed is registered, however   *)
(* often the role came and went, unless a removal was cut off.             *)
THEOREM CompletedMeansRegisteredHolds == Spec => []CompletedMeansRegistered
<1>1. TypeOK /\ Agree => CompletedMeansRegistered
  BY DEF TypeOK, Agree, MarkersAgree, OnlyComputes, CompletedMeansRegistered
<1> QED BY <1>1, TypeCorrect, TypeInit, TypeNext, AgreeInit, AgreeNext, PTL DEF Spec

=============================================================================
