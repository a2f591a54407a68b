--------------------------- MODULE HaConfigProofs ---------------------------
(***************************************************************************)
(* Proofs about HaConfig, for any number of nodes and of faults.           *)
(***************************************************************************)
EXTENDS HaConfig, TLAPS

(* Where each resource stands in the manifest.                             *)
LEMMA Manifest ==
  ASSUME NEW n, NEW s, At(n, s)
  PROVE  /\ pc[n] \in 1 .. 10 /\ s \in Steps
         /\ s = "ssh" <=> pc[n] = 1
         /\ s = "check_os_master" <=> pc[n] = 2
         /\ s = "galera_stop" <=> pc[n] = 3
         /\ s = "galera_start" <=> pc[n] = 4
         /\ s = "galera_mark" <=> pc[n] = 5
         /\ s = "pre_completed" <=> pc[n] = 6
         /\ s = "nfs" <=> pc[n] = 7
         /\ s = "cmon" <=> pc[n] = 8
         /\ s = "transfer" <=> pc[n] = 9
         /\ s = "post_completed" <=> pc[n] = 10
BY DEF At, Resources, Steps

LEMMA OverIs == Over = 11
BY DEF Over, Resources

-----------------------------------------------------------------------------
(* Type correctness.                                                       *)

LEMMA HaTypeInit == HaInit => HaTypeOK
BY HaAssumption, OverIs DEF HaInit, ClusterInit, HaTypeOK

(* A node goes on to its next resource.                                    *)
LEMMA GoesOn ==
  ASSUME HaTypeOK, NEW n \in Hosts, NEW s, At(n, s), Passes(n) \/ Fails(n, s)
  PROVE  /\ pc' = [pc EXCEPT ![n] = pc[n] + 1]
         /\ pc' \in [Hosts -> 0 .. Over] /\ failed' \in [Hosts -> SUBSET Steps]
BY Manifest, OverIs DEF Passes, Fails, HaTypeOK

LEMMA RunTypes ==
  ASSUME HaTypeOK, NEW n \in Hosts, Run(n)
  PROVE  HaTypeOK'
<1>1. 1 \in Hosts
  BY HaAssumption
<1>2. CASE StartRun(n)
  BY <1>2, OverIs DEF StartRun, clusterVars, HaTypeOK
<1>3. CASE NotApplied(n)
  BY <1>3, GoesOn DEF NotApplied, clusterVars, HaTypeOK
<1>4. CASE PasswordlessSsh(n)
  BY <1>4, GoesOn DEF PasswordlessSsh, Applies, clusterVars, HaTypeOK
<1>5. CASE CheckOsMaster(n)
  BY <1>5, GoesOn DEF CheckOsMaster, Applies, clusterVars, HaTypeOK
<1>6. CASE GaleraStop(n)
  BY <1>6, GoesOn DEF GaleraStop, Leave, Applies, HaTypeOK
<1>7. CASE GaleraStart(n)
  <2>1. pc' \in [Hosts -> 0 .. Over] /\ failed' \in [Hosts -> SUBSET Steps]
    BY <1>7, GoesOn DEF GaleraStart, Applies
  <2>2. members' \subseteq Hosts /\ created' \in 0 .. 1 /\ UNCHANGED << recorded, failing >>
    BY <1>1, <1>7 DEF GaleraStart, Create, JoinsDatabase, Join, clusterVars, HaTypeOK
  <2>3. granted' \in [Hosts -> SUBSET {"nodes", "vip"}]
    BY <1>7 DEF GaleraStart, JoinsDatabase, Join, HaTypeOK
  <2> QED
    BY <1>7, <2>1, <2>2, <2>3 DEF GaleraStart, Applies, HaTypeOK
<1>8. CASE GaleraMark(n) \/ Report(n)
  BY <1>8, GoesOn DEF GaleraMark, Report, Applies, clusterVars, HaTypeOK
<1>9. CASE ShareImages(n)
  BY <1>9, GoesOn DEF ShareImages, Applies, clusterVars, HaTypeOK
<1>10. CASE SetupCmonSchema(n)
  <2>1. pc' \in [Hosts -> 0 .. Over] /\ failed' \in [Hosts -> SUBSET Steps]
    BY <1>10, GoesOn DEF SetupCmonSchema, Applies
  <2>2. granted' \in [Hosts -> SUBSET {"nodes", "vip"}]
    BY <1>10 DEF SetupCmonSchema, Rights, HaTypeOK
  <2> QED
    BY <1>10, <2>1, <2>2 DEF SetupCmonSchema, Applies, clusterVars, HaTypeOK
<1>11. CASE TransferKeys(n)
  BY <1>1, <1>11, GoesOn DEF TransferKeys, Applies, clusterVars, HaTypeOK
<1> QED
  BY <1>2, <1>3, <1>4, <1>5, <1>6, <1>7, <1>8, <1>9, <1>10, <1>11 DEF Run

LEMMA FaultTypes ==
  ASSUME HaTypeOK, NEW n \in Hosts, ConnectionFails(n) \/ AgentStops(n) \/ Reinstalled(n)
  PROVE  HaTypeOK'
<1>1. faults' \in 0 .. MaxFaults
  BY HaAssumption DEF ConnectionFails, AgentStops, Reinstalled, Fault, HaTypeOK
<1>2. CASE ConnectionFails(n)
  BY <1>1, <1>2, GoesOn DEF ConnectionFails, clusterVars, HaTypeOK
<1>3. CASE AgentStops(n)
  BY <1>1, <1>3, OverIs DEF AgentStops, FaultAt, HaTypeOK
<1>4. CASE Reinstalled(n)
  BY <1>1, <1>4, OverIs DEF Reinstalled, HaTypeOK
<1> QED
  BY <1>2, <1>3, <1>4

LEMMA HaTypeStep == HaTypeOK /\ [HaNext]_haVars => HaTypeOK'
BY RunTypes, FaultTypes DEF HaNext, haVars, HaTypeOK

(* What the nodes have and where their agents are stays of its type, and   *)
(* created counts to one.                                                  *)
THEOREM HaTypeCorrect == HaSpec => []HaTypeOK
BY HaTypeInit, HaTypeStep, PTL DEF HaSpec

-----------------------------------------------------------------------------
(* The promise of GaleraCluster.                                           *)

(* No fault hits the first node, so what it has done stays done: its       *)
(* keystone is there, its cluster, and its marker once a node has seen it. *)
FirstSteady ==
  /\ 1 \notin failing
  /\ created = 0 => members = {}
  /\ pc[1] # 0 \/ 1 \in recorded => certs[1] # 0
  /\ seen # {} => 1 \in recorded

(* What the arrows of the first half hand on: a resource that has not      *)
(* failed when the next comes was applied, after all before it.            *)
HandedOn ==
  \A n \in Hosts :
    /\ pc[n] = 3 => "check_os_master" \in failed[n] \/ n = 1 \/ 1 \in recorded
    /\ pc[n] = 4 => "galera_stop" \in failed[n] \/ n = 1 \/ 1 \in recorded
    /\ pc[n] = 5 => \/ "galera_start" \in failed[n]
                    \/ (n = 1 \/ 1 \in recorded) /\ n \in members \cup failing

HaInv == FirstSteady /\ HandedOn

LEMMA HaInvInit == HaInit => HaInv
BY HaAssumption DEF HaInit, ClusterInit, HaInv, FirstSteady, HandedOn

(* A node's run touches no other's agent, mysqld or certificates, and      *)
(* takes nothing away from it.                                             *)
LEMMA RunIsLocal ==
  ASSUME HaTypeOK, HaInv, NEW n \in Hosts, Run(n)
  PROVE  /\ UNCHANGED << failing, faults >>
         /\ recorded \subseteq recorded' /\ authorized \subseteq authorized'
         /\ shared \subseteq shared'
         /\ \A m \in Hosts \ {n} :
              /\ pc'[m] = pc[m] /\ failed'[m] = failed[m] /\ certs'[m] = certs[m]
              /\ m \in members => m \in members'
              /\ granted[m] \subseteq granted'[m]
<1>1. UNCHANGED << failing, faults >>
  BY DEF Run, StartRun, NotApplied, PasswordlessSsh, CheckOsMaster, GaleraStop, GaleraStart,
         GaleraMark, Report, ShareImages, SetupCmonSchema,
         TransferKeys, Applies, clusterVars, Leave, Create, JoinsDatabase, Join
<1>2. recorded \subseteq recorded' /\ authorized \subseteq authorized' /\ shared \subseteq shared'
  BY DEF Run, StartRun, NotApplied, PasswordlessSsh, CheckOsMaster, GaleraStop, GaleraStart,
         GaleraMark, Report, ShareImages, SetupCmonSchema,
         TransferKeys, Applies, clusterVars, Leave, Create, JoinsDatabase, Join
<1>3. \A m \in Hosts \ {n} : pc'[m] = pc[m] /\ failed'[m] = failed[m]
  BY DEF Run, StartRun, NotApplied, PasswordlessSsh, CheckOsMaster, GaleraStop, GaleraStart,
         GaleraMark, Report, ShareImages, SetupCmonSchema,
         TransferKeys, Passes, Fails, HaTypeOK
<1>4. \A m \in Hosts \ {n} : certs'[m] = certs[m]
  BY DEF Run, StartRun, NotApplied, PasswordlessSsh, CheckOsMaster, GaleraStop, GaleraStart,
         GaleraMark, Report, ShareImages, SetupCmonSchema,
         TransferKeys, HaTypeOK
<1>5. \A m \in Hosts \ {n} : m \in members => m \in members'
  BY DEF Run, StartRun, NotApplied, PasswordlessSsh, CheckOsMaster, GaleraStop, GaleraStart,
         GaleraMark, Report, ShareImages, SetupCmonSchema,
         TransferKeys, clusterVars, Leave, Create, JoinsDatabase, Join, HaInv, FirstSteady
<1>6. \A m \in Hosts \ {n} : granted[m] \subseteq granted'[m]
  <2>1. CASE SetupCmonSchema(n)
    BY <2>1 DEF SetupCmonSchema, HaTypeOK
  <2>2. CASE GaleraStart(n)
    BY <2>2 DEF GaleraStart, JoinsDatabase, HaTypeOK
  <2> QED
    BY <2>1, <2>2
       DEF Run, StartRun, NotApplied, PasswordlessSsh, CheckOsMaster, GaleraStop,
           GaleraMark, Report, ShareImages, TransferKeys
<1> QED
  BY <1>1, <1>2, <1>3, <1>4, <1>5, <1>6

(* What every run does to the first node's certificates and its cluster.   *)
LEMMA RunKeepsFirst ==
  ASSUME HaTypeOK, HaInv, NEW n \in Hosts, Run(n)
  PROVE  FirstSteady'
<1>1. 1 \in Hosts
  BY HaAssumption
<1>2. UNCHANGED failing /\ recorded \subseteq recorded'
  BY RunIsLocal
<1>3. (created = 0 => members = {})'
  BY DEF Run, StartRun, NotApplied, PasswordlessSsh, CheckOsMaster, GaleraStop, GaleraStart,
         GaleraMark, Report, ShareImages, SetupCmonSchema,
         TransferKeys, Applies, clusterVars, Leave, Create, JoinsDatabase, Join,
         HaInv, FirstSteady
<1>4. certs[1] # 0 => certs'[1] # 0
  BY <1>1 DEF Run, StartRun, NotApplied, PasswordlessSsh, CheckOsMaster, GaleraStop,
         GaleraStart, GaleraMark, Report, ShareImages,
         SetupCmonSchema, TransferKeys, HaTypeOK
<1>5. pc'[1] # 0 \/ 1 \in recorded' => certs'[1] # 0
  <2>1. CASE n # 1
    <3>1. 1 \in recorded' => 1 \in recorded
      BY <2>1 DEF Run, StartRun, NotApplied, PasswordlessSsh, CheckOsMaster, GaleraStop,
         GaleraStart, GaleraMark, Report, ShareImages,
         SetupCmonSchema, TransferKeys, clusterVars, Leave, Create, JoinsDatabase, Join
    <3> QED
      BY <1>1, <1>4, <2>1, <3>1, RunIsLocal DEF HaInv, FirstSteady
  <2>2. CASE n = 1 /\ StartRun(1)
    BY <1>1, <2>2, HaAssumption DEF StartRun, HaTypeOK
  <2>3. CASE n = 1 /\ ~StartRun(1)
    <3>1. pc[1] # 0
      BY <2>3, Manifest
         DEF Run, NotApplied, PasswordlessSsh, CheckOsMaster, GaleraStop, GaleraStart,
             GaleraMark, Report, ShareImages, SetupCmonSchema,
             TransferKeys, Applies
    <3> QED
      BY <1>4, <3>1 DEF HaInv, FirstSteady
  <2> QED
    BY <2>1, <2>2, <2>3
<1>6. seen' # {} => 1 \in recorded'
  <2>1. CASE CheckOsMaster(n)
    BY <1>2, <2>1 DEF CheckOsMaster, HaInv, FirstSteady
  <2>2. CASE ~CheckOsMaster(n)
    BY <1>2, <2>2 DEF Run, StartRun, NotApplied, PasswordlessSsh, GaleraStop, GaleraStart,
         GaleraMark, Report, ShareImages, SetupCmonSchema,
         TransferKeys, HaInv, FirstSteady
  <2> QED
    BY <2>1, <2>2
<1> QED
  BY <1>2, <1>3, <1>5, <1>6 DEF HaInv, FirstSteady

LEMMA RunHandsOn ==
  ASSUME HaTypeOK, HaInv, NEW n \in Hosts, Run(n)
  PROVE  HandedOn'
<1> DEFINE Hands(m) ==
      /\ pc[m] = 3 => "check_os_master" \in failed[m] \/ m = 1 \/ 1 \in recorded
      /\ pc[m] = 4 => "galera_stop" \in failed[m] \/ m = 1 \/ 1 \in recorded
      /\ pc[m] = 5 => \/ "galera_start" \in failed[m]
                      \/ (m = 1 \/ 1 \in recorded) /\ m \in members \cup failing
<1>1. ASSUME NEW m \in Hosts \ {n} PROVE Hands(m)'
  BY RunIsLocal DEF HaInv, HandedOn
<1>2. Hands(n)'
  <2>1. CASE StartRun(n)
    BY <2>1 DEF StartRun, HaTypeOK
  <2>2. CASE NotApplied(n)
    <3>1. PICK s \in Steps : /\ At(n, s)
                             /\ Fails(n, s)
      BY <2>2 DEF NotApplied
    <3> QED
      BY <3>1, Manifest DEF Fails, HaTypeOK
  <2>3. CASE CheckOsMaster(n)
    BY <2>3, Manifest
       DEF CheckOsMaster, Applies, Passes, Fails, HaInv, FirstSteady, HaTypeOK, clusterVars
  <2>4. CASE GaleraStop(n)
    <3>1. pc[n] = 3 /\ "check_os_master" \notin failed[n]
      BY <2>4, Manifest DEF GaleraStop, Applies, Requires
    <3> QED
      BY <2>4, <3>1 DEF GaleraStop, Leave, Passes, HaInv, HandedOn, HaTypeOK
  <2>5. CASE GaleraStart(n)
    <3>1. pc[n] = 4 /\ "galera_stop" \notin failed[n]
      BY <2>5, Manifest DEF GaleraStart, Applies, Requires
    <3>2. pc'[n] = 5 /\ ("galera_start" \notin failed'[n] => n \in members')
      BY <2>5, <3>1
         DEF GaleraStart, Create, JoinsDatabase, Join, Passes, Fails, HaTypeOK
    <3> QED
      BY <2>5, <3>1, <3>2, RunIsLocal DEF HaInv, HandedOn
  <2>6. CASE pc'[n] = pc[n] + 1 /\ pc[n] \in {1, 5, 6, 7, 8, 9, 10}
    BY <2>6
  <2> QED
    BY <2>1, <2>2, <2>3, <2>4, <2>5, <2>6, Manifest
       DEF Run, PasswordlessSsh, GaleraMark, Report, ShareImages,
           SetupCmonSchema, TransferKeys, Applies, Passes, Fails, HaTypeOK
<1> QED
  BY <1>1, <1>2 DEF HandedOn

(* A fault is not the first node's, except for a connection that fails,    *)
(* and those are not connections of the cluster creation itself.           *)
LEMMA FaultKeepsInv ==
  ASSUME HaTypeOK, HaInv, NEW n \in Hosts,
         ConnectionFails(n) \/ AgentStops(n) \/ Reinstalled(n)
  PROVE  HaInv'
<1>1. CASE ConnectionFails(n)
  <2>1. PICK s \in {"ssh", "check_os_master", "nfs", "transfer"} :
          At(n, s) /\ (Fails(n, s) \/ (s = "transfer" /\ Passes(n)))
    BY <1>1 DEF ConnectionFails
  <2>2. UNCHANGED << members, recorded, created, failing, seen, certs >>
    BY <1>1 DEF ConnectionFails, clusterVars
  <2>3. pc[n] \in {1, 2, 7, 9} /\ pc' = [pc EXCEPT ![n] = pc[n] + 1]
    BY <2>1, GoesOn, Manifest
  <2>4. /\ \A m \in Hosts \ {n} : pc'[m] = pc[m] /\ failed'[m] = failed[m]
        /\ pc'[n] = pc[n] + 1
        /\ pc[n] = 2 => "check_os_master" \in failed'[n]
    BY <2>1, <2>3, Manifest DEF Passes, Fails, HaTypeOK
  <2>5. FirstSteady'
    BY <2>2, <2>3, <2>4, HaAssumption DEF HaInv, FirstSteady
  <2>6. HandedOn'
    BY <2>2, <2>3, <2>4 DEF HaInv, HandedOn
  <2> QED
    BY <2>5, <2>6 DEF HaInv
<1>2. CASE AgentStops(n)
  <2>1. /\ n # 1 /\ failing' = failing \cup {n} /\ UNCHANGED << recorded, created, seen, certs >>
        /\ members' \in {members, members \ {n}} \/ (members # {} /\ members' = members \cup {n})
    BY <1>2 DEF AgentStops, FaultAt
  <2>2. pc' = [pc EXCEPT ![n] = 11] /\ \A m \in Hosts \ {n} : failed'[m] = failed[m]
    BY <1>2, OverIs DEF AgentStops, HaTypeOK
  <2>3. FirstSteady'
    BY <2>1, <2>2, HaAssumption DEF HaInv, FirstSteady, HaTypeOK
  <2>4. HandedOn'
    BY <2>1, <2>2 DEF HaInv, HandedOn, HaTypeOK
  <2> QED
    BY <2>3, <2>4 DEF HaInv
<1>3. CASE Reinstalled(n)
  <2>1. n # 1
    BY <1>3, HaAssumption DEF Reinstalled
  <2>2. FirstSteady'
    BY <1>3, <2>1, HaAssumption DEF Reinstalled, HaInv, FirstSteady, HaTypeOK
  <2>3. HandedOn'
    BY <1>3, <2>1 DEF Reinstalled, HaInv, HandedOn, HaTypeOK
  <2> QED
    BY <2>2, <2>3 DEF HaInv
<1> QED
  BY <1>1, <1>2, <1>3

LEMMA HaInvStep == HaTypeOK /\ HaInv /\ [HaNext]_haVars => HaInv'
<1> SUFFICES ASSUME HaTypeOK, HaInv, [HaNext]_haVars PROVE HaInv'
  OBVIOUS
<1>1. ASSUME NEW n \in Hosts, Run(n) PROVE HaInv'
  BY <1>1, RunKeepsFirst, RunHandsOn DEF HaInv
<1>2. CASE UNCHANGED haVars
  BY <1>2 DEF haVars, HaInv, FirstSteady, HandedOn
<1> QED
  BY <1>1, <1>2, FaultKeepsInv DEF HaNext

(* A step of HaConfig is one of GaleraCluster or leaves its variables.     *)
LEMMA StepOfCluster ==
  ASSUME HaTypeOK, HaInv, [HaNext]_haVars
  PROVE  [ClusterNext]_clusterVars
<1>1. ASSUME NEW n \in Hosts, GaleraMark(n) PROVE Record(n)
  <2>1. pc[n] = 5 /\ "galera_start" \notin failed[n]
    BY <1>1, Manifest DEF GaleraMark, Applies, Requires
  <2> QED
    BY <1>1, <2>1 DEF GaleraMark, Record, HaInv, HandedOn
<1>2. ASSUME NEW n \in Hosts, Run(n) PROVE [ClusterNext]_clusterVars
  BY <1>1, <1>2
     DEF Run, StartRun, NotApplied, PasswordlessSsh, CheckOsMaster, GaleraStop, GaleraStart,
         Report, ShareImages, SetupCmonSchema, TransferKeys,
         JoinsDatabase, ClusterNext, clusterVars
<1>3. ASSUME NEW n \in Hosts, ConnectionFails(n) \/ AgentStops(n) \/ Reinstalled(n)
      PROVE  [ClusterNext]_clusterVars
  BY <1>3, HaAssumption
     DEF ConnectionFails, AgentStops, Reinstalled, FaultAt, ClusterNext, clusterVars
<1>4. CASE UNCHANGED haVars
  BY <1>4 DEF haVars, clusterVars
<1> QED
  BY <1>2, <1>3, <1>4 DEF HaNext

(* The arrows of ha_config keep what setup-vnc-galera promises: a node is  *)
(* recorded on a member only, and after the first.                         *)
THEOREM KeepsClusterPromiseHolds == HaSpec => KeepsClusterPromise
<1>1. HaInit => ClusterInit
  BY DEF HaInit
<1>2. HaSpec => []HaInv
  BY HaInvInit, HaInvStep, HaTypeCorrect, PTL DEF HaSpec
<1> QED
  BY <1>1, <1>2, StepOfCluster, HaTypeCorrect, PTL DEF HaSpec, KeepsClusterPromise, ClusterSpec

-----------------------------------------------------------------------------
(* Runs without an error.                                                  *)

(* What a node without a failed resource has, by its place in the manifest. *)
Passed(n) ==
  /\ pc[n] > 1  => {n} \X Hosts \subseteq authorized
  /\ pc[n] > 2  => n = 1 \/ 1 \in recorded
  /\ pc[n] > 4  => n \in members
  /\ pc[n] > 5  => n \in recorded
  /\ pc[n] > 7  => n \in shared
  /\ pc[n] > 8  => Rights(n) \subseteq granted[n]
  /\ pc[n] > 9  => certs[n] = certs[1] /\ certs[n] # 0

CleanInv == faults = 0 => \A n \in Hosts : failed[n] = {} => Passed(n)

(* What others do takes nothing from a node: but that the first node's     *)
(* certificates are made once needs FirstSteady.                           *)
LEMMA OthersKeepPassed ==
  ASSUME HaTypeOK, HaInv, NEW n \in Hosts, Run(n), NEW m \in Hosts \ {n}, Passed(m)
  PROVE  Passed(m)'
<1>1. certs[1] # 0 => certs'[1] = certs[1]
  BY HaAssumption DEF Run, StartRun, NotApplied, PasswordlessSsh, CheckOsMaster, GaleraStop,
         GaleraStart, GaleraMark, Report, ShareImages,
         SetupCmonSchema, TransferKeys, HaTypeOK
<1>2. Rights(m)' = Rights(m)
  BY DEF Rights
<1> QED
  BY <1>1, <1>2, RunIsLocal DEF Passed

(* A resource that passes adds what it stands for.                         *)
LEMMA RunPasses ==
  ASSUME HaTypeOK, HaInv, NEW n \in Hosts, Run(n), failed'[n] = {},
         failed[n] = {} => Passed(n)
  PROVE  Passed(n)'
<1> DEFINE On == /\ failed[n] = {} /\ Passed(n) /\ pc'[n] = pc[n] + 1 /\ pc[n] \in 1 .. 10
<1>1. CASE StartRun(n)
  BY <1>1 DEF StartRun, Passed, HaTypeOK
<1>2. ASSUME NEW s, At(n, s), Passes(n) \/ Fails(n, s) PROVE On
  BY <1>2, GoesOn, Manifest DEF Passes, Fails, HaTypeOK
<1>3. CASE NotApplied(n)
  BY <1>3 DEF NotApplied, Fails, HaTypeOK
<1>4. CASE PasswordlessSsh(n)
  <2>1. On /\ pc[n] = 1 /\ authorized' = authorized \cup ({n} \X Hosts)
    BY <1>2, <1>4, Manifest DEF PasswordlessSsh, Applies
  <2> QED
    BY <2>1 DEF Passed
<1>5. CASE CheckOsMaster(n)
  <2>1. On /\ pc[n] = 2 /\ (n = 1 \/ 1 \in recorded)
    BY <1>2, <1>5, Manifest DEF CheckOsMaster, Applies, Fails, HaInv, FirstSteady, HaTypeOK
  <2>2. UNCHANGED << recorded, authorized >>
    BY <1>5 DEF CheckOsMaster, clusterVars
  <2> QED
    BY <2>1, <2>2 DEF Passed
<1>6. CASE GaleraStop(n)
  <2>1. On /\ pc[n] = 3 /\ UNCHANGED << recorded, authorized >>
    BY <1>2, <1>6, Manifest DEF GaleraStop, Leave, Applies
  <2> QED
    BY <2>1 DEF Passed
<1>7. CASE GaleraStart(n)
  <2>1. On /\ pc[n] = 4 /\ UNCHANGED << recorded, authorized >>
    BY <1>2, <1>7, Manifest
       DEF GaleraStart, Applies, Create, JoinsDatabase, Join, clusterVars
  <2>2. n \in members'
    BY <1>7 DEF GaleraStart, Create, JoinsDatabase, Join, Fails, HaTypeOK
  <2> QED
    BY <2>1, <2>2 DEF Passed
<1>8. CASE GaleraMark(n)
  <2>1. On /\ pc[n] = 5 /\ recorded' = recorded \cup {n} /\ UNCHANGED << members, authorized >>
    BY <1>2, <1>8, Manifest DEF GaleraMark, Applies
  <2> QED
    BY <2>1 DEF Passed
<1>9. CASE Report(n)
  <2>1. On /\ pc[n] \in {6, 10} /\ UNCHANGED << members, recorded, authorized, shared, granted, certs >>
    BY <1>2, <1>9, Manifest DEF Report, Applies, clusterVars
  <2> QED
    BY <2>1 DEF Passed, Rights
<1>10. CASE ShareImages(n)
  <2>1. On /\ pc[n] = 7 /\ UNCHANGED << members, recorded, authorized >>
    BY <1>2, <1>10, Manifest DEF ShareImages, Applies, clusterVars
  <2>2. n \in shared'
    BY <1>10 DEF ShareImages, Fails, HaTypeOK
  <2> QED
    BY <2>1, <2>2 DEF Passed
<1>11. CASE SetupCmonSchema(n)
  <2>1. On /\ pc[n] = 8 /\ UNCHANGED << members, recorded, authorized, shared >>
    BY <1>2, <1>11, Manifest DEF SetupCmonSchema, Applies, clusterVars
  <2>2. n \in members
    BY <2>1 DEF Passed
  <2>3. Rights(n) \subseteq granted'[n]
    BY <1>11, <2>2 DEF SetupCmonSchema, HaTypeOK
  <2>4. Rights(n)' = Rights(n)
    BY DEF Rights
  <2> QED
    BY <2>1, <2>3, <2>4 DEF Passed
<1>12. CASE TransferKeys(n)
  <2>1. On /\ pc[n] = 9 /\ UNCHANGED << members, recorded, authorized, shared, granted >>
    BY <1>2, <1>12, Manifest DEF TransferKeys, Applies, clusterVars
  <2>2. << n, 1 >> \in authorized
    BY <2>1, HaAssumption DEF Passed
  <2>3. certs[1] # 0
    BY <2>1 DEF Passed, HaInv, FirstSteady
  <2>4. certs'[n] = certs'[1] /\ certs'[n] # 0
    BY <1>12, <2>2, <2>3, HaAssumption DEF TransferKeys, HaTypeOK
  <2> QED
    BY <2>1, <2>4 DEF Passed, Rights
<1> QED
  BY <1>1, <1>3, <1>4, <1>5, <1>6, <1>7, <1>8, <1>9, <1>10, <1>11, <1>12 DEF Run

LEMMA CleanInvInit == HaInit => CleanInv
BY DEF HaInit, CleanInv, Passed

LEMMA CleanInvStep == HaTypeOK /\ HaInv /\ CleanInv /\ [HaNext]_haVars => CleanInv'
<1> SUFFICES ASSUME HaTypeOK, HaInv, CleanInv, [HaNext]_haVars PROVE CleanInv'
  OBVIOUS
<1>1. ASSUME NEW n \in Hosts, Run(n) PROVE CleanInv'
  <2> SUFFICES ASSUME faults' = 0, NEW m \in Hosts, failed'[m] = {} PROVE Passed(m)'
    BY DEF CleanInv
  <2>1. faults = 0
    BY <1>1, RunIsLocal
  <2>2. CASE m = n
    BY <1>1, <2>1, <2>2, RunPasses DEF CleanInv
  <2>3. CASE m # n
    BY <1>1, <2>1, <2>3, RunIsLocal, OthersKeepPassed DEF CleanInv
  <2> QED
    BY <2>2, <2>3
<1>2. ASSUME NEW n \in Hosts, ConnectionFails(n) \/ AgentStops(n) \/ Reinstalled(n)
      PROVE  CleanInv'
  BY <1>2 DEF ConnectionFails, AgentStops, Reinstalled, Fault, CleanInv, HaTypeOK
<1>3. CASE UNCHANGED haVars
  BY <1>3 DEF haVars, CleanInv, Passed, Rights
<1> QED
  BY <1>1, <1>2, <1>3 DEF HaNext

(* A run without an error means what its reports say, until there is a     *)
(* fault, whatever the other nodes' agents do meanwhile.                   *)
THEOREM CleanRunMeansConfiguredHolds == HaSpec => []CleanRunMeansConfigured
<1>1. HaTypeOK /\ CleanInv => CleanRunMeansConfigured
  BY OverIs DEF CleanInv, Passed, CleanRunMeansConfigured
<1>2. HaSpec => []HaInv
  BY HaInvInit, HaInvStep, HaTypeCorrect, PTL DEF HaSpec
<1>3. HaSpec => []CleanInv
  BY <1>2, CleanInvInit, CleanInvStep, HaTypeCorrect, PTL DEF HaSpec
<1> QED
  BY <1>1, <1>3, HaTypeCorrect, PTL

=============================================================================
