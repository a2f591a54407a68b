-------------------------- MODULE DpdkAskedProofs --------------------------
(***************************************************************************)
(* A command that ends well has done what it was asked, for any devices,   *)
(* modules and command lines that name no device twice.                    *)
(***************************************************************************)
EXTENDS DpdkBindProofs, FiniteSetTheorems

Left == {todo[i] : i \in DOMAIN todo}

(* A device the script is done with.                                       *)
Finished(d) ==
  \/ driver[d] = Target(d, before[d]) /\ (want = "none" \/ driver[d] # "none")
  \/ d \in active /\ ~force /\ want # "eth"
  \/ want = "eth" /\ HasInterface(d)
  \/ before[d] = "none" /\ ~Fits(d)

(* What the command line asks for, and the state it found.                 *)
lineAsks == << want, force, loaded, list, before >>

(* A device that is still on the list.  One without a driver may have been *)
(* claimed by its model for another one: that is the driver it would get,  *)
(* and with -e it is read again before it is its turn.                     *)
Waiting(d) ==
  CASE before[d] # "none" -> known[d] = before[d] /\ driver[d] = before[d]
    [] before[d] = "none" /\ want # "eth" ->
         known[d] = "none" /\ driver[d] \in {"none", Target(d, "none")}
    [] OTHER ->
         /\ known[d] \in {"none", "vfio-pci"} /\ driver[d] \in {"none", "vfio-pci"}
         /\ known[d] # driver[d] => at = "attach" /\ target \in loaded

(* The device being bound: released, or with the new driver already.  With *)
(* -e a device whose only driver is the one it had is bound to "".         *)
Working(d) ==
  /\ target = Target(d, before[d]) \/ (target = "" /\ known[d] = "")
  /\ known[d] = "none" => before[d] = "none"
  /\ driver[d] \in {"none", target}
  /\ at = "attach" /\ target \in loaded => driver[d] = target

AtWork == at \in {"claim", "attach"}

OnCourse ==
  /\ IsInjective(todo)
  /\ at \in {"cleanup", "ok"} => Left = {}
  /\ \A d \in Listed \ Left : Finished(d)
  /\ \A d \in Left : Waiting(d) \/ (AtWork /\ d = Device)
  /\ AtWork => Working(Device)

AskedInv ==
  ~cut /\ IsInjective(list) /\ at \notin {"idle", "exit"} => OnCourse

-----------------------------------------------------------------------------
(* Lemmas about the list and the drivers.                                  *)

(* A list whose devices are as many as its places names none twice.        *)
LEMMA ListInjective ==
  ASSUME DpdkTypeOK, Cardinality(Listed) = Len(list)
  PROVE  IsInjective(list)
<1> DEFINE n == Len(list)
<1>1. list \in Seq(Nics)
  BY DEF DpdkTypeOK
<1>2. n \in Nat /\ DOMAIN list = 1 .. n /\ list \in [1 .. n -> Nics]
  BY <1>1, LenProperties
<1>3. list \in Surjection(1 .. n, Listed)
  BY <1>2 DEF Surjection, Listed
<1>4. IsFiniteSet(1 .. n) /\ Cardinality(1 .. n) = n
  <2>1. IsFiniteSet(1 .. n) /\ Cardinality(1 .. n) = IF 1 > n THEN 0 ELSE n - 1 + 1
    <3>1. 1 \in Int /\ n \in Int
      BY <1>2
    <3> QED BY <3>1, FS_Interval
  <2> QED BY <1>2, <2>1
<1>5. list \in Injection(1 .. n, Listed)
  BY <1>3, <1>4, FS_Surjection
<1> QED BY <1>5 DEF Injection

LEMMA ListedType ==
  ASSUME DpdkTypeOK
  PROVE  Listed \subseteq Nics
<1>1. list \in Seq(Nics)
  BY DEF DpdkTypeOK
<1> QED BY <1>1, ElementOfSeq, LenProperties DEF Listed

(* What is left after the device at hand.                                  *)
LEMMA LeftAfter ==
  ASSUME todo \in Seq(Nics), todo # << >>, IsInjective(todo), todo' = Tail(todo)
  PROVE  /\ IsInjective(todo') /\ Left' = Left \ {Device}
         /\ Device \in Left \cap Nics /\ Left \subseteq Nics
         /\ Len(todo) <= 1 => Left' = {}
<1>1. /\ Len(todo) \in Nat \ {0} /\ DOMAIN todo = 1 .. Len(todo)
      /\ \A i \in 1 .. Len(todo) : todo[i] \in Nics
  BY EmptySeq, LenProperties, ElementOfSeq
<1>2. /\ Tail(todo) \in Seq(Nics) /\ Len(Tail(todo)) = Len(todo) - 1
      /\ \A i \in 1 .. Len(Tail(todo)) : Tail(todo)[i] = todo[i + 1]
  BY HeadTailProperties
<1>3. DOMAIN todo' = 1 .. (Len(todo) - 1) /\ \A i \in DOMAIN todo' : todo'[i] = todo[i + 1]
  BY <1>1, <1>2, LenProperties
<1>4. Device = todo[1]
  BY TodoType
<1>5. IsInjective(todo')
  BY <1>1, <1>3 DEF IsInjective
<1>6. Left' \subseteq Left \ {Device}
  <2> SUFFICES ASSUME NEW i \in DOMAIN todo'
               PROVE  todo'[i] \in Left /\ todo'[i] # Device
    BY DEF Left
  <2>1. i + 1 \in DOMAIN todo /\ i + 1 # 1 /\ 1 \in DOMAIN todo
    BY <1>1, <1>3
  <2> QED BY <1>3, <1>4, <2>1 DEF IsInjective, Left
<1>7. Left \ {Device} \subseteq Left'
  <2> SUFFICES ASSUME NEW j \in DOMAIN todo, todo[j] # todo[1]
               PROVE  todo[j] \in Left'
    BY <1>4 DEF Left
  <2>1. j - 1 \in DOMAIN todo' /\ todo'[j - 1] = todo[j]
    BY <1>1, <1>3
  <2> QED BY <2>1 DEF Left
<1>8. Len(todo) <= 1 => DOMAIN todo' = {}
  BY <1>1, <1>3
<1>9. Left' = {} <=> DOMAIN todo' = {}
  BY DEF Left
<1>10. Device \in Left \cap Nics /\ Left \subseteq Nics
  BY <1>1, <1>4 DEF Left
<1> QED BY <1>5, <1>6, <1>7, <1>8, <1>9, <1>10

(* With -e a device is asked to leave the driver it has.  One that vfio-pci *)
(* claimed is bound to what it would have got before, or to none.          *)
LEMMA EthLeaves ==
  ASSUME want = "eth", NEW d \in Nics, NEW drv, drv \notin {"none", ""}
  PROVE  Target(d, drv) # drv
BY DEF Target, EthDriver

LEMMA EthAgain ==
  ASSUME want = "eth", NEW d \in Nics
  PROVE  Target(d, "vfio-pci") \in {Target(d, "none"), "", "none"}
<1>1. System[d] # "vfio-pci"
  BY DpdkAssumption DEF Dpdk
<1> QED BY <1>1 DEF Target, EthDriver

LEMMA TargetSame ==
  ASSUME UNCHANGED << want, loaded >>, NEW d, NEW drv
  PROVE  Target(d, drv)' = Target(d, drv)
BY DEF Target, EthDriver

(* Nothing but a device's own turn changes what it is finished with; a     *)
(* device without a driver may be claimed.                                 *)
LEMMA FinishedKept ==
  ASSUME UNCHANGED lineAsks, UNCHANGED active \/ want = "eth", NEW d, Finished(d),
         driver'[d] = driver[d] \/ (want # "none" /\ driver[d] = "none")
  PROVE  Finished(d)'
<1>1. UNCHANGED << want, force, loaded, before >>
  BY DEF lineAsks
<1>2. Target(d, before[d])' = Target(d, before[d]) /\ (Fits(d)' <=> Fits(d))
  BY <1>1, FitsSame DEF Target, EthDriver
<1> QED BY <1>1, <1>2 DEF Finished, HasInterface

LEMMA WaitingKept ==
  ASSUME UNCHANGED lineAsks, NEW d, Waiting(d),
         driver'[d] = driver[d], known'[d] = known[d],
         want = "eth" => ~(at = "attach" /\ target \in loaded)
  PROVE  Waiting(d)'
<1>1. UNCHANGED << want, loaded, before >>
  BY DEF lineAsks
<1>2. Target(d, "none")' = Target(d, "none")
  BY <1>1, TargetSame
<1> QED BY <1>1, <1>2 DEF Waiting

(* On to the next device.                                                  *)
LEMMA Advance ==
  ASSUME DpdkTypeOK, OnCourse, todo # << >>, NextDevice, UNCHANGED lineAsks,
         \A d \in (Listed \ Left) \cup {Device} : Finished(d)',
         \A d \in Left \ {Device} : Waiting(d)'
  PROVE  OnCourse'
<1>1. todo \in Seq(Nics) /\ Len(todo) \in Nat
  BY LenProperties DEF DpdkTypeOK
<1>2. /\ IsInjective(todo') /\ Left' = Left \ {Device}
      /\ Len(todo) <= 1 => Left' = {}
  BY <1>1, LeftAfter DEF NextDevice, OnCourse
<1>3. at' \notin {"claim", "attach"} /\ (at' \in {"cleanup", "ok"} => Left' = {})
  BY <1>1, <1>2 DEF NextDevice
<1>4. Listed' = Listed
  BY DEF lineAsks, Listed
<1>5. \A d \in (Listed \ Left)' : Finished(d)'
  BY <1>2, <1>4
<1>6. \A d \in Left' : Waiting(d)'
  BY <1>2
<1> QED BY <1>2, <1>3, <1>5, <1>6 DEF OnCourse, AtWork

-----------------------------------------------------------------------------
(* AskedInv is inductive: one lemma for each write of the script.          *)

LEMMA AskedInvoke ==
  ASSUME DpdkTypeOK, NEW w \in Wants, NEW f \in BOOLEAN, NEW l \in Lists, Invoke(w, f, l),
         IsInjective(list'), at' # "exit"
  PROVE  OnCourse'
<1>1. at' = "device" /\ todo' = list' /\ before' = driver' /\ known' = driver'
  BY DEF Invoke, GetNicDetails
<1>2. list' \in Seq(Nics)
  BY ListsType DEF Invoke
<1>3. Left' = Listed' /\ Left' \subseteq Nics
  BY <1>1, <1>2, ElementOfSeq, LenProperties DEF Left, Listed
<1>4. \A d \in Left' : Waiting(d)'
  BY <1>1, <1>3 DEF Waiting
<1> QED BY <1>1, <1>3, <1>4 DEF OnCourse, AtWork

LEMMA AskedUnbind ==
  ASSUME DpdkTypeOK, OnCourse, UnbindOne, at' # "exit"
  PROVE  OnCourse'
<1>1. /\ UNCHANGED << lineAsks, active, loaded, list, known >> /\ want = "none" /\ want' = want
      /\ force' = force /\ before' = before /\ at = "device" /\ todo # << >> /\ NextDevice
  BY DEF UnbindOne, UnbindFails, Exit, DpdkTypeOK, lineVars, lineAsks
<1>2. /\ Device \in Left \cap Nics /\ Left \subseteq Nics
  <2>1. todo \in Seq(Nics)
    BY DEF DpdkTypeOK
  <2> QED BY <1>1, <2>1, LeftAfter DEF NextDevice, OnCourse
<1>3. \/ UNCHANGED driver /\ (known[Device] = "none" \/ Protected)
      \/ Releases
  BY DEF UnbindOne, UnbindFails, Exit
<1>4. \A d \in Nics \ {Device} : driver'[d] = driver[d]
  BY <1>3 DEF Releases, DpdkTypeOK
<1>5. \A d \in {Device} : Finished(d)'
  <2>1. \A d, x : Target(d, x)' = "none"
    BY <1>1 DEF Target
  <2>2. CASE Releases
    BY <1>1, <1>2, <2>1, <2>2 DEF Releases, Finished, DpdkTypeOK
  <2>3. CASE UNCHANGED driver /\ Protected
    BY <1>1, <2>3 DEF Protected, Finished
  <2>4. CASE UNCHANGED driver /\ known[Device] = "none"
    <3>1. Waiting(Device) /\ Target(Device, "none") = "none"
      BY <1>1, <1>2 DEF OnCourse, AtWork, Target
    <3>2. driver[Device] = "none"
      BY <1>1, <2>4, <3>1 DEF Waiting
    <3> QED BY <1>1, <2>1, <2>4, <3>2 DEF Finished
  <2> QED BY <1>3, <2>2, <2>3, <2>4
<1>6. \A d \in Listed \ Left : Finished(d)'
  <2>1. \A d \in Listed \ Left : driver'[d] = driver[d]
    BY <1>2, <1>4, ListedType
  <2> QED BY <1>1, <2>1, FinishedKept DEF OnCourse
<1>7. \A d \in Left \ {Device} : Waiting(d)'
  BY <1>1, <1>2, <1>4, WaitingKept DEF OnCourse
<1> QED BY <1>1, <1>5, <1>6, <1>7, Advance


LEMMA AskedBind ==
  ASSUME DpdkTypeOK, ActiveInv, OnCourse, BindOne, at' # "exit"
  PROVE  OnCourse'
<1> DEFINE t == Target(Device, known[Device])
<1>1. /\ UNCHANGED lineAsks /\ want # "none" /\ at = "device" /\ todo # << >>
      /\ UNCHANGED << want, force, list, active, before, loaded >>
  BY DEF BindOne, DpdkTypeOK, lineVars, lineAsks
<1>2. /\ Device \in Left \cap Nics /\ Left \subseteq Nics
  <2>1. todo \in Seq(Nics)
    BY DEF DpdkTypeOK
  <2>2. todo # << >> /\ Device \in Nics /\ Device = todo[1] /\ 1 \in DOMAIN todo
    BY <1>1, <2>1, TodoType
  <2>3. \A i \in DOMAIN todo : todo[i] \in Nics
    BY <2>1, ElementOfSeq, LenProperties
  <2> QED BY <2>2, <2>3 DEF Left
<1>3. \A d \in Left : Waiting(d)
  BY <1>1 DEF OnCourse, AtWork
<1>4. /\ before[Device] # "none" => known[Device] = before[Device] /\ driver[Device] = before[Device]
      /\ before[Device] = "none" /\ want # "eth" =>
           known[Device] = "none" /\ driver[Device] \in {"none", Target(Device, "none")}
      /\ before[Device] = "none" /\ want = "eth" =>
           known[Device] \in {"none", "vfio-pci"} /\ driver[Device] = known[Device]
  BY <1>1, <1>2, <1>3 DEF Waiting
<1>5. \A d \in Listed \ Left : Finished(d)
  BY DEF OnCourse
<1>6. CASE NextDevice /\ t # "none" /\ (Protected \/ known[Device] = t) /\ UNCHANGED << driver, known >>
  <2>1. Finished(Device)
    <3>1. CASE Protected
      BY <3>1 DEF Protected, Finished, ActiveInv
    <3>2. CASE known[Device] = t /\ before[Device] # "none"
      BY <1>4, <3>2 DEF Finished
    <3>3. CASE known[Device] = t /\ before[Device] = "none"
      <4>1. want = "eth" /\ known[Device] = "vfio-pci"
        BY <1>4, <1>6, <3>3
      <4> QED BY <1>2, <3>3, <4>1, EthLeaves
    <3> QED BY <1>6, <3>1, <3>2, <3>3
  <2>2. \A d \in (Listed \ Left) \cup {Device} : Finished(d)'
    BY <1>1, <1>5, <1>6, <2>1, FinishedKept
  <2>3. \A d \in Left \ {Device} : Waiting(d)'
    BY <1>1, <1>3, <1>6, WaitingKept
  <2> QED BY <1>1, <1>6, <2>2, <2>3, Advance
<1>7. ASSUME t # "none", target' = t, at' = (IF t \in loaded THEN "claim" ELSE "attach"),
             UNCHANGED todo,
             \/ known[Device] = "none" /\ UNCHANGED << driver, known >>
             \/ /\ known[Device] # "none" /\ known[Device] = driver[Device] /\ Releases
                /\ known' = [known EXCEPT ![Device] = ""]
      PROVE  OnCourse'
  <2>1. /\ \A d \in Nics \ {Device} : driver'[d] = driver[d] /\ known'[d] = known[d]
        /\ known[Device] # "none" => driver'[Device] = "none" /\ known'[Device] = ""
    BY <1>2, <1>7 DEF Releases, DpdkTypeOK
  <2>2. /\ AtWork' /\ Device' = Device /\ Left' = Left /\ Listed' = Listed
        /\ IsInjective(todo') /\ at' \notin {"cleanup", "ok"}
    BY <1>1, <1>7 DEF AtWork, Device, Left, Listed, OnCourse
  <2>3. \A d \in Listed \ Left : Finished(d)'
    BY <1>1, <1>2, <1>5, <2>1, ListedType, FinishedKept
  <2>4. \A d \in Left \ {Device} : Waiting(d)'
    BY <1>1, <1>2, <1>3, <2>1, WaitingKept
  <2>5. at' = "attach" => target' \notin loaded'
    BY <1>1, <1>7
  <2>6. ASSUME NEW d \in {Device} PROVE Working(d)'
    <3>1. /\ d \in Nics /\ d = Device
          /\ Target(d, before[d])' = Target(d, before[d])
      BY <1>1, <1>2 DEF Target, EthDriver
    <3>2. t = Target(d, before[d]) \/ (t = "" /\ known[d] # "none")
      BY <1>4, <1>7, <3>1, EthAgain
    <3>3. driver'[d] \in {"none", t}
      BY <1>4, <1>7, <2>1, <3>1
    <3>4. known[d] = "none" => before[d] = "none" /\ known'[d] = "none"
      BY <1>4, <1>7, <3>1
    <3> QED BY <1>1, <1>7, <2>1, <2>5, <3>1, <3>2, <3>3, <3>4 DEF Working
  <2> QED BY <2>2, <2>3, <2>4, <2>6 DEF OnCourse
<1> QED BY <1>6, <1>7, NextDeviceAt DEF BindOne, UnbindFails, Exit

(* What the three remaining writes to the device at hand start from.       *)
LEMMA AtDevice ==
  ASSUME DpdkTypeOK, OthersInv, LossInv, OnCourse, AtWork
  PROVE  /\ todo # << >> /\ want # "none" /\ target \notin {"none"}
         /\ Device \in Left \cap Nics /\ Left \subseteq Nics /\ Listed \subseteq Nics
         /\ target \in loaded \cup {System[Device]} => target # ""
         /\ Working(Device)
         /\ \A d \in Left \ {Device} : Waiting(d)
         /\ \A d \in Listed \ Left : Finished(d)
<1>1. todo \in Seq(Nics) /\ todo # << >>
  BY DEF DpdkTypeOK, AtWork
<1>2. Device \in Nics /\ Device = todo[1] /\ 1 \in DOMAIN todo
  BY <1>1, TodoType
<1>3. \A i \in DOMAIN todo : todo[i] \in Nics
  BY <1>1, ElementOfSeq, LenProperties
<1>4. Device \in Left \cap Nics /\ Left \subseteq Nics
  BY <1>2, <1>3 DEF Left
<1>5. "" \notin loaded \cup {System[Device]}
  BY <1>2, DpdkAssumption DEF DpdkTypeOK, Dpdk
<1>6. want # "none" /\ target # "none"
  BY DEF OthersInv, LossInv, AtWork
<1> QED BY <1>1, <1>4, <1>5, <1>6, ListedType DEF OnCourse

LEMMA AskedClaim ==
  ASSUME DpdkTypeOK, OthersInv, LossInv, OnCourse, Claim, ~cut'
  PROVE  OnCourse'
<1>1. /\ UNCHANGED << lineAsks, active >> /\ at = "claim" /\ at' = "attach" /\ AtWork
      /\ UNCHANGED << todo, known, target, want, loaded, before, list >>
      /\ driver' = [d \in Nics |-> IF driver[d] = "none" /\ Model[d] = Model[Device]
                                   THEN target ELSE driver[d]]
  BY DEF Claim, AtWork, lineVars, lineAsks
<1>2. /\ want # "none" /\ target # "none" /\ target # "" /\ target \in loaded
      /\ Device \in Left \cap Nics /\ Left \subseteq Nics /\ Listed \subseteq Nics
      /\ Working(Device)
      /\ \A d \in Left \ {Device} : Waiting(d)
      /\ \A d \in Listed \ Left : Finished(d)
  <2>1. target \in loaded
    BY <1>1 DEF DpdkTypeOK
  <2> QED BY <1>1, <2>1, AtDevice
<1>3. /\ AtWork' /\ Device' = Device /\ Left' = Left /\ Listed' = Listed
      /\ IsInjective(todo') /\ at' \notin {"cleanup", "ok"}
  BY <1>1 DEF AtWork, Device, Left, Listed, OnCourse
<1>4. \A d \in Listed \ Left : Finished(d)'
  BY <1>1, <1>2, FinishedKept
<1>5. ASSUME NEW d \in Left \ {Device} PROVE Waiting(d)'
  <2>1. d \in Nics /\ Waiting(d) /\ driver'[d] \in {driver[d], target}
        /\ (driver[d] # "none" => driver'[d] = driver[d])
    BY <1>1, <1>2
  <2>2. CASE before[d] # "none"
    BY <1>1, <2>1, <2>2 DEF Waiting
  <2>3. CASE before[d] = "none" /\ want # "eth"
    <3>1. target = Target(d, "none") /\ Target(d, "none")' = Target(d, "none")
      BY <1>1, <1>2, <2>3 DEF Working, Target
    <3> QED BY <1>1, <2>1, <2>3, <3>1 DEF Waiting
  <2>4. CASE before[d] = "none" /\ want = "eth"
    <3>1. target = "vfio-pci"
      BY <1>1, <2>4 DEF OthersInv
    <3> QED BY <1>1, <1>2, <2>1, <2>4, <3>1 DEF Waiting
  <2> QED BY <2>2, <2>3, <2>4
<1>6. ASSUME NEW d \in {Device} PROVE Working(d)'
  <2>1. d \in Nics /\ Target(d, before[d])' = Target(d, before[d])
    BY <1>1, <1>2 DEF Target, EthDriver
  <2>2. driver'[d] = target
    BY <1>1, <1>2, <2>1 DEF Working
  <2> QED BY <1>1, <1>2, <2>1, <2>2 DEF Working
<1> QED BY <1>3, <1>4, <1>5, <1>6 DEF OnCourse

LEMMA AskedAttach ==
  ASSUME DpdkTypeOK, OthersInv, LossInv, OnCourse, Attach
  PROVE  OnCourse'
<1>1. /\ UNCHANGED lineAsks /\ at = "attach" /\ AtWork /\ NextDevice
      /\ UNCHANGED << want, loaded, before, list >>
      /\ driver' = [driver EXCEPT ![Device] = target]
      /\ known' = IF want = "eth" THEN driver' ELSE known
      /\ UNCHANGED active \/ want = "eth"
      /\ target \in loaded \cup {System[Device]}
  BY DEF Attach, GetNicDetails, Binds, AtWork, lineAsks
<1>2. /\ todo # << >> /\ want # "none" /\ target # "none" /\ target # ""
      /\ Device \in Left \cap Nics /\ Left \subseteq Nics /\ Listed \subseteq Nics
      /\ Working(Device)
      /\ \A d \in Left \ {Device} : Waiting(d)
      /\ \A d \in Listed \ Left : Finished(d)
  BY <1>1, AtDevice
<1>3. \A d \in Nics : driver'[d] = IF d = Device THEN target ELSE driver[d]
  BY <1>1, <1>2 DEF DpdkTypeOK
<1>4. \A d \in Listed \ Left : Finished(d)'
  BY <1>1, <1>2, <1>3, FinishedKept
<1>5. ASSUME NEW d \in {Device} PROVE Finished(d)'
  <2>1. d \in Nics /\ Target(d, before[d])' = Target(d, before[d])
    BY <1>1, <1>2 DEF Target, EthDriver
  <2> QED BY <1>1, <1>2, <1>3, <2>1 DEF Working, Finished
<1>6. ASSUME NEW d \in Left \ {Device} PROVE Waiting(d)'
  <2>1. d \in Nics /\ Waiting(d) /\ driver'[d] = driver[d]
    BY <1>2, <1>3
  <2>2. known'[d] = IF want = "eth" THEN driver[d] ELSE known[d]
    BY <1>1, <2>1
  <2>3. Target(d, "none")' = Target(d, "none")
    BY <1>1, TargetSame
  <2> QED BY <1>1, <2>1, <2>2, <2>3 DEF Waiting
<1> QED BY <1>1, <1>2, <1>4, <1>5, <1>6, Advance

LEMMA AskedAttachFails ==
  ASSUME DpdkTypeOK, OthersInv, LossInv, OnCourse, AttachFails, ~cut', at' # "exit"
  PROVE  OnCourse'
<1>1. /\ UNCHANGED lineAsks /\ at = "attach" /\ AtWork /\ NextDevice
      /\ UNCHANGED << want, loaded, before, list, active, driver, known, target >>
      /\ driver[Device] # target /\ known[Device] # "" /\ ~Binds
  BY DEF AttachFails, Exit, AtWork, lineVars, lineAsks
<1>2. /\ todo # << >> /\ want # "none" /\ target # "none"
      /\ Device \in Left \cap Nics /\ Left \subseteq Nics /\ Listed \subseteq Nics
      /\ Working(Device)
      /\ \A d \in Left \ {Device} : Waiting(d)
      /\ \A d \in Listed \ Left : Finished(d)
  BY <1>1, AtDevice
<1>3. known[Device] = "none" /\ before[Device] = "none" /\ driver[Device] = "none"
      /\ target = Target(Device, "none") /\ target \notin loaded \cup {System[Device]}
  <2>1. known[Device] \in {"none", ""}
    BY <1>1 DEF DpdkTypeOK, Device
  <2> QED BY <1>1, <1>2, <2>1 DEF Working, Binds
<1>4. Finished(Device)
  BY <1>2, <1>3 DEF Finished, Fits
<1>5. \A d \in (Listed \ Left) \cup {Device} : Finished(d)'
  BY <1>1, <1>2, <1>4, FinishedKept
<1>6. \A d \in Left \ {Device} : Waiting(d)'
  BY <1>1, <1>2, <1>3, WaitingKept
<1> QED BY <1>1, <1>2, <1>5, <1>6, Advance

LEMMA AskedCleanUp ==
  ASSUME DpdkTypeOK, OnCourse, CleanUp, at' # "exit"
  PROVE  OnCourse'
<1>1. /\ UNCHANGED lineAsks /\ at = "cleanup" /\ at' \in {"cleanup", "ok"}
      /\ UNCHANGED << todo, list, active >>
  BY DEF CleanUp, Exit, lineVars, lineAsks
<1>2. \A d \in Listed : driver'[d] = driver[d]
  <2>1. Listed \subseteq Nics
    BY ListedType
  <2> QED BY <2>1 DEF CleanUp, Strays, Listed, DpdkTypeOK
<1>3. Left = {} /\ Left' = {} /\ Listed' = Listed /\ IsInjective(todo') /\ ~AtWork'
  BY <1>1 DEF OnCourse, Left, Listed, AtWork
<1>4. \A d \in Listed : Finished(d)'
  BY <1>1, <1>2, <1>3, FinishedKept DEF OnCourse
<1> QED BY <1>3, <1>4 DEF OnCourse

LEMMA AskedStep ==
  ASSUME DpdkTypeOK, ActiveInv, OthersInv, LossInv, AskedInv, [DpdkNext]_dpdkVars
  PROVE  AskedInv'
<1> SUFFICES ASSUME ~cut', IsInjective(list'), at' \notin {"idle", "exit"}
             PROVE  OnCourse'
  BY DEF AskedInv
<1>1. ASSUME NEW w \in Wants, NEW f \in BOOLEAN, NEW l \in Lists, Invoke(w, f, l)
      PROVE  OnCourse'
  BY <1>1, AskedInvoke
<1>2. ASSUME UnbindOne \/ BindOne \/ Claim \/ Attach \/ AttachFails \/ CleanUp
             \/ UNCHANGED dpdkVars
      PROVE  OnCourse
  <2>1. list' = list
    BY <1>2 DEF UnbindOne, BindOne, Claim, Attach, AttachFails, CleanUp, dpdkVars, lineVars
  <2>2. at \notin {"idle", "exit"}
    BY <1>2 DEF UnbindOne, BindOne, Claim, Attach, AttachFails, CleanUp, dpdkVars
  <2>3. cut' = cut \/ cut' = (cut \/ Binds) \/ cut' = TRUE
        \/ cut' = (cut \/ known[Device] = driver[Device])
    BY <1>2 DEF UnbindOne, BindOne, UnbindFails, Claim, Attach, AttachFails, CleanUp, dpdkVars
  <2>4. ~cut
    BY <2>3
  <2> QED BY <2>1, <2>2, <2>4 DEF AskedInv
<1>3. CASE UnbindOne
  BY <1>2, <1>3, AskedUnbind
<1>4. CASE BindOne
  BY <1>2, <1>4, AskedBind
<1>5. CASE Claim
  BY <1>2, <1>5, AskedClaim
<1>6. CASE Attach
  BY <1>2, <1>6, AskedAttach
<1>7. CASE AttachFails
  BY <1>2, <1>7, AskedAttachFails
<1>8. CASE CleanUp
  BY <1>2, <1>8, AskedCleanUp
<1>9. CASE UNCHANGED dpdkVars
  <2>1. OnCourse /\ UNCHANGED << driver, loaded, at, want, force, todo, known, active,
                                 target, before, list >>
    BY <1>2, <1>9 DEF dpdkVars, lineVars
  <2>2. AtWork' = AtWork /\ Left' = Left /\ Listed' = Listed /\ Device' = Device
    BY <2>1 DEF AtWork, Left, Listed, Device
  <2>3. \A d, x : Target(d, x)' = Target(d, x)
    BY <2>1, TargetSame
  <2>4. \A d : Finished(d) => Finished(d)'
    BY <1>9, FinishedKept DEF dpdkVars, lineVars, lineAsks
  <2>5. \A d : (Waiting(d) => Waiting(d)') /\ (Working(d) => Working(d)')
    BY <2>1, <2>3 DEF Waiting, Working
  <2> QED
    BY <2>1, <2>2, <2>4, <2>5 DEF OnCourse
<1> QED
  BY <1>1, <1>3, <1>4, <1>5, <1>6, <1>7, <1>8, <1>9 DEF DpdkNext, Killed, Ends

(* A device the script is done with has what was asked for, or -e has      *)
(* taken it to vfio-pci.                                                   *)
LEMMA FinishedIsAsked ==
  ASSUME DpdkTypeOK, LossInv, at = "ok", NEW d \in Nics, Finished(d)
  PROVE  \/ driver[d] = Asked(d)
         \/ d \in active /\ ~force
         \/ before[d] = "none" /\ ~Suits(d)
         \/ TakenByVfio(d)
<1>1. CASE want # "eth"
  BY <1>1, AskedSuits DEF Finished
<1>2. CASE want = "eth"
  <2>1. loaded # {} /\ Asked(d) = System[d]
    BY <1>2 DEF LossInv, Asked
  <2>2. CASE HasInterface(d)
    BY <2>1, <2>2 DEF HasInterface
  <2>3. CASE before[d] = "none" /\ ~Fits(d)
    BY <1>2, <2>1, <2>3, EthFits
  <2>4. CASE driver[d] = EthDriver(d, before[d]) /\ driver[d] # "none"
    <3>1. driver[d] # ""
      BY DpdkAssumption DEF LossInv, DpdkTypeOK, Dpdk
    <3>2. \/ driver[d] = System[d]
          \/ /\ driver[d] = "vfio-pci"
             /\ System[d] \notin ({System[d]} \cup loaded) \ {before[d], "none"}
      BY <2>4, <3>1 DEF EthDriver
    <3> QED BY <1>2, <2>1, <3>2 DEF TakenByVfio
  <2> QED BY <1>2, <2>2, <2>3, <2>4 DEF Finished, Target
<1> QED BY <1>1, <1>2

(* A script that ends well, no write refused, has given every device it    *)
(* was asked for the driver it was asked for, whatever claims by model did *)
(* to those still on the list; but for the devices with an active link,    *)
(* those without a driver that this one does not take, and those that -e   *)
(* takes to vfio-pci.                                                      *)
THEOREM DoneAsAskedHolds == DpdkSpec => []DoneAsAsked
<1>1. DpdkInit => OthersInv /\ LossInv /\ AskedInv
  <2>1. DpdkInit => AskedInv
    BY DEF DpdkInit, AskedInv
  <2> QED BY <2>1, OthersInvInit, LossInvInit
<1>2. DpdkTypeOK /\ ActiveInv /\ OthersInv /\ LossInv /\ AskedInv /\ [DpdkNext]_dpdkVars
        => OthersInv' /\ LossInv' /\ AskedInv'
  BY OthersInvStep, LossInvStep, AskedStep
<1>3. DpdkTypeOK /\ LossInv /\ AskedInv => DoneAsAsked
  <2> SUFFICES ASSUME DpdkTypeOK, LossInv, AskedInv, at = "ok", ~cut,
                      Cardinality(Listed) = Len(list), NEW d \in Listed
               PROVE  d \in Nics /\ Finished(d)
    BY FinishedIsAsked DEF DoneAsAsked
  <2>1. OnCourse
    BY ListInjective DEF AskedInv
  <2> QED BY <2>1, ListedType DEF OnCourse
<1> QED BY <1>1, <1>2, <1>3, ActiveInvAlways, TypeCorrect, PTL DEF DpdkSpec

=============================================================================
