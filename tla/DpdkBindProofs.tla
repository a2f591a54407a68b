--------------------------- MODULE DpdkBindProofs ---------------------------
(***************************************************************************)
(* Proofs about DpdkBind, for any devices, modules and command lines.      *)
(***************************************************************************)
EXTENDS DpdkBind, SequenceTheorems, TLAPS

-----------------------------------------------------------------------------
(* Lemmas about the command line and the driver that is asked for.         *)

(* A command line is a sequence of devices, and not empty.                 *)
LEMMA ListsType ==
  ASSUME NEW l \in Lists
  PROVE  l \in Seq(Nics) /\ l # << >>
<1>1. PICK k \in 1 .. MaxListed : l \in [1 .. k -> Nics]
  BY DEF Lists
<1>2. k \in Nat \ {0}
  <2>1. MaxListed \in Nat
    BY DpdkAssumption
  <2> QED
    BY <1>1, <2>1
<1>3. l \in Seq(Nics)
  BY <1>1, <1>2, SeqDef
<1>4. DOMAIN l # {}
  BY <1>1, <1>2
<1> QED
  BY <1>3, <1>4, EmptySeq, LenProperties

(* bind_one asks for a driver there is, or for "".                         *)
LEMMA TargetType ==
  ASSUME want \in Wants, loaded \subseteq Dpdk, NEW d \in Nics, NEW drv
  PROVE  Target(d, drv) \in Drivers \cup {""}
<1>1. EthDriver(d, drv) \in Drivers \cup {""}
  BY DEF EthDriver, Drivers, Dpdk
<1> QED
  BY <1>1 DEF Target, Wants, Drivers, Dpdk

(* The device at hand, and what is left after it.                          *)
LEMMA TodoType ==
  ASSUME todo \in Seq(Nics), todo # << >>
  PROVE  /\ Device \in Nics /\ Device = todo[1] /\ 1 \in DOMAIN todo
         /\ Tail(todo) \in Seq(Nics)
         /\ Len(todo) > 1 => Tail(todo) # << >>
         /\ \A i \in DOMAIN Tail(todo) : i + 1 \in DOMAIN todo /\ Tail(todo)[i] = todo[i + 1]
<1>1. Len(todo) \in Nat \ {0} /\ DOMAIN todo = 1 .. Len(todo) /\ Len(Tail(todo)) = Len(todo) - 1
  BY EmptySeq, LenProperties, HeadTailProperties
<1>2. Tail(todo) \in Seq(Nics) /\ DOMAIN Tail(todo) = 1 .. Len(Tail(todo))
  BY HeadTailProperties, LenProperties
<1>3. Device = todo[1] /\ Device \in Nics
  BY HeadTailProperties DEF Device
<1>4. \A i \in 1 .. Len(Tail(todo)) : Tail(todo)[i] = todo[i + 1]
  BY HeadTailProperties
<1> QED
  BY <1>1, <1>2, <1>3, <1>4, EmptySeq

-----------------------------------------------------------------------------
(* Type correctness.                                                       *)

LEMMA TypeInit == DpdkInit => DpdkTypeOK
<1> SUFFICES ASSUME DpdkInit PROVE DpdkTypeOK
  OBVIOUS
<1>1. driver \in [Nics -> Drivers]
  BY DEF DpdkInit
<1> QED
  BY <1>1, EmptySeq DEF DpdkInit, DpdkTypeOK, Wants, Places, Drivers

LEMMA NextDeviceType ==
  ASSUME DpdkTypeOK, todo # << >>, NextDevice
  PROVE  todo' \in Seq(Nics) /\ at' \in {"device", "ok", "cleanup"} /\ (at' = "device" => todo' # << >>)
BY TodoType DEF NextDevice, DpdkTypeOK

LEMMA TypeStep == DpdkTypeOK /\ [DpdkNext]_dpdkVars => DpdkTypeOK'
<1> SUFFICES ASSUME DpdkTypeOK, [DpdkNext]_dpdkVars PROVE DpdkTypeOK'
  OBVIOUS
<1>1. ASSUME NEW w \in Wants, NEW f \in BOOLEAN, NEW l \in Lists, Invoke(w, f, l)
      PROVE  DpdkTypeOK'
  BY <1>1, ListsType DEF Invoke, GetNicDetails, DpdkTypeOK, Places
<1>2. CASE UnbindOne
  <2>1. Device \in Nics
    BY <1>2, TodoType DEF UnbindOne, DpdkTypeOK
  <2>2. driver' \in [Nics -> Drivers] /\ cut' \in BOOLEAN
    BY <1>2, <2>1 DEF UnbindOne, UnbindFails, Releases, DpdkTypeOK, Drivers
  <2>3. todo' \in Seq(Nics) /\ at' \in {"device", "ok", "cleanup", "exit"} /\ (at' = "device" => todo' # << >>)
    BY <1>2, NextDeviceType DEF UnbindOne, UnbindFails, Exit, DpdkTypeOK
  <2> QED
    BY <1>2, <2>2, <2>3 DEF UnbindOne, UnbindFails, lineVars, DpdkTypeOK, Places
<1>3. CASE BindOne
  <2> DEFINE t == Target(Device, known[Device])
  <2>1. Device \in Nics /\ t \in Drivers \cup {""}
    BY <1>3, TodoType, TargetType DEF BindOne, DpdkTypeOK
  <2>2. CASE UNCHANGED << driver, known, target, todo >> /\ at' = "exit" /\ cut' \in BOOLEAN
    BY <1>3, <2>2 DEF BindOne, lineVars, DpdkTypeOK, Places
  <2>3. CASE NextDevice /\ UNCHANGED << driver, known, target, cut >>
    BY <1>3, <2>3, NextDeviceType DEF BindOne, lineVars, DpdkTypeOK, Places
  <2>4. CASE /\ target' = t /\ at' = (IF t \in loaded THEN "claim" ELSE "attach") /\ UNCHANGED << todo, cut, driver, known >>
             /\ known[Device] = "none"
    BY <1>3, <2>1, <2>4 DEF BindOne, lineVars, DpdkTypeOK, Places, Device
  <2>5. CASE /\ target' = t /\ at' = (IF t \in loaded THEN "claim" ELSE "attach") /\ UNCHANGED << todo, cut >>
             /\ Releases /\ known' = [known EXCEPT ![Device] = ""]
    <3>1. driver' \in [Nics -> Drivers] /\ known' \in [Nics -> Drivers \cup {""}]
      BY <2>1, <2>5 DEF Releases, DpdkTypeOK, Drivers
    <3>2. known'[Head(todo')] = ""
      BY <2>1, <2>5 DEF DpdkTypeOK, Device
    <3> QED
      BY <1>3, <2>1, <2>5, <3>1, <3>2 DEF BindOne, lineVars, DpdkTypeOK, Places
  <2> QED
    BY <1>3, <2>2, <2>3, <2>4, <2>5 DEF BindOne, UnbindFails, Exit, DpdkTypeOK
<1>4. CASE Claim
  <2>1. CASE at' = "attach" /\ UNCHANGED << todo, cut >>
    <3>1. target \in Drivers
      BY <1>4 DEF Claim, DpdkTypeOK, Drivers
    <3>2. driver' \in [Nics -> Drivers]
      BY <1>4, <3>1, <2>1 DEF Claim, NextDevice, DpdkTypeOK
    <3> QED
      BY <1>4, <2>1, <3>2 DEF Claim, lineVars, DpdkTypeOK, Places
  <2>2. CASE cut' = TRUE /\ NextDevice /\ UNCHANGED driver
    BY <1>4, <2>2, NextDeviceType DEF Claim, lineVars, DpdkTypeOK, Places
  <2> QED
    BY <1>4, <2>1, <2>2 DEF Claim
<1>5. CASE Attach
  <2>1. Device \in Nics /\ target \in Drivers
    BY <1>5, TodoType DEF Attach, Binds, DpdkTypeOK, Drivers
  <2>2. driver' \in [Nics -> Drivers] /\ known' \in [Nics -> Drivers \cup {""}]
    BY <1>5, <2>1 DEF Attach, GetNicDetails, DpdkTypeOK
  <2>3. active' \subseteq Nics
    BY <1>5 DEF Attach, GetNicDetails, DpdkTypeOK
  <2> QED
    BY <1>5, <2>2, <2>3, NextDeviceType DEF Attach, DpdkTypeOK, Places
<1>6. CASE AttachFails
  <2>1. todo' \in Seq(Nics) /\ at' \in {"device", "ok", "cleanup", "exit"} /\ (at' = "device" => todo' # << >>)
    BY <1>6, NextDeviceType DEF AttachFails, Exit, DpdkTypeOK
  <2>2. cut' \in BOOLEAN
    BY <1>6 DEF AttachFails, DpdkTypeOK
  <2> QED
    BY <1>6, <2>1, <2>2 DEF AttachFails, lineVars, DpdkTypeOK, Places
<1>7. CASE CleanUp
  <2>1. CASE Strays = {} /\ at' = "ok" /\ UNCHANGED << driver, known, todo, cut >>
    BY <1>7, <2>1 DEF CleanUp, lineVars, DpdkTypeOK, Places
  <2>2. ASSUME NEW d \in Strays, known' = [known EXCEPT ![d] = driver[d]],
               \/ driver' = [driver EXCEPT ![d] = "none"] /\ UNCHANGED << at, todo, cut >>
               \/ Exit /\ cut' = TRUE /\ UNCHANGED driver
        PROVE  DpdkTypeOK'
    <3>1. d \in Nics /\ known' \in [Nics -> Drivers \cup {""}] /\ driver' \in [Nics -> Drivers]
      BY <2>2 DEF Strays, DpdkTypeOK, Drivers
    <3> QED
      BY <1>7, <2>2, <3>1 DEF CleanUp, Exit, lineVars, DpdkTypeOK, Places
  <2> QED
    BY <1>7, <2>1, <2>2 DEF CleanUp
<1>8. CASE Killed \/ Ends \/ UNCHANGED dpdkVars
  BY <1>8, EmptySeq DEF Killed, Ends, dpdkVars, lineVars, DpdkTypeOK, Places, Wants, Drivers
<1> QED
  BY <1>1, <1>2, <1>3, <1>4, <1>5, <1>6, <1>7, <1>8 DEF DpdkNext

(* The devices and the script's own data stay of their types, and it never *)
(* runs past the end of its list.                                          *)
THEOREM TypeCorrect == DpdkSpec => []DpdkTypeOK
BY TypeInit, TypeStep, PTL DEF DpdkSpec

-----------------------------------------------------------------------------
(* Devices with an active link.                                            *)

(* Such a device has its interface and is known with a driver, and work    *)
(* begins on unprotected devices only: the claims by model and the cleanup *)
(* are about devices without a driver.                                     *)
ActiveInv ==
  /\ ~force => \A d \in active : HasInterface(d) /\ known[d] # "none"
  /\ at \in {"claim", "attach"} => ~Protected

LEMMA ActiveInvInit == DpdkInit => ActiveInv
BY DEF DpdkInit, ActiveInv

LEMMA NextDeviceAt ==
  ASSUME NextDevice
  PROVE  at' \notin {"claim", "attach", "idle", "exit"}
BY DEF NextDevice

(* Who is known to be active keeps the driver in a step of the script.     *)
LEMMA ActiveStays ==
  ASSUME DpdkTypeOK, ActiveInv, [DpdkNext]_dpdkVars, ~force, NEW a \in active
  PROVE  driver'[a] = driver[a]
<1>1. a \in Nics /\ driver[a] # "none" /\ known[a] # "none"
  BY DEF ActiveInv, HasInterface, DpdkTypeOK
<1>2. ASSUME Releases, ~Protected PROVE driver'[a] = driver[a]
  <2>1. a # Device
    BY <1>2 DEF Protected
  <2> QED
    BY <1>1, <1>2, <2>1 DEF Releases, DpdkTypeOK
<1>3. CASE UnbindOne \/ BindOne
  <2>1. UNCHANGED driver \/ (Releases /\ ~Protected)
    BY <1>3 DEF UnbindOne, BindOne, UnbindFails
  <2> QED
    BY <1>2, <2>1
<1>4. CASE Claim
  BY <1>1, <1>4 DEF Claim, DpdkTypeOK
<1>5. CASE Attach
  <2>1. a # Device
    BY <1>5 DEF Attach, ActiveInv, Protected
  <2> QED
    BY <1>1, <1>5, <2>1 DEF Attach, DpdkTypeOK
<1>6. CASE CleanUp
  <2>1. UNCHANGED driver \/ \E d \in Strays : driver' = [driver EXCEPT ![d] = "none"]
    BY <1>6 DEF CleanUp
  <2> QED
    BY <1>1, <2>1 DEF Strays, DpdkTypeOK
<1>7. CASE AttachFails \/ Killed \/ Ends \/ UNCHANGED dpdkVars
  BY <1>7 DEF AttachFails, Killed, Ends, dpdkVars
<1>8. ASSUME NEW w \in Wants, NEW f \in BOOLEAN, NEW l \in Lists, Invoke(w, f, l)
      PROVE  driver'[a] = driver[a]
  BY <1>8 DEF Invoke
<1> QED
  BY <1>3, <1>4, <1>5, <1>6, <1>7, <1>8 DEF DpdkNext

(* What the script knows of a device with a driver is never that it has    *)
(* none, as long as it does not read again.                                *)
LEMMA ActiveInvStep ==
  ASSUME DpdkTypeOK, ActiveInv, [DpdkNext]_dpdkVars
  PROVE  ActiveInv'
<1>1. ASSUME UNCHANGED << force, active >>,
             \A d \in Nics : known'[d] = "none" => known[d] = "none",
             at' \in {"claim", "attach"} => ~Protected'
      PROVE  ActiveInv'
  BY <1>1, ActiveStays DEF ActiveInv, HasInterface, DpdkTypeOK
<1>2. ASSUME GetNicDetails, at' \notin {"claim", "attach"}
      PROVE  ActiveInv'
  BY <1>2 DEF GetNicDetails, HasInterface, ActiveInv
<1>3. ASSUME NEW w \in Wants, NEW f \in BOOLEAN, NEW l \in Lists, Invoke(w, f, l)
      PROVE  ActiveInv'
  <2>1. GetNicDetails /\ at' \notin {"claim", "attach"}
    BY <1>3 DEF Invoke
  <2> QED
    BY <1>2, <2>1
<1>4. CASE UnbindOne
  <2>1. at' \notin {"claim", "attach"} /\ UNCHANGED << force, active, known >>
    BY <1>4, NextDeviceAt DEF UnbindOne, UnbindFails, Exit, lineVars
  <2> QED
    BY <1>1, <2>1
<1>5. CASE BindOne
  <2>1. UNCHANGED << force, active >>
    BY <1>5 DEF BindOne, lineVars
  <2>2. CASE at' \notin {"claim", "attach"} /\ UNCHANGED known
    BY <1>1, <2>1, <2>2
  <2>3. CASE ~Protected /\ UNCHANGED todo
             /\ (UNCHANGED known \/ known' = [known EXCEPT ![Device] = ""])
    <3>1. ~Protected'
      BY <2>1, <2>3 DEF Protected, Device
    <3>2. \A d \in Nics : known'[d] = "none" => known[d] = "none"
      BY <2>3 DEF DpdkTypeOK
    <3> QED
      BY <1>1, <2>1, <3>1, <3>2
  <2> QED
    BY <1>5, <2>2, <2>3, NextDeviceAt DEF BindOne, UnbindFails, Exit
<1>6. CASE Claim
  <2>1. UNCHANGED << force, active, known >>
    BY <1>6 DEF Claim, lineVars
  <2>2. at' \in {"claim", "attach"} => ~Protected'
    <3>1. at' \in {"claim", "attach"} => UNCHANGED todo
      BY <1>6, NextDeviceAt DEF Claim
    <3> QED
      BY <1>6, <2>1, <3>1 DEF Claim, ActiveInv, Protected, Device
  <2> QED
    BY <1>1, <2>1, <2>2
<1>7. CASE Attach
  <2>1. at' \notin {"claim", "attach"} /\ UNCHANGED force
    BY <1>7, NextDeviceAt DEF Attach
  <2> QED
    BY <1>1, <1>2, <1>7, <2>1 DEF Attach
<1>8. CASE AttachFails
  <2>1. at' \notin {"claim", "attach"} /\ UNCHANGED << force, active, known >>
    BY <1>8, NextDeviceAt DEF AttachFails, Exit, lineVars
  <2> QED
    BY <1>1, <2>1
<1>9. CASE CleanUp
  <2>1. UNCHANGED << force, active >> /\ at' \notin {"claim", "attach"}
    BY <1>9 DEF CleanUp, Exit, lineVars
  <2>2. \A d \in Nics : known'[d] = "none" => known[d] = "none"
    BY <1>9 DEF CleanUp, Strays, DpdkTypeOK
  <2> QED
    BY <1>1, <2>1, <2>2
<1>10. CASE Killed
  BY <1>1, <1>10 DEF Killed, lineVars
<1>11. CASE Ends
  BY <1>11 DEF Ends, ActiveInv
<1>12. CASE UNCHANGED dpdkVars
  <2>1. UNCHANGED << force, active, known >> /\ (at' \in {"claim", "attach"} => ~Protected')
    BY <1>12 DEF dpdkVars, lineVars, ActiveInv, Protected, Device
  <2> QED
    BY <1>1, <2>1
<1> QED
  BY <1>3, <1>4, <1>5, <1>6, <1>7, <1>8, <1>9, <1>10, <1>11, <1>12 DEF DpdkNext

LEMMA ActiveInvAlways == DpdkSpec => []ActiveInv
<1>1. DpdkTypeOK /\ ActiveInv /\ [DpdkNext]_dpdkVars => ActiveInv'
  BY ActiveInvStep
<1> QED
  BY <1>1, ActiveInvInit, TypeCorrect, PTL DEF DpdkSpec

(* Without force a device whose interface was routed when it was last read *)
(* keeps its driver, whatever claims by model, rollbacks and the cleanup   *)
(* do to the others.                                                       *)
THEOREM ActiveKeepsDriverHolds == DpdkSpec => ActiveKeepsDriver
<1>1. DpdkTypeOK /\ ActiveInv /\ [DpdkNext]_dpdkVars
        => [~force => \A d \in active : driver'[d] = driver[d]]_dpdkVars
  BY ActiveStays
<1> QED
  BY <1>1, ActiveInvAlways, TypeCorrect, PTL DEF DpdkSpec, ActiveKeepsDriver

-----------------------------------------------------------------------------
(* Devices that were not asked for.                                        *)

(* One with a driver keeps it, and is never taken for one without.  One    *)
(* without is known as such until the cleanup has freed it; with -e, where *)
(* it is forgotten, only vfio-pci has claimed it by its model.             *)
OtherKept(d) ==
  IF before[d] # "none"
  THEN driver[d] = before[d] /\ known[d] # "none"
  ELSE /\ want = "none" => driver[d] = "none"
       /\ want = "eth" => driver[d] \in {"none", "vfio-pci"}
       /\ want # "eth" /\ at \in {"idle", "device", "claim", "attach"} => known[d] = "none"
       /\ want # "eth" /\ at \in {"cleanup", "ok"} =>
            driver[d] = "none" \/ (known[d] = "none" /\ at # "ok")

OthersInv ==
  /\ \A i \in DOMAIN todo : todo[i] \in Listed
  /\ at \in {"claim", "attach", "cleanup"} => want # "none"
  /\ at = "claim" /\ want = "eth" => target = "vfio-pci"
  /\ \A d \in Nics \ Listed : OtherKept(d)

LEMMA OthersInvInit == DpdkInit => OthersInv
BY DEF DpdkInit, OthersInv, OtherKept

LEMMA OthersInvEnough == OthersInv => OthersUntouched
BY DEF OthersInv, OtherKept, OthersUntouched

(* The device at hand was asked for, and so are those after it.            *)
LEMMA DeviceListed ==
  ASSUME DpdkTypeOK, OthersInv, todo # << >>
  PROVE  /\ Device \in Listed \cap Nics
         /\ \A i \in DOMAIN Tail(todo) : Tail(todo)[i] \in Listed
BY TodoType DEF OthersInv, DpdkTypeOK

(* The module a device is claimed for with -e.                             *)
LEMMA EthClaims ==
  ASSUME DpdkTypeOK, want = "eth", NEW d \in Nics, NEW drv, Target(d, drv) \in loaded
  PROVE  Target(d, drv) = "vfio-pci"
<1>1. System[d] \notin loaded /\ "none" \notin loaded /\ "" \notin loaded
  BY DpdkAssumption DEF DpdkTypeOK, Dpdk
<1> QED
  BY <1>1 DEF Target, EthDriver

LEMMA OthersInvStep ==
  ASSUME DpdkTypeOK, OthersInv, [DpdkNext]_dpdkVars
  PROVE  OthersInv'
<1>1. ASSUME NEW w \in Wants, NEW f \in BOOLEAN, NEW l \in Lists, Invoke(w, f, l)
      PROVE  OthersInv'
  <2>1. \A d \in Nics : OtherKept(d)'
    BY <1>1 DEF Invoke, GetNicDetails, OtherKept, DpdkTypeOK
  <2>2. \A i \in DOMAIN todo' : todo'[i] \in Listed'
    BY <1>1 DEF Invoke, Listed
  <2> QED
    BY <1>1, <2>1, <2>2 DEF Invoke, OthersInv
<1>2. CASE UnbindOne
  <2>1. /\ UNCHANGED << want, list, before, known, target >> /\ want = "none"
        /\ todo # << >> /\ at = "device"
    BY <1>2 DEF UnbindOne, UnbindFails, lineVars, DpdkTypeOK
  <2>2. at' \in {"device", "ok", "exit"} /\ (todo' = Tail(todo) \/ todo' = todo)
    BY <1>2 DEF UnbindOne, UnbindFails, Exit, NextDevice
  <2>3. \A d \in Nics \ Listed : driver'[d] = driver[d]
    BY <1>2, <2>1, DeviceListed DEF UnbindOne, UnbindFails, Releases, DpdkTypeOK
  <2>4. \A d \in Nics \ Listed : OtherKept(d)'
    BY <2>1, <2>2, <2>3 DEF OthersInv, OtherKept
  <2> QED
    BY <2>1, <2>2, <2>4, DeviceListed DEF OthersInv, Listed
<1>3. CASE BindOne
  <2>1. /\ UNCHANGED << want, list, before, loaded >> /\ want # "none"
        /\ todo # << >> /\ at = "device"
    BY <1>3 DEF BindOne, lineVars, DpdkTypeOK
  <2>2. /\ at' \in {"device", "cleanup", "claim", "attach", "exit"}
        /\ todo' = Tail(todo) \/ todo' = todo
    BY <1>3, <2>1 DEF BindOne, UnbindFails, Exit, NextDevice
  <2>3. \A d \in Nics \ Listed : driver'[d] = driver[d] /\ known'[d] = known[d]
    BY <1>3, <2>1, DeviceListed DEF BindOne, UnbindFails, Releases, DpdkTypeOK
  <2>4. \A d \in Nics \ Listed : OtherKept(d)'
    BY <2>1, <2>2, <2>3 DEF OthersInv, OtherKept
  <2>5. at' = "claim" /\ want = "eth" => target' = "vfio-pci"
    BY <1>3, <2>1, EthClaims, DeviceListed, NextDeviceAt DEF BindOne, UnbindFails, Exit
  <2> QED
    BY <2>1, <2>2, <2>4, <2>5, DeviceListed DEF OthersInv, Listed
<1>4. CASE Claim
  <2>1. /\ UNCHANGED << want, list, before, known, target >> /\ want # "none"
        /\ todo # << >> /\ at = "claim"
    BY <1>4 DEF Claim, lineVars, OthersInv, DpdkTypeOK
  <2>2. /\ at' \in {"device", "cleanup", "attach"}
        /\ todo' = Tail(todo) \/ todo' = todo
    BY <1>4, <2>1 DEF Claim, NextDevice
  <2>3. \A d \in Nics : driver'[d] = driver[d] \/ (driver[d] = "none" /\ driver'[d] = target)
    BY <1>4 DEF Claim, DpdkTypeOK
  <2>4. \A d \in Nics \ Listed : OtherKept(d)'
    BY <2>1, <2>2, <2>3 DEF OthersInv, OtherKept
  <2> QED
    BY <2>1, <2>2, <2>4, DeviceListed DEF OthersInv, Listed
<1>5. CASE Attach
  <2>1. /\ UNCHANGED << want, list, before, target >> /\ want # "none"
        /\ todo # << >> /\ at = "attach"
    BY <1>5 DEF Attach, OthersInv, DpdkTypeOK
  <2>2. at' \in {"device", "cleanup"} /\ todo' = Tail(todo)
    BY <1>5, <2>1 DEF Attach, NextDevice
  <2>3. \A d \in Nics \ Listed :
          driver'[d] = driver[d] /\ known'[d] = (IF want = "eth" THEN driver[d] ELSE known[d])
    BY <1>5, <2>1, DeviceListed DEF Attach, GetNicDetails, DpdkTypeOK
  <2>4. \A d \in Nics \ Listed : OtherKept(d)'
    BY <2>1, <2>2, <2>3 DEF OthersInv, OtherKept
  <2> QED
    BY <2>1, <2>2, <2>4, DeviceListed DEF OthersInv, Listed
<1>6. CASE AttachFails
  <2>1. /\ UNCHANGED << driver, known, want, list, before, target >> /\ want # "none"
        /\ todo # << >> /\ at = "attach"
    BY <1>6 DEF AttachFails, lineVars, OthersInv, DpdkTypeOK
  <2>2. /\ at' \in {"device", "cleanup", "exit"}
        /\ todo' = Tail(todo) \/ todo' = todo
    BY <1>6, <2>1 DEF AttachFails, NextDevice, Exit
  <2>3. \A d \in Nics \ Listed : OtherKept(d)'
    BY <2>1, <2>2 DEF OthersInv, OtherKept
  <2> QED
    BY <2>1, <2>2, <2>3, DeviceListed DEF OthersInv, Listed
<1>7. CASE CleanUp
  <2>1. UNCHANGED << want, list, before, todo >> /\ want # "none" /\ at = "cleanup"
    BY <1>7 DEF CleanUp, Exit, lineVars, OthersInv
  <2>2. CASE Strays = {} /\ at' = "ok" /\ UNCHANGED << driver, known >>
    <3>1. \A d \in Nics \ Listed : known[d] # "none" \/ driver[d] = "none"
      BY <2>2 DEF Strays, Listed
    <3>2. \A d \in Nics \ Listed : OtherKept(d)'
      BY <2>1, <2>2, <3>1 DEF OthersInv, OtherKept
    <3> QED
      BY <2>1, <2>2, <3>2 DEF OthersInv, Listed
  <2>3. ASSUME NEW s \in Strays, known' = [known EXCEPT ![s] = driver[s]],
               \/ driver' = [driver EXCEPT ![s] = "none"] /\ UNCHANGED at
               \/ at' = "exit" /\ UNCHANGED driver
        PROVE  OthersInv'
    <3>1. s \in Nics /\ known[s] = "none" /\ driver[s] # "none"
      BY DEF Strays
    <3>2. \A d \in Nics \ Listed : OtherKept(d)'
      BY <2>1, <2>3, <3>1 DEF OthersInv, OtherKept, DpdkTypeOK
    <3> QED
      BY <2>1, <2>3, <3>2 DEF OthersInv, Listed
  <2> QED
    BY <1>7, <2>2, <2>3 DEF CleanUp, Exit
<1>8. CASE Killed
  BY <1>8 DEF Killed, lineVars, OthersInv, OtherKept, Listed
<1>9. CASE Ends
  BY <1>9 DEF Ends, OthersInv, OtherKept
<1>10. CASE UNCHANGED dpdkVars
  BY <1>10 DEF dpdkVars, lineVars, OthersInv, OtherKept, Listed
<1> QED
  BY <1>1, <1>2, <1>3, <1>4, <1>5, <1>6, <1>7, <1>8, <1>9, <1>10 DEF DpdkNext

(* Devices that were not asked for keep their drivers, though writing to   *)
(* new_id binds every unbound device of a model.                           *)
THEOREM OthersUntouchedHolds == DpdkSpec => []OthersUntouched
<1>1. DpdkInit => OthersInv
  BY OthersInvInit
<1>2. DpdkTypeOK /\ OthersInv /\ [DpdkNext]_dpdkVars => OthersInv'
  BY OthersInvStep
<1> QED
  BY <1>1, <1>2, OthersInvEnough, TypeCorrect, PTL DEF DpdkSpec

-----------------------------------------------------------------------------
(* Devices that lose their driver.                                         *)

(* Whether the driver it is to be bound to is there and takes the device.  *)
Fits(d) == Target(d, before[d]) \in loaded \cup {System[d], "none"}

Takes(d) == target \in loaded \cup {System[d]}

(* A device that was asked for and has lost its driver is about to get the *)
(* new one, unless there was a refusal or the new one does not take it.    *)
Regains(d) ==
  before[d] # "none" /\ driver[d] = "none" =>
    \/ cut \/ ~Fits(d)
    \/ at \in {"claim", "attach"} /\ d = Device /\ Takes(d)

LossInv ==
  /\ at \notin {"idle", "exit"} => loaded # {}
  /\ loaded = {} => driver = before
  /\ at \in {"claim", "attach"} => target # "none"
  /\ \A d \in Nics : {driver[d], before[d]} \subseteq loaded \cup {System[d], "none"}
  /\ at # "idle" /\ want # "none" => \A d \in Listed \cap Nics : Regains(d)

(* With -e the driver depends on the one the device has now, not on the    *)
(* one it had before; whether it takes the device does not.                *)
LEMMA FitsStays ==
  ASSUME DpdkTypeOK, LossInv, loaded # {}, want # "none", NEW d \in Nics,
         driver[d] # "none", before[d] # "none",
         Target(d, driver[d]) \notin loaded \cup {System[d], "none"}
  PROVE  ~Fits(d)
<1>1. CASE want # "eth"
  BY <1>1 DEF Target, Fits
<1>2. CASE want = "eth"
  <2>1. Target(d, driver[d]) = EthDriver(d, driver[d])
    BY <1>2 DEF Target
  <2>2. "vfio-pci" \notin (({System[d]} \cup loaded) \ {driver[d], "none"}) \/ "vfio-pci" \in loaded
    BY DpdkAssumption DEF Dpdk
  <2>3. ({System[d]} \cup loaded) \ {driver[d], "none"} = {} /\ EthDriver(d, driver[d]) = ""
    BY <2>1, <2>2 DEF EthDriver
  <2>4. "none" \notin loaded /\ System[d] \notin loaded /\ "" \notin loaded
    BY DpdkAssumption DEF DpdkTypeOK, Dpdk
  <2>5. loaded = {driver[d]} /\ System[d] = "none"
    BY <2>3, <2>4
  <2>6. before[d] = driver[d]
    BY <2>5 DEF LossInv
  <2> QED
    BY <1>2, <2>1, <2>6 DEF Target, Fits
<1> QED
  BY <1>1, <1>2

LEMMA LossInvInit == DpdkInit => LossInv
BY DEF DpdkInit, LossInv

(* A driver that does not take the device is not the one asked for, but    *)
(* with -e: "" is for a device with no other driver, nor a module.         *)
LEMMA EthFits ==
  ASSUME DpdkTypeOK, LossInv, loaded # {}, want = "eth", NEW d \in Nics, ~Fits(d)
  PROVE  System[d] = "none" /\ before[d] # "none"
<1>1. EthDriver(d, before[d]) \notin loaded \cup {System[d], "none"}
  BY DEF Fits, Target
<1>2. System[d] # "vfio-pci" /\ "none" \notin loaded /\ System[d] \notin loaded
  BY DpdkAssumption DEF DpdkTypeOK, Dpdk
<1>3. ({System[d]} \cup loaded) \ {before[d], "none"} = {}
  BY <1>1, <1>2 DEF EthDriver
<1> QED
  BY <1>2, <1>3

LEMMA AskedSuits ==
  ASSUME want # "eth", NEW d
  PROVE  Target(d, before[d]) = Asked(d) /\ (Suits(d) <=> Fits(d))
BY DEF Target, Asked, Suits, Fits

LEMMA LossInvEnough == DpdkTypeOK /\ LossInv => LosesOnlyWhenRefused
<1> SUFFICES ASSUME DpdkTypeOK, LossInv, at \in {"ok", "exit"}, NEW d \in Listed,
                    before[d] # "none", driver[d] = "none", Asked(d) # "none", ~cut
             PROVE  ~Suits(d)
  BY DEF LosesOnlyWhenRefused
<1>1. Listed \subseteq Nics
  <2>1. list \in Seq(Nics)
    BY DEF DpdkTypeOK
  <2>2. \A i \in DOMAIN list : list[i] \in Nics
    BY <2>1, ElementOfSeq, LenProperties
  <2> QED
    BY <2>2 DEF Listed
<1>2. want # "none"
  BY DEF Asked
<1>3. ~Fits(d)
  BY <1>1, <1>2 DEF LossInv, Regains
<1>4. loaded # {}
  BY DEF LossInv
<1>5. want # "eth"
  BY <1>1, <1>3, <1>4, EthFits DEF Asked
<1> QED
  BY <1>3, <1>5, AskedSuits

LEMMA FitsSame ==
  ASSUME UNCHANGED << want, loaded, before >>, NEW d
  PROVE  Fits(d)' <=> Fits(d)
<1>1. Target(d, before[d])' = Target(d, before[d])
  BY DEF Target, EthDriver
<1> QED
  BY <1>1 DEF Fits

(* What Regains(d) reads of the state besides the device's own driver.     *)
LEMMA RegainsKept ==
  ASSUME LossInv, at # "idle", want # "none", NEW d \in Listed \cap Nics,
         UNCHANGED << want, loaded, before >>,
         \/ cut'
         \/ driver'[d] # "none"
         \/ /\ driver'[d] = driver[d] /\ cut' = cut
            /\ at \in {"claim", "attach"} /\ d = Device =>
                 at' \in {"claim", "attach"} /\ UNCHANGED << todo, target >>
  PROVE  Regains(d)'
BY FitsSame DEF LossInv, Regains, Takes, Device

LEMMA LossInvStep ==
  ASSUME DpdkTypeOK, LossInv, [DpdkNext]_dpdkVars
  PROVE  LossInv'
<1>1. ASSUME NEW w \in Wants, NEW f \in BOOLEAN, NEW l \in Lists, Invoke(w, f, l)
      PROVE  LossInv'
  BY <1>1 DEF Invoke, LossInv, Regains
<1>2. CASE UnbindOne
  <2>1. /\ UNCHANGED << want, before, loaded >> /\ want = "none" /\ at = "device"
        /\ at' \in {"device", "ok", "exit"}
    BY <1>2 DEF UnbindOne, UnbindFails, Exit, NextDevice, lineVars
  <2>2. driver' = [driver EXCEPT ![Device] = "none"] \/ UNCHANGED driver
    BY <1>2 DEF UnbindOne, UnbindFails, Releases
  <2>3. \A d \in Nics : driver'[d] \in {driver[d], "none"}
    BY <2>2 DEF DpdkTypeOK
  <2> QED
    BY <2>1, <2>3 DEF LossInv
<1>3. CASE BindOne
  <2> DEFINE t == Target(Device, known[Device])
  <2>1. /\ UNCHANGED << want, before, loaded, list >> /\ want # "none"
        /\ at = "device" /\ at' \in {"device", "cleanup", "claim", "attach", "exit"}
        /\ todo # << >> /\ Device \in Nics
    BY <1>3, TodoType DEF BindOne, UnbindFails, Exit, NextDevice, lineVars, DpdkTypeOK
  <2>2. at' \in {"claim", "attach"} => target' = t /\ t # "none" /\ UNCHANGED << todo, cut >>
    BY <1>3, NextDeviceAt DEF BindOne, UnbindFails, Exit
  <2>3. CASE UNCHANGED driver
    <3>1. cut' \/ UNCHANGED cut
      BY <1>3 DEF BindOne, UnbindFails, DpdkTypeOK
    <3>2. \A d \in Listed \cap Nics : Regains(d)'
      BY <2>1, <2>3, <3>1, RegainsKept
    <3> QED
      BY <2>1, <2>2, <2>3, <3>2 DEF LossInv, Listed
  <2>4. CASE /\ Releases /\ known[Device] = driver[Device] /\ known[Device] # "none"
             /\ at' \in {"claim", "attach"}
    <3>1. \A d \in Nics : driver'[d] = IF d = Device THEN "none" ELSE driver[d]
      BY <2>1, <2>4 DEF Releases, DpdkTypeOK
    <3>2. \A d \in (Listed \cap Nics) \ {Device} : Regains(d)'
      BY <2>1, <2>2, <2>4, <3>1, RegainsKept
    <3>3. before[Device] # "none" => ~Fits(Device) \/ t \in loaded \cup {System[Device]}
      BY <2>1, <2>2, <2>4, FitsStays DEF LossInv
    <3>4. \A d \in {Device} : Regains(d)'
      BY <2>1, <2>2, <2>4, <3>3, FitsSame DEF Regains, Takes, Device
    <3> QED
      <4>1. Listed' = Listed
        BY <2>1 DEF Listed
      <4>2. \A d \in Listed \cap Nics : Regains(d)'
        BY <3>2, <3>4
      <4>3. \A d \in Nics : {driver'[d], before'[d]} \subseteq loaded' \cup {System[d], "none"}
        BY <2>1, <3>1 DEF LossInv
      <4> QED
        BY <2>1, <2>2, <2>4, <4>1, <4>2, <4>3 DEF LossInv
  <2> QED
    BY <1>3, <2>3, <2>4 DEF BindOne, UnbindFails
<1>4. CASE Claim
  <2>1. /\ UNCHANGED << want, before, loaded, list, target >> /\ at = "claim"
        /\ at' \in {"attach", "device", "cleanup", "ok"}
        /\ target \in loaded /\ target # "none" /\ Device \in Nics
    BY <1>4, TodoType DEF Claim, NextDevice, lineVars, DpdkTypeOK, Dpdk
  <2>2. \A d \in Nics : driver'[d] = driver[d] \/ driver'[d] = target
    BY <1>4 DEF Claim, DpdkTypeOK
  <2>3. at' = "attach" => UNCHANGED << todo, cut >>
    BY <1>4, NextDeviceAt DEF Claim, NextDevice
  <2>4. at' # "attach" => cut'
    BY <1>4 DEF Claim
  <2>5. want # "none" => \A d \in Listed \cap Nics : Regains(d)'
    BY <2>1, <2>2, <2>3, <2>4, RegainsKept
  <2> QED
    BY <2>1, <2>2, <2>5 DEF LossInv, Listed
<1>5. CASE Attach
  <2>1. /\ UNCHANGED << want, before, loaded, list, target, cut >> /\ at = "attach"
        /\ at' \in {"device", "cleanup", "ok"} /\ Device \in Nics
        /\ target \in loaded \cup {System[Device]} /\ target # "none"
    BY <1>5, TodoType DEF Attach, Binds, NextDevice, lineVars, DpdkTypeOK, LossInv
  <2>2. \A d \in Nics : driver'[d] = IF d = Device THEN target ELSE driver[d]
    BY <1>5, <2>1 DEF Attach, DpdkTypeOK
  <2>3. want # "none" => \A d \in Listed \cap Nics : Regains(d)'
    BY <2>1, <2>2, RegainsKept
  <2> QED
    BY <2>1, <2>2, <2>3 DEF LossInv, Listed
<1>6. CASE AttachFails
  <2>1. /\ UNCHANGED << driver, want, before, loaded, list >> /\ at = "attach"
        /\ at' \in {"device", "cleanup", "ok", "exit"} /\ Device \in Nics
        /\ cut' = (cut \/ Binds)
    BY <1>6, TodoType DEF AttachFails, Exit, NextDevice, lineVars, DpdkTypeOK
  <2>2. want # "none" => \A d \in Listed \cap Nics : Regains(d)'
    BY <2>1, FitsSame DEF LossInv, Regains, Takes, Binds
  <2> QED
    BY <2>1, <2>2 DEF LossInv, Listed
<1>7. CASE CleanUp
  <2>1. /\ UNCHANGED << want, before, loaded, list >> /\ at = "cleanup"
        /\ at' \in {"cleanup", "ok", "exit"}
    BY <1>7 DEF CleanUp, Exit, lineVars
  <2>2. \A d \in Nics : driver'[d] = driver[d] \/ (driver'[d] = "none" /\ d \notin Listed)
    BY <1>7 DEF CleanUp, Strays, Listed, DpdkTypeOK
  <2>3. cut' \/ UNCHANGED cut
    BY <1>7 DEF CleanUp
  <2>4. want # "none" => \A d \in Listed \cap Nics : Regains(d)'
    BY <2>1, <2>2, <2>3, RegainsKept
  <2> QED
    BY <2>1, <2>2, <2>4 DEF LossInv, Listed
<1>8. CASE Killed
  BY <1>8, FitsSame DEF Killed, lineVars, LossInv, Regains, Listed
<1>9. CASE Ends
  BY <1>9 DEF Ends, LossInv
<1>10. CASE UNCHANGED dpdkVars
  BY <1>10, FitsSame DEF dpdkVars, lineVars, LossInv, Regains, Takes, Device, Listed
<1> QED
  BY <1>1, <1>2, <1>3, <1>4, <1>5, <1>6, <1>7, <1>8, <1>9, <1>10 DEF DpdkNext

(* A device that had a driver is left with none only when a write was      *)
(* refused, the script killed, or the driver asked for does not take it,   *)
(* for command lines of any length and any loaded modules.                 *)
THEOREM LosesOnlyWhenRefusedHolds == DpdkSpec => []LosesOnlyWhenRefused
<1>1. DpdkInit => LossInv
  BY LossInvInit
<1>2. DpdkTypeOK /\ LossInv /\ [DpdkNext]_dpdkVars => LossInv'
  BY LossInvStep
<1> QED
  BY <1>1, <1>2, LossInvEnough, TypeCorrect, PTL DEF DpdkSpec

=============================================================================
