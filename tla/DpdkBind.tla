------------------------------ MODULE DpdkBind ------------------------------
(***************************************************************************)
(* lib/facter/dpdk_nic_bind.py: moves network devices between their system *)
(* driver and a DPDK driver by writing to /sys.  It reads all devices once *)
(* and then works from what it read, device by device; every write may be  *)
(* refused and the script be killed between two of them.                   *)
(*                                                                         *)
(* External: the kernel.  A DPDK driver has no table of devices: writing a *)
(* device's ids to its new_id binds every unbound device of the model.     *)
(***************************************************************************)
EXTENDS Naturals, Sequences, FiniteSets

CONSTANTS Nics,       \* Ethernet devices, by PCI address
          Model,      \* vendor and device id of each
          System,     \* the kernel module that drives it, "none" if there is none
          MaxListed   \* bound: devices on a command line

Dpdk == {"igb_uio", "vfio-pci"}

ASSUME DpdkAssumption ==
  /\ System \in [Nics -> STRING]
  /\ \A d \in Nics : System[d] \notin Dpdk \cup {"", "dpdk", "eth"}
  /\ MaxListed \in Nat

VARIABLES
  driver,  \* the driver a device is bound to, or "none"
  loaded,  \* dpdk_drivers: the DPDK modules that are loaded
  at,      \* the step the script is at
  want,    \* b_flag
  force,   \* force_flag
  list,    \* the devices it was given
  todo,    \* those it has not finished
  known,   \* Driver_str of each device: "none" if absent, "" when cleared
  active,  \* Ssh_if: devices whose interface is in the routing table
  target,  \* the driver bind_one binds to
  before,  \* history: driver when it started
  cut      \* history: a write was refused or the script killed

lineVars == << loaded, want, force, list, active, before >>
dpdkVars == << driver, at, todo, known, target, cut, lineVars >>

Drivers == {System[d] : d \in Nics} \cup Dpdk \cup {"none"}
Wants   == Drivers \cup {"dpdk", "eth"}
Places  == {"idle", "device", "claim", "attach", "cleanup", "ok", "exit"}

DpdkTypeOK ==
  /\ driver \in [Nics -> Drivers] /\ before \in [Nics -> Drivers]
  /\ known \in [Nics -> Drivers \cup {""}]
  /\ loaded \subseteq Dpdk /\ active \subseteq Nics
  /\ at \in Places /\ want \in Wants
  /\ force \in BOOLEAN /\ cut \in BOOLEAN
  /\ list \in Seq(Nics) /\ todo \in Seq(Nics)
  /\ at \in {"device", "claim", "attach"} => todo # << >>
  /\ at \in {"claim", "attach"} => known[Head(todo)] \in {"none", ""}
  /\ at = "claim" => target \in loaded
  /\ target \in Drivers \cup {""}

DpdkInit ==
  /\ loaded \in SUBSET Dpdk
  /\ driver \in {f \in [Nics -> Drivers] : \A d \in Nics : f[d] \in loaded \cup {System[d], "none"}}
  /\ at = "idle" /\ want = "none" /\ force = FALSE
  /\ list = << >> /\ todo = << >>
  /\ known = driver /\ before = driver /\ target = "none"
  /\ active = {} /\ cut = FALSE

-----------------------------------------------------------------------------
(* Reading the command line and the devices.                               *)

HasInterface(d) == System[d] # "none" /\ driver[d] = System[d]

(* What a device is bound to, and which interfaces have a route.           *)
GetNicDetails ==
  /\ known' = driver'
  /\ active' \in SUBSET {d \in Nics : HasInterface(d)'}

(* -d and -e force, -b dpdk and -b eth do not.  Without a DPDK module      *)
(* nothing is done, nor when a name on the line is no device's: a device   *)
(* bound to a DPDK driver has no interface name any more.                  *)
Invoke(w, f, l) ==
  /\ at = "idle"
  /\ want' = w /\ force' = f
  /\ list' = l /\ todo' = l
  /\ UNCHANGED << driver, loaded, target >>
  /\ GetNicDetails /\ before' = driver
  /\ at' \in IF loaded = {} THEN {"exit"} ELSE {"device", "exit"}
  /\ cut' = FALSE

(* With -e, the first of the unused modules that is not igb_uio: "" when   *)
(* the only module there is is the one in use, "none" when there is none.  *)
EthDriver(d, drv) ==
  LET Unused == ({System[d]} \cup loaded) \ {drv, "none"}
  IN  CASE System[d] \in Unused                                 -> System[d]
        [] System[d] \notin Unused /\ "vfio-pci" \in Unused     -> "vfio-pci"
        [] Unused = {}                                          -> ""
        [] OTHER                                                -> "none"

Target(d, drv) ==
  CASE want = "dpdk" -> "igb_uio"
    [] want = "eth"  -> EthDriver(d, drv)
    [] OTHER         -> want

Device == Head(todo)

Protected == Device \in active /\ ~force

(* Mutant: the end of the list is missed.                                  *)
NextDeviceAlways == todo' = Tail(todo) /\ at' = "device"

(* On to the next device; unbind_all has no cleanup.                       *)
NextDevice ==
  /\ todo' = Tail(todo)
  /\ at' = IF Len(todo) > 1 THEN "device" ELSE IF want = "none" THEN "ok" ELSE "cleanup"

Exit == at' = "exit" /\ UNCHANGED todo

-----------------------------------------------------------------------------
(* unbind_one and bind_one, write by write.                                *)

Releases == driver' = [driver EXCEPT ![Device] = "none"]

(* The file of the driver that was read cannot be opened, or the driver    *)
(* does not have the device any more: both end the script.                 *)
UnbindFails ==
  /\ Exit /\ UNCHANGED << driver, known, target >>
  /\ cut' = (cut \/ known[Device] = driver[Device])

(* Mutant: a device with an active link is unbound like the others.        *)
UnbindOneAnyway ==
  /\ at = "device" /\ want = "none"
  /\ Releases /\ NextDevice
  /\ UNCHANGED << known, target, cut >> /\ UNCHANGED lineVars

UnbindOne ==
  /\ at = "device" /\ want = "none"
  /\ \/ /\ known[Device] = "none" \/ Protected
        /\ NextDevice /\ UNCHANGED << driver, known, target, cut >>
     \/ /\ known[Device] # "none" /\ ~Protected
        /\ \/ /\ known[Device] = driver[Device] /\ Releases
              /\ NextDevice /\ UNCHANGED << known, target, cut >>
           \/ UnbindFails
  /\ UNCHANGED lineVars

(* Mutant: the device is unbound before it is known what to bind it to.    *)
BindOneUnbindsFirst ==
  /\ at = "device" /\ want # "none" /\ ~Protected /\ known[Device] # "none"
  /\ Releases /\ known' = [known EXCEPT ![Device] = ""]
  /\ LET t == Target(Device, known[Device])
     IN  \/ t = "none" /\ Exit /\ UNCHANGED target
         \/ /\ t # "none" /\ target' = t /\ UNCHANGED todo
            /\ at' = IF t \in loaded THEN "claim" ELSE "attach"
  /\ UNCHANGED cut /\ UNCHANGED lineVars

BindOne ==
  /\ at = "device" /\ want # "none"
  /\ LET t == Target(Device, known[Device])
         Busy == known[Device] # "none"
         Goes == /\ t # "none" /\ ~Protected /\ known[Device] # t
         ToBind == /\ target' = t
                   /\ at' = IF t \in loaded THEN "claim" ELSE "attach"
                   /\ UNCHANGED << todo, cut >>
     IN  \/ /\ t = "none"
            /\ Exit /\ UNCHANGED << driver, known, target, cut >>
         \/ /\ t # "none" /\ (Protected \/ known[Device] = t)
            /\ NextDevice /\ UNCHANGED << driver, known, target, cut >>
         \/ Goes /\ ~Busy /\ ToBind /\ UNCHANGED << driver, known >>
         \/ /\ Goes /\ Busy /\ known[Device] = driver[Device]
            /\ Releases /\ known' = [known EXCEPT ![Device] = ""]
            /\ ToBind
         \/ Goes /\ Busy /\ UnbindFails
  /\ UNCHANGED lineVars

(* new_id; when it is refused, bind_one returns as it is.                  *)
Claim ==
  /\ at = "claim"
  /\ \/ /\ driver' = [d \in Nics |-> IF driver[d] = "none" /\ Model[d] = Model[Device]
                                     THEN target ELSE driver[d]]
        /\ at' = "attach" /\ UNCHANGED << todo, cut >>
     \/ cut' = TRUE /\ NextDevice /\ UNCHANGED driver
  /\ UNCHANGED << known, target >> /\ UNCHANGED lineVars

Binds == driver[Device] \in {"none", target} /\ target \in loaded \cup {System[Device]}

(* bind; with -e or -b eth all devices and links are read again.           *)
Attach ==
  /\ at = "attach" /\ Binds
  /\ driver' = [driver EXCEPT ![Device] = target]
  /\ IF want = "eth" THEN GetNicDetails ELSE UNCHANGED << known, active >>
  /\ NextDevice
  /\ UNCHANGED << target, cut, loaded, want, force, list, before >>

(* Mutant: whatever the write to bind answers is ignored.                  *)
AttachFailsIgnored ==
  /\ at = "attach" /\ driver[Device] # target
  /\ NextDevice
  /\ cut' = (cut \/ Binds)
  /\ UNCHANGED << driver, known, target >> /\ UNCHANGED lineVars

(* The rollback calls bind_one for the driver the device had, which starts *)
(* with unbind_one for the cleared driver "", of which there is no file:   *)
(* the script ends there.                                                  *)
AttachFails ==
  /\ at = "attach" /\ driver[Device] # target
  /\ IF known[Device] = "" THEN Exit ELSE NextDevice
  /\ cut' = (cut \/ Binds)
  /\ UNCHANGED << driver, known, target >> /\ UNCHANGED lineVars

-----------------------------------------------------------------------------
(* The end of bind_all: devices that no driver had and none was asked for  *)
(* are freed again.                                                        *)

Strays == {d \in Nics : known[d] = "none" /\ driver[d] # "none"}
            \ {list[i] : i \in DOMAIN list}

(* Mutant: devices that were bound before are freed as well.               *)
CleanUpAll ==
  /\ at = "cleanup"
  /\ driver' = [d \in Nics |-> IF d \in {list[i] : i \in DOMAIN list}
                               THEN driver[d] ELSE "none"]
  /\ at' = "ok"
  /\ UNCHANGED << todo, known, target, cut >> /\ UNCHANGED lineVars

CleanUp ==
  /\ at = "cleanup"
  /\ \/ /\ Strays = {} /\ at' = "ok"
        /\ UNCHANGED << driver, known, todo, cut >>
     \/ \E d \in Strays :
          /\ known' = [known EXCEPT ![d] = driver[d]]
          /\ \/ driver' = [driver EXCEPT ![d] = "none"] /\ UNCHANGED << at, todo, cut >>
             \/ Exit /\ cut' = TRUE /\ UNCHANGED driver
  /\ UNCHANGED target /\ UNCHANGED lineVars

Killed ==
  /\ at \in {"device", "claim", "attach", "cleanup"}
  /\ at' = "exit" /\ cut' = TRUE
  /\ UNCHANGED << driver, todo, known, target >> /\ UNCHANGED lineVars

(* The process ends, and what it has read and done with it.                *)
Ends ==
  /\ at \in {"ok", "exit"}
  /\ at' = "idle" /\ want' = "none" /\ force' = FALSE /\ cut' = FALSE
  /\ list' = << >> /\ todo' = << >> /\ active' = {} /\ target' = "none"
  /\ known' = driver /\ before' = driver
  /\ UNCHANGED << driver, loaded >>

(* Devices may be named by address or interface, and twice.                *)
Lists == UNION {[1 .. k -> Nics] : k \in 1 .. MaxListed}

DpdkNext ==
  \/ \E w \in Wants, f \in BOOLEAN, l \in Lists : Invoke(w, f, l)
  \/ UnbindOne \/ BindOne \/ Claim \/ Attach \/ AttachFails \/ CleanUp \/ Killed
  \/ Ends

DpdkSpec == DpdkInit /\ [][DpdkNext]_dpdkVars

-----------------------------------------------------------------------------
(* Properties.                                                             *)

Listed == {list[i] : i \in DOMAIN list}

(* Binding devices leaves those that were not asked for as they were: one  *)
(* with a driver keeps it throughout, and in the end none is left to the   *)
(* driver that claimed it by its model.  Except with -e: what was read     *)
(* again counts as bound before.                                           *)
OthersUntouched ==
  \A d \in Nics \ Listed :
    \/ driver[d] = before[d]
    \/ before[d] = "none" /\ (at # "ok" \/ (want = "eth" /\ driver[d] = "vfio-pci"))

(* Without force, a device whose interface was in the routing table when   *)
(* it was last read keeps its driver in every step, whatever is done to    *)
(* the others.                                                             *)
ActiveKeepsDriver ==
  [][~force => \A d \in active : driver'[d] = driver[d]]_dpdkVars

(* The driver the usage text promises: -e takes a device back to the       *)
(* system's driver.                                                        *)
Asked(d) ==
  CASE want = "dpdk" -> "igb_uio"
    [] want = "eth"  -> System[d]
    [] OTHER         -> want

(* Whether the driver asked for is there and takes the device.             *)
Suits(d) == Asked(d) \in loaded \cup {System[d], "none"}

(* The code knows a system driver as the first unused module but igb_uio.  *)
(* Where the device is at its system driver already, or has none, that is  *)
(* vfio-pci if it is loaded: -e takes the device away from the system.     *)
TakenByVfio(d) ==
  want = "eth" /\ System[d] \in {before[d], "none"} /\ driver[d] = "vfio-pci"

(* A script that ends well has given every device the driver asked for,    *)
(* though it looks at no result of a claim and goes on from what it read:  *)
(* unless a write was refused, the device has an active link, it had no    *)
(* driver and that one does not take it, or -e has bound it to vfio-pci    *)
(* instead.  (-e moves a device that is named twice on to the next         *)
(* driver.)                                                                *)
DoneAsAsked ==
  at = "ok" /\ ~cut /\ Cardinality(Listed) = Len(list) =>
    \A d \in Listed :
      \/ driver[d] = Asked(d)
      \/ d \in active /\ ~force
      \/ before[d] = "none" /\ ~Suits(d)
      \/ TakenByVfio(d)

(* A device is left without a driver, when that was not asked for, only    *)
(* where a write was refused, the script killed, or the driver asked for   *)
(* does not take the device: its old driver is never restored then, as the *)
(* rollback ends the script.                                               *)
LosesOnlyWhenRefused ==
  at \in {"ok", "exit"} =>
    \A d \in Listed :
      before[d] # "none" /\ driver[d] = "none" => Asked(d) = "none" \/ cut \/ ~Suits(d)

=============================================================================
