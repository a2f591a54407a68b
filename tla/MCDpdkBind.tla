----------------------------- MODULE MCDpdkBind -----------------------------
(***************************************************************************)
(* Instance of DpdkBind for TLC: two ports of one adapter and a device of  *)
(* another model that no kernel module drives.                             *)
(***************************************************************************)
EXTENDS DpdkBind

Devices   == {"p0", "p1", "q0"}
ModelOf   == [d \in Devices |-> IF d = "q0" THEN "q" ELSE "p"]
ModuleOf  == [d \in Devices |-> IF d = "q0" THEN "none" ELSE "ixgbe"]
=============================================================================
