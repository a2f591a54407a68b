----------------------------- MODULE MCHaConfig -----------------------------
(***************************************************************************)
(* Instance of HaConfig for TLC: the first node and others that joins,     *)
(* faults and reinstallations hit.  Nodes are numbers: the first is        *)
(* different and certificates are named by the node that made them.        *)
(***************************************************************************)
EXTENDS HaConfig

TwoNodes   == {1, 2}
ThreeNodes == {1, 2, 3}
NotFirst   == Hosts \ {1}
=============================================================================
