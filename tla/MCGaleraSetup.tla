--------------------------- MODULE MCGaleraSetup ---------------------------
(***************************************************************************)
(* Instances of GaleraSetup for TLC.  Nodes are numbers, for the script    *)
(* treats the first two of the list differently: no symmetry.              *)
(***************************************************************************)
EXTENDS GaleraSetup

NoNode   == {}
Others   == Nodes \ {1}
AllNodes == Nodes
=============================================================================
