------------------------ MODULE MCProvisionContrail ------------------------
(***************************************************************************)
(* Instances of ProvisionContrail for TLC.                                 *)
(***************************************************************************)
EXTENDS ProvisionContrail

TwoConfigs == {"cfg1", "cfg2"}

C(k, h) == << k, h >>

(* control nodes that come and go, and a BGP peer                          *)
ControlEntries == { C("control", "h1"), C("control", "h2"), C("bgp", "mx") }
ControlLists   == { { C("control", "h1"), C("bgp", "mx") }, ControlEntries,
                    { C("control", "h2") } }
ControlFirst   == { C("control", "h1"), C("bgp", "mx") }

(* a compute node and a database node that leave and are listed again      *)
ComputeEntries == { C("compute", "h1"), C("database", "h2") }
ComputeLists   == { ComputeEntries, { C("compute", "h1") }, {} }

=============================================================================
