--------------------------- MODULE MCContrailRun ---------------------------
(***************************************************************************)
(* Instances of ContrailRun for TLC: the plans the server manager chooses  *)
(* from.  Every instance has the roles whose stages its run is about.      *)
(***************************************************************************)
EXTENDS ContrailRun

Plan(r, e) == [roles |-> r, enabled |-> e, release |-> 1, upgrade |-> FALSE]
AllOn(r) == Plan(r, r \cup {"provision_start", "provision_complete"})

(* a host that changes between a controller with analytics, a node behind  *)
(* keepalived and haproxy, a compute node, the same after an upgrade, a    *)
(* TSN with ToR agents whose upgrade flag is set, and none                 *)
VipPlan == Plan({"config", "openstack"},
                {"config", "openstack", "keepalived", "haproxy", "ha_config",
                 "provision_complete"})
ControllerPlan == AllOn({"control", "collector"})
TsnPlan == [AllOn({"compute", "tsn", "toragent"}) EXCEPT !.upgrade = TRUE]
HostPlans == { ControllerPlan, VipPlan, AllOn({"compute"}),
               [AllOn({"compute"}) EXCEPT !.release = 2], TsnPlan, AllOn({}) }

(* a node that loses the config role it was deregistered through, and is   *)
(* given storage, on an operating system where removals fail half way      *)
AgentPlan  == AllOn({"config", "control", "webui", "global_controller"})
AgentPlans == { AgentPlan,
                Plan({"storage-compute", "control"},
                     {"storage", "control", "provision_complete"}),
                AllOn({}) }

(* a compute node                                                          *)
ComputePlan  == AllOn({"compute"})
ComputePlans == { ComputePlan }

(* a webui node that becomes a collector                                   *)
WebuiPlan  == AllOn({"webui"})
WebuiPlans == { WebuiPlan, AllOn({"collector"}) }

=============================================================================
