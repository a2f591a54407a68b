SPECIFICATION Spec
CONSTANTS
  OnUbuntu = TRUE
  AnsibleProvision = FALSE
  EnableLbaas = FALSE
  Legacy = {}
  ApiHere = FALSE
  Plans <- ComputePlans
  FirstPlan <- ComputePlan
  MaxVersion = 1
  MaxFaults = 2
INVARIANTS RebootedBeforeCompleted
