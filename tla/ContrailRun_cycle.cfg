SPECIFICATION FairSpec
CONSTANTS
  OnUbuntu = TRUE
  AnsibleProvision = FALSE
  EnableLbaas = FALSE
  Legacy = {}
  ApiHere = FALSE
  Plans <- WebuiPlans
  FirstPlan <- WebuiPlan
  MaxVersion = 2
  MaxFaults = 0
PROPERTIES EnabledIsInstalled
