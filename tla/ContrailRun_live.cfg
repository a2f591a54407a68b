SPECIFICATION FairSpec
CONSTANTS
  OnUbuntu = FALSE
  AnsibleProvision = FALSE
  EnableLbaas = FALSE
  Legacy = {}
  ApiHere = TRUE
  Plans <- AgentPlans
  FirstPlan <- AgentPlan
  MaxVersion = 2
  MaxFaults = 1
PROPERTIES Converges Retires
